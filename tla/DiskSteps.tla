------------------------------ MODULE DiskSteps ------------------------------
(***************************************************************************)
(* The inductive invariant behind the theorems about Disk, and one lemma   *)
(* for each action of the buffer cache, and for the start of a request in  *)
(* the driver, that says that it keeps it.                                 *)
(***************************************************************************)
EXTENDS Disk, TLAPS

(* p has the lock of its buffer; p's request is with the driver. *)
Locked == {"rw", "sleep_free", "sleep_buf", "rw_done", "held", "dirty", "written"}
Holds(p) == th[p].pc \in Locked
Busy(p) == th[p].pc \in {"sleep_buf", "rw_done"}
Requesters == {p \in Proc : Busy(p)}
Users(i) == {p \in Proc : th[p].i = i}

CacheType ==
  /\ buf \in [Buf -> [b : Block \cup {NULL}, valid : BOOLEAN, disk : BOOLEAN,
                      lock : Proc \cup {NULL}, refcnt : Nat, data : Val \cup {NULL}]]
  /\ lru \in [Buf -> Buf]
  /\ pinned \subseteq Block

ThreadType ==
  th \in [Proc -> [pc : Locked \cup {"idle", "acquiresleep", "sleep_lock", "brelse"},
                   b : Block \cup {NULL}, i : Buf \cup {NULL}, d : Desc \cup {NULL},
                   write : BOOLEAN]]

DriverType ==
  /\ NUM \in Nat \ 0..2 /\ Desc = 0..(NUM - 1)
  /\ desc \in [Desc -> Desc \cup {NULL}]
  /\ free \subseteq Desc /\ inflight \subseteq Desc
  /\ req \in [Desc -> [write : BOOLEAN, sector : Block \cup {NULL}, i : Buf \cup {NULL},
                       status : {"none", "ok"}]]
  /\ avail \in [ring : [Desc -> Desc \cup {NULL}], idx : 0..(IDX - 1), seen : 0..(IDX - 1)]
  /\ used \in [ring : [Desc -> Desc \cup {NULL}], idx : 0..(IDX - 1), seen : 0..(IDX - 1)]
  /\ blk \in [Block -> Val \cup {NULL}]
  /\ isr \in BOOLEAN /\ handler \in BOOLEAN

(* What a process has at each place of the code. *)
Threads ==
  \A p \in Proc :
    /\ th[p].pc = "idle" => th[p] = Idle
    /\ th[p].pc # "idle" => /\ th[p].i \in Buf /\ th[p].b \in Block
                            /\ buf[th[p].i].b = th[p].b
    /\ Busy(p) <=> th[p].d # NULL
    /\ th[p].write => th[p].pc \in {"rw", "sleep_free", "sleep_buf", "rw_done"}

(* A lock has the owner that thinks so; who owns a buffer knows whether it *)
(* has been read.                                                          *)
Locks ==
  /\ \A p \in Proc : Holds(p) =>
       /\ buf[th[p].i].lock = p
       /\ buf[th[p].i].valid <=> th[p].write \/ th[p].pc \in {"held", "dirty", "written"}
  /\ \A i \in Buf : buf[i].lock # NULL => Holds(buf[i].lock) /\ th[buf[i].lock].i = i

(* One buffer for a block, counted right. *)
Counts ==
  /\ \A i, j \in Buf : buf[i].b # NULL /\ buf[i].b = buf[j].b => i = j
  /\ \A i \in Buf : buf[i].refcnt = Cardinality(Users(i)) + (IF buf[i].b \in pinned THEN 1 ELSE 0)
  /\ \A b \in pinned : \E i \in Buf : buf[i].b = b

(* A buffer that has been read differs from the disk only if it is pinned  *)
(* or its owner has changed it and not yet written.                        *)
Dirty(p) == th[p].pc = "dirty" \/ th[p].write
Clean ==
  /\ \A i \in Buf : buf[i].valid => buf[i].b \in Block
  /\ \A i \in Buf : buf[i].valid /\ buf[i].b \notin pinned /\ (\A p \in Users(i) : ~Dirty(p))
                      => buf[i].data = blk[buf[i].b]
  /\ \A p \in Proc : th[p].pc = "written" => buf[th[p].i].data = blk[th[p].b]

(* Every request has three descriptors, none of them free or another's. *)
Chains ==
  /\ \A p \in Proc : Busy(p) =>
       LET d == th[p].d
       IN  /\ d \in Desc /\ desc[d] \in Desc /\ desc[desc[d]] \in Desc
           /\ d # desc[d] /\ d # desc[desc[d]] /\ desc[d] # desc[desc[d]]
           /\ d \notin free /\ desc[d] \notin free /\ desc[desc[d]] \notin free
  /\ \A p, q \in Proc : Busy(p) /\ Busy(q) /\ p # q => Freed(th[p].d) \cap Freed(th[q].d) = {}
  /\ Cardinality(free) + 3 * Cardinality(Requesters) = NUM

(* What the driver and the device know of a request. *)
Requests ==
  \A p \in Proc : Busy(p) =>
    LET t == th[p]
        r == req[t.d]
    IN  /\ r.write = t.write /\ r.sector = t.b /\ r.i = t.i
        /\ r.status = "ok" => buf[t.i].data = blk[t.b]
        /\ ~buf[t.i].disk => r.status = "ok"
        /\ t.pc = "rw_done" => ~buf[t.i].disk

(* d is a request with the given status that the handler has not seen. *)
Open(d, status) == \E p \in Proc : /\ Busy(p) /\ th[p].d = d /\ buf[th[p].i].disk
                                   /\ req[d].status = status

(* A request is in one place: in a slot of one ring, or with the device. *)
Places ==
  /\ \A s \in Desc : avail.ring[s] # NULL => Open(avail.ring[s], "none") /\ avail.ring[s] \notin inflight
  /\ \A d \in inflight : Open(d, "none")
  /\ \A s \in Desc : used.ring[s] # NULL => Open(used.ring[s], "ok")
  /\ \A s, u \in Desc : avail.ring[s] # NULL /\ avail.ring[s] = avail.ring[u] => s = u
  /\ \A s, u \in Desc : used.ring[s] # NULL /\ used.ring[s] = used.ring[u] => s = u

(* n slots of a ring are taken: those from Slot(seen) on. *)
Wrap(x, m) == IF x < m THEN x ELSE x - m
Filled(r, n) ==
  /\ r.idx = Wrap(r.seen + n, IDX)
  /\ Slot(r.idx) = Wrap(Slot(r.seen) + n, NUM)
  /\ \A s \in Desc : r.ring[s] # NULL <=> Wrap(s - Slot(r.seen) + NUM, NUM) < n
Rings ==
  /\ \E n \in 0..(NUM - 1) : Filled(avail, n)
  /\ \E n \in 0..(NUM - 1) : Filled(used, n)

DriverInv == DriverType /\ Chains /\ Requests /\ Places /\ Rings
DiskInv ==
  /\ CacheType /\ ThreadType /\ Threads /\ Locks /\ Counts /\ Clean
  /\ DriverInv /\ NoLostWakeup

-----------------------------------------------------------------------------
(* What the proofs need to know of finite sets.  DiskTheorems proves it    *)
(* from FiniteSetTheorems; the lemmas about single steps start from it.    *)
EmptyFact ==
  /\ IsFiniteSet({}) /\ Cardinality({}) = 0
  /\ \A S : IsFiniteSet(S) => (Cardinality(S) = 0 <=> S = {})
CardFact == \A S : IsFiniteSet(S) => Cardinality(S) \in Nat
SubsetFact ==
  \A S : IsFiniteSet(S) =>
    \A T \in SUBSET S : IsFiniteSet(T) /\ Cardinality(T) <= Cardinality(S)
AddFact ==
  \A S, x : IsFiniteSet(S) =>
    /\ IsFiniteSet(S \cup {x})
    /\ Cardinality(S \cup {x}) = IF x \in S THEN Cardinality(S) ELSE Cardinality(S) + 1
RemoveFact ==
  \A S, x : IsFiniteSet(S) =>
    /\ IsFiniteSet(S \ {x})
    /\ Cardinality(S \ {x}) = IF x \in S THEN Cardinality(S) - 1 ELSE Cardinality(S)
IntervalFact ==
  \A a, b \in Int :
    /\ IsFiniteSet(a..b)
    /\ Cardinality(a..b) = IF a > b THEN 0 ELSE b - a + 1
PigeonFact ==
  \A S, T : IsFiniteSet(S) /\ IsFiniteSet(T) /\ Cardinality(T) < Cardinality(S) =>
    \A f \in [S -> T] : \E x, y \in S : x # y /\ f[x] = f[y]
FiniteFacts ==
  /\ EmptyFact /\ CardFact /\ SubsetFact /\ AddFact /\ RemoveFact
  /\ IntervalFact /\ PigeonFact

-----------------------------------------------------------------------------
(* Shared facts.                                                           *)

(* The number of descriptors does not change with what is in them. *)
LEMMA SameNum ==
  ASSUME DOMAIN desc' = DOMAIN desc
  PROVE  Desc' = Desc /\ NUM' = NUM /\ IDX' = IDX
BY Zenon DEF Desc, NUM, IDX

(* The number of users of a buffer is a number. *)
LEMMA UsersFinite ==
  ASSUME FiniteFacts, NEW i
  PROVE  IsFiniteSet(Users(i)) /\ Cardinality(Users(i)) \in Nat
<1>1. Users(i) \in SUBSET Proc
  BY Zenon DEF Users
<1> QED
  BY <1>1, DiskAssumption, Zenon DEF FiniteFacts, SubsetFact, CardFact

(* A buffer with count 0 has no user and no pin. *)
LEMMA UnusedFree ==
  ASSUME FiniteFacts, Counts, NEW i \in Buf, buf[i].refcnt = 0
  PROVE  Users(i) = {} /\ buf[i].b \notin pinned
<1>1. IsFiniteSet(Users(i)) /\ Cardinality(Users(i)) \in Nat
  BY UsersFinite, Zenon
<1>2. Cardinality(Users(i)) = 0 /\ buf[i].b \notin pinned
  BY <1>1 DEF Counts
<1> QED
  BY <1>1, <1>2, Zenon DEF FiniteFacts, EmptyFact

(* A buffer without users is not locked. *)
LEMMA FreeLock ==
  ASSUME CacheType, Locks, NEW i \in Buf, Users(i) = {}
  PROVE  buf[i].lock = NULL
BY DEF CacheType, Locks, Users

(* Steps that leave the requests and their buffers alone keep what is true *)
(* of the driver.                                                          *)
SameRequests ==
  \A q \in Proc : /\ Busy(q)' <=> Busy(q)
                  /\ Busy(q) => /\ th'[q] = th[q]
                                /\ buf'[th[q].i].disk = buf[th[q].i].disk
                                /\ buf'[th[q].i].data = buf[th[q].i].data

LEMMA DriverFrame ==
  ASSUME DriverInv, SameRequests, UNCHANGED <<dvars, devvars, handler>>
  PROVE  DriverInv'
<1>1. /\ free' = free /\ desc' = desc /\ req' = req /\ avail' = avail /\ used' = used
      /\ blk' = blk /\ inflight' = inflight /\ isr' = isr /\ handler' = handler
  BY Zenon DEF dvars, devvars
<1>2. Desc' = Desc /\ NUM' = NUM /\ IDX' = IDX
  BY <1>1, SameNum, Zenon
<1>3. DriverType'
  BY <1>1, <1>2, Zenon DEF DriverInv, DriverType
<1>4. Requesters' = Requesters
  BY Zenon DEF SameRequests, Requesters
<1>5. \A d : Freed(d)' = Freed(d)
  BY <1>1, Zenon DEF Freed, Chain
<1>6. Chains'
  BY <1>1, <1>2, <1>4, <1>5, Zenon DEF SameRequests, DriverInv, Chains
<1>7. Requests'
  BY <1>1 DEF SameRequests, DriverInv, Requests
<1>8. \A d, s : Open(d, s) => Open(d, s)'
  BY <1>1, Zenon DEF SameRequests, Open
<1>9. Places'
  BY <1>1, <1>2, <1>8, Zenon DEF DriverInv, Places
<1>10. Rings'
  BY <1>1, <1>2, Zenon DEF DriverInv, Rings, Filled, Slot
<1> QED
  BY <1>3, <1>6, <1>7, <1>9, <1>10, Zenon DEF DriverInv

(* Steps that leave blocks, counts and users alone keep the counts right. *)
LEMMA CountsFrame ==
  ASSUME Counts, pinned' = pinned,
         \A q \in Proc : th'[q].i = th[q].i,
         \A i \in Buf : buf'[i].b = buf[i].b /\ buf'[i].refcnt = buf[i].refcnt
  PROVE  Counts'
<1>1. \A i : Users(i)' = Users(i)
  BY Zenon DEF Users
<1> QED
  BY <1>1 DEF Counts

(* Steps that leave the locks, and what their holders know, alone. *)
Knows(p) == th[p].write \/ th[p].pc \in {"held", "dirty", "written"}

LEMMA LocksFrame ==
  ASSUME CacheType, Threads, Locks,
         \A q \in Proc : /\ th'[q].i = th[q].i /\ (Holds(q)' <=> Holds(q))
                         /\ Holds(q) => (Knows(q)' <=> Knows(q)),
         \A j \in Buf : buf'[j].lock = buf[j].lock /\ buf'[j].valid = buf[j].valid
  PROVE  Locks'
<1>1. \A q \in Proc : Holds(q) => th[q].i \in Buf
  BY Zenon DEF Threads, Holds, Locked
<1>2. \A q \in Proc : Holds(q) => buf[th[q].i].lock = q /\ (buf[th[q].i].valid <=> Knows(q))
  BY Zenon DEF Locks, Knows
<1>3. \A q \in Proc : Holds(q)' => buf'[th'[q].i].lock = q /\ (buf'[th'[q].i].valid <=> Knows(q)')
  BY <1>1, <1>2
<1>4. \A j \in Buf : buf'[j].lock # NULL => Holds(buf[j].lock)' /\ th'[buf'[j].lock].i = j
  BY DEF Locks, CacheType
<1> QED
  BY <1>3, <1>4, Zenon DEF Locks, Knows

(* A buffer has one owner. *)
LEMMA OneHolder ==
  ASSUME Locks, NEW p \in Proc, NEW q \in Proc, Holds(p), Holds(q), th[p].i = th[q].i
  PROVE  p = q
BY DEF Locks

(* A ring index has room for NUM. *)
LEMMA IdxPositive ==
  ASSUME NUM \in Nat \ 0..2
  PROVE  IDX \in Nat /\ IDX >= NUM
<1>1. Wraps \in Nat /\ Wraps >= 1
  BY DiskAssumption
<1> QED
  BY <1>1 DEF IDX

(* The invariant holds at first. *)
LEMMA InitInv ==
  ASSUME FiniteFacts, Init
  PROVE  DiskInv
<1>1. PICK n \in Nums : desc = [d \in 0..(n - 1) |-> NULL]
  BY Zenon DEF Init, virtio_disk_init
<1>2. n \in Nat \ 0..2
  BY DiskAssumption, Zenon
<1>3. Desc = 0..(n - 1) /\ NUM = n
  BY <1>1, <1>2 DEF Desc, NUM, FiniteFacts, IntervalFact
<1>4. IDX \in Nat /\ IDX >= NUM
  BY <1>2, <1>3, IdxPositive, Zenon
<1>5. /\ free = Desc /\ req = [d \in Desc |-> NoReq] /\ inflight = {}
      /\ avail = [ring |-> [k \in Desc |-> NULL], idx |-> 0, seen |-> 0]
      /\ used = [ring |-> [k \in Desc |-> NULL], idx |-> 0, seen |-> 0]
  BY Zenon DEF Init, virtio_disk_init
<1>6. \A p \in Proc : th[p] = Idle /\ th[p].pc = "idle" /\ th[p].i = NULL /\ th[p].d = NULL /\ ~th[p].write
  BY Zenon DEF Init, Idle
<1>7. CacheType
  BY DiskAssumption DEF Init, binit, CacheType, Buf
<1>8. ThreadType
  BY Zenon DEF Init, Idle, ThreadType
<1>9. \A i \in Buf : buf[i].refcnt = 0 /\ buf[i].b = NULL /\ ~buf[i].valid /\ buf[i].lock = NULL
  BY Zenon DEF Init, binit
<1>10. Threads
  BY <1>6, Zenon DEF Threads, Busy
<1>11. Locks
  BY <1>6, <1>9, Zenon DEF Locks, Holds, Locked
<1>12. Counts
  <2>1. \A i \in Buf : Users(i) = {}
    BY <1>6, DiskAssumption DEF Users, Buf
  <2>2. pinned = {}
    BY Zenon DEF Init
  <2>3. \A i \in Buf : Cardinality(Users(i)) = 0
    BY <2>1, Zenon DEF FiniteFacts, EmptyFact
  <2>4. \A i \in Buf : buf[i].refcnt = Cardinality(Users(i)) + (IF buf[i].b \in pinned THEN 1 ELSE 0)
    BY <1>9, <2>2, <2>3
  <2> QED
    BY <1>9, <2>2, <2>4, Zenon DEF Counts
<1>13. Clean
  <2>1. \A p \in Proc : th[p].pc # "written"
    BY <1>6, Zenon
  <2> QED
    BY <1>9, <2>1, Zenon DEF Clean
<1>14. DriverInv
  <2>1. DriverType
    <3>1. /\ avail \in [ring : [Desc -> Desc \cup {NULL}], idx : 0..(IDX - 1), seen : 0..(IDX - 1)]
          /\ used \in [ring : [Desc -> Desc \cup {NULL}], idx : 0..(IDX - 1), seen : 0..(IDX - 1)]
      BY <1>2, <1>3, <1>4, <1>5
    <3>2. /\ desc \in [Desc -> Desc \cup {NULL}] /\ Desc = 0..(NUM - 1) /\ NUM \in Nat \ 0..2
      BY <1>1, <1>2, <1>3, Zenon
    <3>3. req \in [Desc -> [write : BOOLEAN, sector : Block \cup {NULL}, i : Buf \cup {NULL},
                            status : {"none", "ok"}]]
      BY <1>5, Zenon DEF NoReq
    <3>4. blk \in [Block -> Val \cup {NULL}] /\ isr \in BOOLEAN /\ handler \in BOOLEAN
      BY Zenon DEF Init
    <3> QED
      BY <1>5, <3>1, <3>2, <3>3, <3>4, Zenon DEF DriverType
  <2>2. Chains /\ Requests
    <3>1. Requesters = {} /\ \A p \in Proc : ~Busy(p)
      BY <1>6, Zenon DEF Requesters, Busy
    <3>2. Cardinality(free) + 3 * Cardinality(Requesters) = NUM
      BY <1>2, <1>3, <1>5, <3>1 DEF NUM, FiniteFacts, EmptyFact
    <3> QED
      BY <3>1, <3>2, Zenon DEF Chains, Requests
  <2>3. Places
    BY <1>5, Zenon DEF Places
  <2>4. Slot(0) = 0
    BY <1>2, <1>3 DEF Slot
  <2>5. Filled(avail, 0) /\ Filled(used, 0)
    BY <1>2, <1>3, <1>4, <1>5, <2>4 DEF Filled, Wrap
  <2>6. Rings
    BY <1>2, <1>3, <2>5 DEF Rings
  <2> QED
    BY <2>1, <2>2, <2>3, <2>6, Zenon DEF DriverInv
<1>15. NoLostWakeup
  BY <1>6, Zenon DEF NoLostWakeup
<1> QED
  BY <1>7, <1>8, <1>10, <1>11, <1>12, <1>13, <1>14, <1>15, Zenon DEF DiskInv

-----------------------------------------------------------------------------
(* The cache.                                                              *)

(* bget: a buffer that has the block, or one that nobody uses. *)
LEMMA BgetInv ==
  ASSUME FiniteFacts, DiskInv, NEW p \in Proc, NEW b \in Block, bget(p, b)
  PROVE  DiskInv'
<1>0. CacheType /\ ThreadType /\ Threads /\ Locks /\ Counts /\ Clean /\ DriverInv /\ NoLostWakeup
  BY Zenon DEF DiskInv
<1>1. PICK i \in Buf :
        /\ \/ /\ i \in Cached(b)
              /\ buf' = [buf EXCEPT ![i].refcnt = @ + 1]
           \/ /\ Cached(b) = {} /\ i \in Victims
              /\ buf' = [buf EXCEPT ![i].b = b, ![i].valid = FALSE, ![i].refcnt = 1]
        /\ th' = [th EXCEPT ![p] = [Idle EXCEPT !.pc = "acquiresleep", !.b = b, !.i = i]]
  BY Zenon DEF bget
<1>2. /\ UNCHANGED <<dvars, devvars, handler>> /\ lru' = lru /\ pinned' = pinned
      /\ th[p].pc = "idle" /\ th[p].i = NULL /\ ~th[p].write
  BY <1>0 DEF bget, Threads, Idle
<1>3. /\ th'[p] = [pc |-> "acquiresleep", b |-> b, i |-> i, d |-> NULL, write |-> FALSE]
      /\ \A q \in Proc : q # p => th'[q] = th[q]
  BY <1>0, <1>1, Zenon DEF ThreadType, Idle
<1>4. /\ \A j \in Buf : j # i => buf'[j] = buf[j]
      /\ buf'[i].lock = buf[i].lock /\ buf'[i].disk = buf[i].disk /\ buf'[i].data = buf[i].data
      /\ buf'[i].b = b
  BY <1>0, <1>1 DEF CacheType, Cached
<1>5. \/ buf'[i].refcnt = buf[i].refcnt + 1 /\ buf[i].b = b /\ buf'[i].valid = buf[i].valid
      \/ /\ Users(i) = {} /\ buf[i].b \notin pinned /\ buf[i].lock = NULL
         /\ \A j \in Buf : buf[j].b # b
         /\ buf[i].refcnt = 0 /\ buf'[i].refcnt = 1 /\ buf'[i].valid = FALSE
  <2>1. CASE i \in Cached(b) /\ buf' = [buf EXCEPT ![i].refcnt = @ + 1]
    BY <1>0, <2>1, Zenon DEF CacheType, Cached
  <2>2. CASE /\ Cached(b) = {} /\ i \in Victims
             /\ buf' = [buf EXCEPT ![i].b = b, ![i].valid = FALSE, ![i].refcnt = 1]
    <3>1. buf[i].refcnt = 0
      BY <2>2, Zenon DEF Victims, Unused
    <3>2. Users(i) = {} /\ buf[i].b \notin pinned
      BY <1>0, <3>1, UnusedFree, Zenon
    <3>3. buf[i].lock = NULL
      BY <1>0, <3>2, FreeLock, Zenon
    <3>4. buf'[i].refcnt = 1 /\ buf'[i].valid = FALSE
      BY <1>0, <2>2, Zenon DEF CacheType
    <3> QED
      BY <2>2, <3>1, <3>2, <3>3, <3>4, Zenon DEF Cached
  <2> QED
    BY <1>1, <2>1, <2>2, Zenon
<1>6. CacheType'
  <2>1. buf' \in [Buf -> [b : Block \cup {NULL}, valid : BOOLEAN, disk : BOOLEAN,
                          lock : Proc \cup {NULL}, refcnt : Nat, data : Val \cup {NULL}]]
    <3>1. CASE buf' = [buf EXCEPT ![i].refcnt = @ + 1]
      BY <1>0, <3>1 DEF CacheType
    <3>2. CASE buf' = [buf EXCEPT ![i].b = b, ![i].valid = FALSE, ![i].refcnt = 1]
      <4>1. [buf[i] EXCEPT !.b = b, !.valid = FALSE, !.refcnt = 1]
              \in [b : Block \cup {NULL}, valid : BOOLEAN, disk : BOOLEAN,
                   lock : Proc \cup {NULL}, refcnt : Nat, data : Val \cup {NULL}]
        <5>1. buf[i] \in [b : Block \cup {NULL}, valid : BOOLEAN, disk : BOOLEAN,
                          lock : Proc \cup {NULL}, refcnt : Nat, data : Val \cup {NULL}]
          BY <1>0, Zenon DEF CacheType
        <5>2. ASSUME NEW r \in [b : Block \cup {NULL}, valid : BOOLEAN, disk : BOOLEAN,
                               lock : Proc \cup {NULL}, refcnt : Nat, data : Val \cup {NULL}]
              PROVE  [r EXCEPT !.b = b, !.valid = FALSE, !.refcnt = 1]
                       \in [b : Block \cup {NULL}, valid : BOOLEAN, disk : BOOLEAN,
                            lock : Proc \cup {NULL}, refcnt : Nat, data : Val \cup {NULL}]
          BY Zenon
        <5> QED
          BY <5>1, <5>2, Zenon
      <4>2. buf' = [buf EXCEPT ![i] = [buf[i] EXCEPT !.b = b, !.valid = FALSE, !.refcnt = 1]]
        BY <1>0, <3>2, Zenon DEF CacheType
      <4> QED
        BY <1>0, <4>1, <4>2, Zenon DEF CacheType
    <3> QED
      BY <1>1, <3>1, <3>2, Zenon
  <2> QED
    BY <1>0, <1>2, <2>1, Zenon DEF CacheType
<1>7. Desc' = Desc
  BY <1>2, SameNum, Zenon DEF dvars
<1>8. ThreadType'
  BY <1>0, <1>1, <1>7, Zenon DEF ThreadType, Idle
<1>9. \A q \in Proc : q # p /\ th[q].i = i => buf[i].b = b
  BY <1>5, Zenon DEF Users
<1>10. Threads'
  BY <1>0, <1>3, <1>4, <1>9, SMTT(40) DEF Threads, Busy
<1>11. Locks'
  <2>1. ~Holds(p) /\ ~Holds(p)' /\ \A q \in Proc : q # p => th'[q] = th[q] /\ (Holds(q)' <=> Holds(q))
    BY <1>2, <1>3 DEF Holds, Locked
  <2>2. \A q \in Proc : Holds(q) => th[q].i \in Buf /\ (th[q].i = i => q \in Users(i))
    BY <1>0, Zenon DEF Threads, Holds, Locked, Users
  <2>3. \A j \in Buf : buf'[j].lock = buf[j].lock
    BY <1>4, Zenon
  <2>4. \A q \in Proc : Holds(q) => buf'[th[q].i].valid = buf[th[q].i].valid
    BY <1>4, <1>5, <2>2, Zenon
  <2>5. \A j \in Buf : buf[j].lock \in Proc \cup {NULL}
    BY <1>0, Zenon DEF CacheType
  <2> QED
    BY <1>0, <2>1, <2>2, <2>3, <2>4, <2>5, SMTT(40) DEF Locks
<1>12. Counts'
  <2>1. i # NULL
    BY DiskAssumption DEF Buf
  <2>2. Users(i)' = Users(i) \cup {p} /\ p \notin Users(i)
    BY <1>2, <1>3, <2>1 DEF Users
  <2>3. \A j \in Buf : j # i => Users(j)' = Users(j)
    BY <1>2, <1>3, DiskAssumption DEF Users, Buf
  <2>4. Cardinality(Users(i)') = Cardinality(Users(i)) + 1 /\ Cardinality(Users(i)) \in Nat
    BY <2>2, UsersFinite, Zenon DEF FiniteFacts, AddFact
  <2>5. \A j, k \in Buf : buf'[j].b # NULL /\ buf'[j].b = buf'[k].b => j = k
    BY <1>0, <1>4, <1>5 DEF Counts
  <2>6. \A c \in pinned' : \E j \in Buf : buf'[j].b = c
    BY <1>0, <1>2, <1>4, <1>5 DEF Counts
  <2>7. buf'[i].refcnt = Cardinality(Users(i)') + (IF buf'[i].b \in pinned' THEN 1 ELSE 0)
    <3>1. CASE buf'[i].refcnt = buf[i].refcnt + 1 /\ buf[i].b = b
      BY <1>0, <1>2, <1>4, <2>4, <3>1, SMTT(40) DEF Counts
    <3>2. CASE Users(i) = {} /\ (\A j \in Buf : buf[j].b # b) /\ buf'[i].refcnt = 1
      <4>1. b \notin pinned
        BY <1>0, <3>2, Zenon DEF Counts
      <4> QED
        BY <1>2, <1>4, <2>4, <3>2, <4>1, SMTT(40) DEF FiniteFacts, EmptyFact
    <3> QED
      BY <1>5, <3>1, <3>2, Zenon
  <2> QED
    BY <1>0, <1>2, <1>4, <2>3, <2>5, <2>6, <2>7 DEF Counts
<1>13. Clean'
  <2>1. \A j \in Buf : \A q \in Users(j) : q \in Users(j)' /\ Dirty(q)' = Dirty(q)
    BY <1>2, <1>3, DiskAssumption DEF Users, Dirty, Buf
  <2>2. blk' = blk
    BY <1>2, Zenon DEF devvars
  <2>3. \A j \in Buf : buf'[j].valid => buf[j].valid /\ buf'[j].b = buf[j].b /\ buf'[j].data = buf[j].data
    BY <1>4, <1>5, Zenon
  <2>4. \A q \in Proc : th'[q].pc = "written" => q # p /\ th'[q] = th[q] /\ th[q].i \in Buf
    BY <1>0, <1>3 DEF Threads
  <2>5. \A j \in Buf : buf'[j].data = buf[j].data
    BY <1>4, Zenon
  <2>6. \A q \in Proc : th'[q].pc = "written" => buf'[th'[q].i].data = blk'[th'[q].b]
    BY <1>0, <2>2, <2>4, <2>5 DEF Clean
  <2> QED
    BY <1>0, <1>2, <2>1, <2>2, <2>3, <2>6, SMTT(40) DEF Clean
<1>14. DriverInv'
  <2>1. SameRequests
    BY <1>0, <1>2, <1>3, <1>4, SMTT(40) DEF SameRequests, Busy, Threads
  <2> QED
    BY <1>0, <1>2, <2>1, DriverFrame, Zenon
<1>15. NoLostWakeup'
  BY <1>0, <1>2, <1>3, <1>4, SMTT(40) DEF NoLostWakeup, Threads, dvars
<1> QED
  BY <1>6, <1>8, <1>10, <1>11, <1>12, <1>13, <1>14, <1>15, Zenon DEF DiskInv

(* Steps that change no data and forget nobody's changes keep the buffers  *)
(* in step with the disk.                                                  *)
LEMMA CleanFrame ==
  ASSUME Clean, Threads, pinned' = pinned, blk' = blk,
         \A q \in Proc : /\ th'[q].i = th[q].i /\ th'[q].b = th[q].b
                         /\ Dirty(q) => Dirty(q)'
                         /\ th'[q].pc = "written" => th[q].pc = "written",
         \A j \in Buf : /\ buf'[j].b = buf[j].b /\ buf'[j].valid = buf[j].valid
                        /\ buf'[j].data = buf[j].data
  PROVE  Clean'
<1>1. \A j \in Buf : Users(j)' = Users(j)
  BY Zenon DEF Users
<1>2. \A j \in Buf : (\A q \in Users(j)' : ~Dirty(q)') => \A q \in Users(j) : ~Dirty(q)
  BY <1>1, Zenon DEF Users
<1>3. \A q \in Proc : th'[q].pc = "written" => buf'[th'[q].i].data = blk'[th'[q].b]
  BY DEF Clean, Threads
<1> QED
  BY <1>2, <1>3, Zenon DEF Clean

(* acquiresleep takes the lock or sleeps. *)
LEMMA AcquireInv ==
  ASSUME DiskInv, NEW p \in Proc, acquiresleep(p)
  PROVE  DiskInv'
<1> DEFINE i == th[p].i
<1>0. CacheType /\ ThreadType /\ Threads /\ Locks /\ Counts /\ Clean /\ DriverInv /\ NoLostWakeup
  BY Zenon DEF DiskInv
<1>1. /\ th[p].pc = "acquiresleep" /\ i \in Buf /\ ~th[p].write /\ th[p].d = NULL
      /\ UNCHANGED <<dvars, devvars, handler>> /\ lru' = lru /\ pinned' = pinned
  BY <1>0, Zenon DEF acquiresleep, Threads, Busy
<1>2. PICK c \in {"sleep_lock", "rw", "held"} :
        /\ th' = [th EXCEPT ![p].pc = c]
        /\ \/ c = "sleep_lock" /\ buf[i].lock # NULL /\ buf' = buf
           \/ /\ c # "sleep_lock" /\ buf[i].lock = NULL /\ buf' = [buf EXCEPT ![i].lock = p]
              /\ c = "held" <=> buf[i].valid
  BY Zenon DEF acquiresleep, Goto, MustRead
<1>3. /\ th'[p].pc = c /\ th'[p].b = th[p].b /\ th'[p].i = i /\ th'[p].d = NULL /\ ~th'[p].write
      /\ \A q \in Proc : q # p => th'[q] = th[q]
  BY <1>0, <1>1, <1>2, Zenon DEF ThreadType
<1>4. /\ \A j \in Buf : /\ buf'[j].b = buf[j].b /\ buf'[j].valid = buf[j].valid
                        /\ buf'[j].disk = buf[j].disk /\ buf'[j].refcnt = buf[j].refcnt
                        /\ buf'[j].data = buf[j].data
                        /\ j # i => buf'[j].lock = buf[j].lock
      /\ \/ c = "sleep_lock" /\ buf[i].lock # NULL /\ buf'[i].lock = buf[i].lock
         \/ /\ c # "sleep_lock" /\ buf[i].lock = NULL /\ buf'[i].lock = p
            /\ c = "held" <=> buf[i].valid
  BY <1>0, <1>1, <1>2 DEF CacheType
<1>5. CacheType'
  BY <1>0, <1>1, <1>2, SMTT(40) DEF CacheType
<1>6. Desc' = Desc
  BY <1>1, SameNum, Zenon DEF dvars
<1>7. ThreadType'
  BY <1>0, <1>2, <1>6 DEF ThreadType, Locked
<1> HIDE DEF i
<1>8. Threads'
  BY <1>0, <1>1, <1>3, <1>4, SMTT(40) DEF Threads, Busy, i
<1>9. Locks'
  <2>1. ~Holds(p) /\ (Holds(p)' <=> c # "sleep_lock") /\ (Knows(p)' <=> c = "held")
    BY <1>1, <1>2, <1>3, Zenon DEF Holds, Locked, Knows
  <2>2. \A q \in Proc : q # p => th'[q] = th[q] /\ (Holds(q)' <=> Holds(q)) /\ (Knows(q)' <=> Knows(q))
    BY <1>3, Zenon DEF Holds, Knows
  <2>3. \A q \in Proc : Holds(q) => /\ th[q].i \in Buf /\ buf[th[q].i].lock = q
                                    /\ buf[th[q].i].valid <=> Knows(q)
    BY <1>0, Zenon DEF Threads, Locks, Holds, Locked, Knows
  <2>4. \A q \in Proc : Holds(q)' => buf'[th'[q].i].lock = q /\ (buf'[th'[q].i].valid <=> Knows(q)')
    <3>1. CASE c = "sleep_lock"
      BY <1>4, <2>1, <2>2, <2>3, <3>1, SMTT(40)
    <3>2. CASE c # "sleep_lock"
      <4>1. \A q \in Proc : Holds(q) => th[q].i # i
        BY <1>4, <2>3, <3>2, DiskAssumption, SMTT(40)
      <4>2. \A q \in Proc : q # p /\ Holds(q)' =>
              buf'[th'[q].i].lock = q /\ (buf'[th'[q].i].valid <=> Knows(q)')
        BY <1>4, <2>2, <2>3, <4>1, SMTT(40)
      <4>3. buf'[th'[p].i].lock = p /\ (buf'[th'[p].i].valid <=> Knows(p)')
        BY <1>1, <1>3, <1>4, <2>1, <3>2, Zenon
      <4> QED
        BY <4>2, <4>3, Zenon
    <3> QED
      BY <3>1, <3>2, Zenon
  <2>5. \A j \in Buf : buf'[j].lock # NULL => Holds(buf[j].lock)' /\ th'[buf'[j].lock].i = j
    BY <1>0, <1>1, <1>3, <1>4, <2>1, <2>2, SMTT(40) DEF Locks, CacheType
  <2> QED
    BY <2>4, <2>5, Zenon DEF Locks, Knows
<1>10. Counts'
  BY <1>0, <1>1, <1>3, <1>4, CountsFrame, Zenon DEF i
<1>11. Clean'
  <2>1. \A q \in Proc : /\ th'[q].i = th[q].i /\ th'[q].b = th[q].b
                        /\ Dirty(q) => Dirty(q)'
                        /\ th'[q].pc = "written" => th[q].pc = "written"
    BY <1>1, <1>3, Zenon DEF Dirty, i
  <2>2. blk' = blk
    BY <1>1, Zenon DEF devvars
  <2> QED
    BY <1>0, <1>1, <1>4, <2>1, <2>2, CleanFrame, Zenon
<1>12. DriverInv'
  <2>1. SameRequests
    BY <1>0, <1>1, <1>3, <1>4, ZenonT(30) DEF SameRequests, Busy, Threads
  <2> QED
    BY <1>0, <1>1, <2>1, DriverFrame, Zenon
<1>13. NoLostWakeup'
  <2>1. free' = free
    BY <1>1, Zenon DEF dvars
  <2>2. c = "sleep_lock" => buf'[i].lock # NULL
    BY <1>4, Zenon
  <2>3. ASSUME NEW q \in Proc, q # p, th'[q].pc \in {"sleep_lock", "sleep_buf"}
        PROVE  /\ th'[q] = th[q] /\ buf'[th[q].i].disk = buf[th[q].i].disk
               /\ buf[th[q].i].lock # NULL => buf'[th[q].i].lock # NULL
    <3>1. th'[q] = th[q] /\ th[q].i \in Buf
      BY <1>0, <1>3, <2>3, Zenon DEF Threads, Busy
    <3> QED
      BY <1>4, <3>1, DiskAssumption, Zenon
  <2>4. ASSUME NEW q \in Proc, q # p
        PROVE  /\ th'[q].pc = "sleep_lock" => buf'[th'[q].i].lock # NULL
               /\ th'[q].pc = "sleep_free" => Cardinality(free) < 3
               /\ th'[q].pc = "sleep_buf" => buf'[th'[q].i].disk
    BY <1>0, <1>3, <2>3, <2>4, Zenon DEF NoLostWakeup
  <2>5. /\ th'[p].pc = "sleep_lock" => buf'[th'[p].i].lock # NULL
        /\ th'[p].pc \notin {"sleep_free", "sleep_buf"}
    BY <1>2, <1>3, <2>2, Zenon
  <2> QED
    BY <2>1, <2>4, <2>5, Zenon DEF NoLostWakeup
<1> QED
  BY <1>5, <1>7, <1>8, <1>9, <1>10, <1>11, <1>12, <1>13, Zenon DEF DiskInv

(* The owner changes the data. *)
LEMMA StoreInv ==
  ASSUME DiskInv, NEW p \in Proc, NEW v \in Val, Store(p, v)
  PROVE  DiskInv'
<1> DEFINE i == th[p].i
<1>0. CacheType /\ ThreadType /\ Threads /\ Locks /\ Counts /\ Clean /\ DriverInv /\ NoLostWakeup
  BY Zenon DEF DiskInv
<1>1. /\ th[p].pc = "held" /\ i \in Buf /\ ~th[p].write /\ th[p].d = NULL
      /\ th' = [th EXCEPT ![p].pc = "dirty"] /\ buf' = [buf EXCEPT ![i].data = v]
      /\ UNCHANGED <<dvars, devvars, handler>> /\ lru' = lru /\ pinned' = pinned
  BY <1>0, Zenon DEF Store, Threads, Busy, Goto
<1>2. /\ th'[p].pc = "dirty" /\ th'[p].b = th[p].b /\ th'[p].i = i /\ th'[p].d = NULL /\ ~th'[p].write
      /\ \A q \in Proc : q # p => th'[q] = th[q]
  BY <1>0, <1>1, Zenon DEF ThreadType
<1>3. \A j \in Buf : /\ buf'[j].b = buf[j].b /\ buf'[j].valid = buf[j].valid
                     /\ buf'[j].disk = buf[j].disk /\ buf'[j].refcnt = buf[j].refcnt
                     /\ buf'[j].lock = buf[j].lock
                     /\ j # i => buf'[j].data = buf[j].data
  BY <1>0, <1>1 DEF CacheType
<1>4. CacheType'
  BY <1>0, <1>1 DEF CacheType
<1>5. Desc' = Desc
  BY <1>1, SameNum, Zenon DEF dvars
<1>6. ThreadType'
  BY <1>0, <1>1, <1>5, SMTT(40) DEF ThreadType, Locked
<1> HIDE DEF i
<1>7. Threads'
  BY <1>0, <1>1, <1>2, <1>3 DEF Threads, Busy, i
<1>8. Locks'
  <2>1. \A q \in Proc : /\ th'[q].i = th[q].i /\ (Holds(q)' <=> Holds(q))
                        /\ Holds(q) => (Knows(q)' <=> Knows(q))
    BY <1>1, <1>2, Zenon DEF Holds, Locked, Knows, i
  <2> QED
    BY <1>0, <1>3, <2>1, LocksFrame, Zenon
<1>9. Counts'
  BY <1>0, <1>1, <1>2, <1>3, CountsFrame, Zenon DEF i
<1>10. \A q \in Proc : q # p /\ Holds(q) => th[q].i # i
  BY <1>0, <1>1, OneHolder, Zenon DEF Holds, Locked, i
<1>11. Clean'
  <2>1. blk' = blk
    BY <1>1, Zenon DEF devvars
  <2>2. \A q \in Proc : th'[q].pc = "written" => buf'[th'[q].i].data = blk'[th'[q].b]
    BY <1>0, <1>2, <1>3, <1>10, <2>1 DEF Clean, Threads, Holds, Locked
  <2>3. \A j \in Buf : Users(j)' = Users(j)
    BY <1>2, Zenon DEF Users, i
  <2>4. Dirty(p)' /\ \A j \in Buf : j = i => p \in Users(j)
    BY <1>2, Zenon DEF Users, Dirty, i
  <2>5. \A j \in Buf : j # i => \A q \in Users(j) : Dirty(q)' = Dirty(q)
    BY <1>2, Zenon DEF Users, Dirty, i
  <2> QED
    BY <1>0, <1>1, <1>3, <2>1, <2>2, <2>3, <2>4, <2>5 DEF Clean
<1>12. DriverInv'
  <2>1. SameRequests
    BY <1>0, <1>1, <1>2, <1>3, <1>10, SMTT(40) DEF SameRequests, Busy, Threads, Holds, Locked
  <2> QED
    BY <1>0, <1>1, <2>1, DriverFrame, Zenon
<1>13. NoLostWakeup'
  BY <1>0, <1>1, <1>2, <1>3 DEF NoLostWakeup, Threads, dvars
<1> QED
  BY <1>4, <1>6, <1>7, <1>8, <1>9, <1>11, <1>12, <1>13, Zenon DEF DiskInv

(* bpin and bunpin: the count of a buffer follows the pin of its block. *)
LEMMA PinInv ==
  ASSUME FiniteFacts, DiskInv, NEW p \in Proc, bpin(p) \/ bunpin(p)
  PROVE  DiskInv'
<1> DEFINE i == th[p].i
           b == th[p].b
<1>0. CacheType /\ ThreadType /\ Threads /\ Locks /\ Counts /\ Clean /\ DriverInv /\ NoLostWakeup
  BY Zenon DEF DiskInv
<1>1. /\ th[p].pc \in {"dirty", "written"} /\ i \in Buf /\ b \in Block /\ buf[i].b = b
      /\ ~th[p].write /\ th[p].d = NULL
      /\ th' = [th EXCEPT ![p].pc = "held"]
      /\ UNCHANGED <<dvars, devvars, handler>> /\ lru' = lru
  BY <1>0, Zenon DEF bpin, bunpin, Threads, Busy, Goto
<1>2. \/ /\ buf' = buf /\ pinned' = pinned
         /\ th[p].pc = "dirty" => b \in pinned
      \/ /\ th[p].pc = "dirty" /\ b \notin pinned /\ pinned' = pinned \cup {b}
         /\ buf' = [buf EXCEPT ![i].refcnt = @ + 1]
      \/ /\ th[p].pc = "written" /\ b \in pinned /\ pinned' = pinned \ {b}
         /\ buf' = [buf EXCEPT ![i].refcnt = @ - 1]
  BY Zenon DEF bpin, bunpin
<1>3. /\ th'[p].pc = "held" /\ th'[p].b = b /\ th'[p].i = i /\ th'[p].d = NULL /\ ~th'[p].write
      /\ \A q \in Proc : q # p => th'[q] = th[q]
  BY <1>0, <1>1, Zenon DEF ThreadType
<1>4. \A j \in Buf : /\ buf'[j].b = buf[j].b /\ buf'[j].valid = buf[j].valid
                     /\ buf'[j].disk = buf[j].disk /\ buf'[j].data = buf[j].data
                     /\ buf'[j].lock = buf[j].lock
                     /\ j # i => buf'[j].refcnt = buf[j].refcnt
  BY <1>0, <1>1, <1>2, SMTT(40) DEF CacheType
<1>5. \/ buf'[i].refcnt = buf[i].refcnt /\ (b \in pinned' <=> b \in pinned)
      \/ buf'[i].refcnt = buf[i].refcnt + 1 /\ b \in pinned' /\ b \notin pinned
      \/ buf'[i].refcnt = buf[i].refcnt - 1 /\ b \notin pinned' /\ b \in pinned
  BY <1>0, <1>1, <1>2 DEF CacheType
<1>6. \A c \in Block : c # b => (c \in pinned' <=> c \in pinned)
  BY <1>2, Zenon
<1>7. CacheType'
  <2>1. b \in pinned => buf[i].refcnt - 1 \in Nat
    BY <1>0, <1>1, UsersFinite DEF Counts
  <2>2. \/ buf' = buf
        \/ buf' = [buf EXCEPT ![i].refcnt = @ + 1]
        \/ b \in pinned /\ buf' = [buf EXCEPT ![i].refcnt = @ - 1]
    BY <1>2, Zenon
  <2>3. buf' \in [Buf -> [b : Block \cup {NULL}, valid : BOOLEAN, disk : BOOLEAN,
                          lock : Proc \cup {NULL}, refcnt : Nat, data : Val \cup {NULL}]]
    <3> DEFINE R == [b : Block \cup {NULL}, valid : BOOLEAN, disk : BOOLEAN,
                     lock : Proc \cup {NULL}, refcnt : Nat, data : Val \cup {NULL}]
    <3> SUFFICES buf' \in [Buf -> R]
      OBVIOUS
    <3>1. ASSUME NEW r \in R, NEW k \in Nat PROVE [r EXCEPT !.refcnt = k] \in R
      OBVIOUS
    <3>2. buf \in [Buf -> R]
      BY <1>0, Zenon DEF CacheType
    <3>3. buf[i] \in R /\ buf[i].refcnt \in Nat
      BY <1>1, <3>2, Zenon
    <3> HIDE DEF R
    <3>4. CASE buf' = buf
      BY <3>2, <3>4, Zenon
    <3>5. CASE buf' = [buf EXCEPT ![i].refcnt = @ + 1]
      <4>1. PICK k \in Nat : k = buf[i].refcnt + 1
        BY <3>3
      <4>2. buf' = [buf EXCEPT ![i] = [buf[i] EXCEPT !.refcnt = k]]
        BY <3>5, <4>1, Zenon
      <4> QED
        BY <1>1, <3>1, <3>2, <3>3, <4>2, Zenon
    <3>6. CASE b \in pinned /\ buf' = [buf EXCEPT ![i].refcnt = @ - 1]
      <4>1. PICK k \in Nat : k = buf[i].refcnt - 1
        BY <2>1, <3>6, Zenon
      <4>2. buf' = [buf EXCEPT ![i] = [buf[i] EXCEPT !.refcnt = k]]
        BY <3>6, <4>1, Zenon
      <4> QED
        BY <1>1, <3>1, <3>2, <3>3, <4>2, Zenon
    <3> QED
      BY <2>2, <3>4, <3>5, <3>6, Zenon
  <2>4. pinned' \subseteq Block
    BY <1>0, <1>1, <1>2, Zenon DEF CacheType
  <2> QED
    BY <1>0, <1>1, <2>3, <2>4, Zenon DEF CacheType
<1>8. Desc' = Desc
  BY <1>1, SameNum, Zenon DEF dvars
<1>9. ThreadType'
  BY <1>0, <1>1, <1>8 DEF ThreadType, Locked
<1>10. blk' = blk
  BY <1>1, Zenon DEF devvars
<1>11. th[p].pc = "dirty" => b \in pinned'
  BY <1>2, Zenon
<1> HIDE DEF i, b
<1>12. Threads'
  BY <1>0, <1>1, <1>3, <1>4 DEF Threads, Busy, i, b
<1>13. Locks'
  <2>1. \A q \in Proc : /\ th'[q].i = th[q].i /\ (Holds(q)' <=> Holds(q))
                        /\ Holds(q) => (Knows(q)' <=> Knows(q))
    BY <1>1, <1>3, Zenon DEF Holds, Locked, Knows, i
  <2> QED
    BY <1>0, <1>4, <2>1, LocksFrame, Zenon
<1>14. \A j \in Buf : Users(j)' = Users(j)
  BY <1>3, Zenon DEF Users, i
<1>15. \A j \in Buf : j # i => (buf'[j].b \in pinned' <=> buf[j].b \in pinned)
  <2>1. \A j \in Buf : j # i => buf[j].b # b
    BY <1>0, <1>1, DiskAssumption, Zenon DEF Counts
  <2>2. pinned \subseteq Block /\ pinned' \subseteq Block
    BY <1>0, <1>7, Zenon DEF CacheType
  <2> QED
    BY <1>4, <1>6, <2>1, <2>2, Zenon
<1>16. Counts'
  <2>1. \A j \in Buf : buf'[j].refcnt = Cardinality(Users(j)') + (IF buf'[j].b \in pinned' THEN 1 ELSE 0)
    <3>1. buf[i].refcnt = Cardinality(Users(i)) + (IF b \in pinned THEN 1 ELSE 0)
      BY <1>0, <1>1, Zenon DEF Counts
    <3>2. Cardinality(Users(i)) \in Nat
      BY UsersFinite, Zenon
    <3>3. buf'[i].refcnt = Cardinality(Users(i)) + (IF b \in pinned' THEN 1 ELSE 0)
      BY <1>5, <3>1, <3>2
    <3> QED
      BY <1>0, <1>1, <1>4, <1>14, <1>15, <3>3 DEF Counts
  <2>2. \A c \in pinned' : \E j \in Buf : buf'[j].b = c
    <3>1. pinned' \subseteq Block
      BY <1>7, Zenon DEF CacheType
    <3> QED
      BY <1>0, <1>1, <1>4, <1>6, <3>1 DEF Counts
  <2> QED
    BY <1>0, <1>4, <2>1, <2>2 DEF Counts
<1>17. Clean'
  <2>1. \A j \in Buf : j # i => \A q \in Users(j) : Dirty(q)' = Dirty(q)
    BY <1>3, Zenon DEF Users, Dirty, i
  <2>2. b \notin pinned' => buf[i].data = blk[b]
    BY <1>0, <1>1, <1>11, Zenon DEF Clean, i, b
  <2>3. \A q \in Proc : th'[q].pc = "written" => buf'[th'[q].i].data = blk'[th'[q].b]
    BY <1>0, <1>3, <1>4, <1>10 DEF Clean, Threads
  <2> QED
    BY <1>0, <1>1, <1>4, <1>10, <1>14, <1>15, <2>1, <2>2, <2>3, SMTT(40) DEF Clean
<1>18. DriverInv'
  <2>1. SameRequests
    BY <1>0, <1>1, <1>3, <1>4, Zenon DEF SameRequests, Busy, Threads
  <2> QED
    BY <1>0, <1>1, <2>1, DriverFrame, Zenon
<1>19. NoLostWakeup'
  BY <1>0, <1>1, <1>3, <1>4, SMTT(40) DEF NoLostWakeup, Threads, dvars
<1> QED
  BY <1>7, <1>9, <1>12, <1>13, <1>16, <1>17, <1>18, <1>19, Zenon DEF DiskInv

(* bwrite hands the buffer to the driver. *)
LEMMA BwriteInv ==
  ASSUME DiskInv, NEW p \in Proc, bwrite(p)
  PROVE  DiskInv'
<1>0. CacheType /\ ThreadType /\ Threads /\ Locks /\ Counts /\ Clean /\ DriverInv /\ NoLostWakeup
  BY Zenon DEF DiskInv
<1>1. /\ th[p].pc \in {"dirty", "held"} /\ th[p].i \in Buf /\ th[p].d = NULL
      /\ th' = [th EXCEPT ![p].pc = "rw", ![p].write = TRUE]
      /\ UNCHANGED <<dvars, devvars, handler>> /\ lru' = lru /\ pinned' = pinned /\ buf' = buf
  BY <1>0, Zenon DEF bwrite, Threads, Busy, cvars
<1>2. /\ th'[p].pc = "rw" /\ th'[p].b = th[p].b /\ th'[p].i = th[p].i /\ th'[p].d = NULL /\ th'[p].write
      /\ \A q \in Proc : q # p => th'[q] = th[q]
  BY <1>0, <1>1, Zenon DEF ThreadType
<1>3. CacheType'
  BY <1>0, <1>1, Zenon DEF CacheType
<1>4. Desc' = Desc
  BY <1>1, SameNum, Zenon DEF dvars
<1>5. ThreadType'
  <2>1. [th[p] EXCEPT !.pc = "rw", !.write = TRUE]
          \in [pc : Locked \cup {"idle", "acquiresleep", "sleep_lock", "brelse"},
               b : Block \cup {NULL}, i : Buf \cup {NULL}, d : Desc \cup {NULL}, write : BOOLEAN]
    BY <1>0, Zenon DEF ThreadType, Locked
  <2>2. th' = [th EXCEPT ![p] = [th[p] EXCEPT !.pc = "rw", !.write = TRUE]]
    BY <1>0, <1>1, Zenon DEF ThreadType
  <2> QED
    BY <1>0, <1>4, <2>1, <2>2, Zenon DEF ThreadType
<1>6. Threads'
  <2>1. /\ th'[p].i \in Buf /\ th'[p].b \in Block /\ buf'[th'[p].i].b = th'[p].b
        /\ ~Busy(p)' /\ th'[p].pc = "rw" /\ th'[p].d = NULL
    BY <1>0, <1>1, <1>2, Zenon DEF Threads, Busy
  <2>2. \A q \in Proc : q # p => th'[q] = th[q] /\ (Busy(q)' <=> Busy(q))
    BY <1>2, Zenon DEF Busy
  <2> QED
    BY <1>0, <1>1, <2>1, <2>2, ZenonT(30) DEF Threads
<1>7. Locks'
  <2>1. \A q \in Proc : /\ th'[q].i = th[q].i /\ (Holds(q)' <=> Holds(q))
                        /\ Holds(q) => (Knows(q)' <=> Knows(q))
    BY <1>1, <1>2, Zenon DEF Holds, Locked, Knows
  <2> QED
    BY <1>0, <1>1, <2>1, LocksFrame, Zenon
<1>8. Counts'
  BY <1>0, <1>1, <1>2, CountsFrame, Zenon
<1>9. Clean'
  <2>1. \A q \in Proc : /\ th'[q].i = th[q].i /\ th'[q].b = th[q].b
                        /\ Dirty(q) => Dirty(q)'
                        /\ th'[q].pc = "written" => th[q].pc = "written"
    BY <1>2, Zenon DEF Dirty
  <2>2. blk' = blk
    BY <1>1, Zenon DEF devvars
  <2> QED
    BY <1>0, <1>1, <2>1, <2>2, CleanFrame, Zenon
<1>10. DriverInv'
  <2>1. SameRequests
    BY <1>1, <1>2, Zenon DEF SameRequests, Busy
  <2> QED
    BY <1>0, <1>1, <2>1, DriverFrame, Zenon
<1>11. NoLostWakeup'
  BY <1>0, <1>1, <1>2, ZenonT(30) DEF NoLostWakeup, dvars
<1> QED
  BY <1>3, <1>5, <1>6, <1>7, <1>8, <1>9, <1>10, <1>11, Zenon DEF DiskInv

(* releasesleep frees the lock and wakes who waits for it. *)
LEMMA ReleaseInv ==
  ASSUME DiskInv, NEW p \in Proc, releasesleep(p)
  PROVE  DiskInv'
<1> DEFINE i == th[p].i
<1>0. CacheType /\ ThreadType /\ Threads /\ Locks /\ Counts /\ Clean /\ DriverInv /\ NoLostWakeup
  BY Zenon DEF DiskInv
<1>1. /\ th[p].pc = "held" /\ i \in Buf /\ ~th[p].write /\ th[p].d = NULL
      /\ buf' = [buf EXCEPT ![i].lock = NULL]
      /\ UNCHANGED <<dvars, devvars, handler>> /\ lru' = lru /\ pinned' = pinned
  BY <1>0, Zenon DEF releasesleep, Threads, Busy
<1>2. th' = [[q \in Proc |-> IF th[q].pc = "sleep_lock" /\ th[q].i = i
                             THEN [th[q] EXCEPT !.pc = "acquiresleep"] ELSE th[q]]
             EXCEPT ![p].pc = "brelse"]
  BY Zenon DEF releasesleep, LockWakes, Wake
<1>3. /\ th'[p].pc = "brelse" /\ th'[p].b = th[p].b /\ th'[p].i = i /\ th'[p].d = NULL /\ ~th'[p].write
      /\ \A q \in Proc : q # p =>
           \/ th'[q] = th[q] /\ ~(th[q].pc = "sleep_lock" /\ th[q].i = i)
           \/ /\ th[q].pc = "sleep_lock" /\ th'[q].pc = "acquiresleep" /\ th'[q].b = th[q].b
              /\ th'[q].i = th[q].i /\ th'[q].d = th[q].d /\ th'[q].write = th[q].write
  BY <1>0, <1>1, <1>2 DEF ThreadType
<1>4. /\ \A j \in Buf : /\ buf'[j].b = buf[j].b /\ buf'[j].valid = buf[j].valid
                        /\ buf'[j].disk = buf[j].disk /\ buf'[j].data = buf[j].data
                        /\ buf'[j].refcnt = buf[j].refcnt
                        /\ j # i => buf'[j].lock = buf[j].lock
      /\ buf'[i].lock = NULL
  BY <1>0, <1>1 DEF CacheType
<1>5. CacheType'
  BY <1>0, <1>1 DEF CacheType
<1>6. Desc' = Desc
  BY <1>1, SameNum, Zenon DEF dvars
<1>7. ThreadType'
  BY <1>0, <1>2, <1>6 DEF ThreadType, Locked
<1>8. \A q \in Proc : q # p /\ Holds(q) => th[q].i # i
  BY <1>0, <1>1, OneHolder, Zenon DEF Holds, Locked
<1> HIDE DEF i
<1>9. Threads'
  BY <1>0, <1>1, <1>3, <1>4 DEF Threads, Busy, i
<1>10. Locks'
  <2>1. ~Holds(p)' /\ \A q \in Proc : q # p => /\ th'[q].i = th[q].i /\ (Holds(q)' <=> Holds(q))
                                               /\ Holds(q) => (Knows(q)' <=> Knows(q))
    BY <1>3, Zenon DEF Holds, Locked, Knows
  <2>2. \A q \in Proc : Holds(q) => /\ th[q].i \in Buf /\ buf[th[q].i].lock = q
                                    /\ buf[th[q].i].valid <=> Knows(q)
    BY <1>0, Zenon DEF Threads, Locks, Holds, Locked, Knows
  <2>3. \A q \in Proc : Holds(q)' => buf'[th'[q].i].lock = q /\ (buf'[th'[q].i].valid <=> Knows(q)')
    <3> SUFFICES ASSUME NEW q \in Proc, Holds(q)'
                 PROVE  buf'[th'[q].i].lock = q /\ (buf'[th'[q].i].valid <=> Knows(q)')
      OBVIOUS
    <3>1. q # p /\ th'[q].i = th[q].i /\ Holds(q) /\ (Knows(q)' <=> Knows(q))
      BY <2>1, Zenon
    <3>2. th[q].i \in Buf /\ th[q].i # i
      BY <1>8, <2>2, <3>1, Zenon
    <3> QED
      BY <1>4, <2>2, <3>1, <3>2, SMTT(40)
  <2>4. \A j \in Buf : buf'[j].lock # NULL => Holds(buf[j].lock)' /\ th'[buf'[j].lock].i = j
    <3> SUFFICES ASSUME NEW j \in Buf, buf'[j].lock # NULL
                 PROVE  Holds(buf[j].lock)' /\ th'[buf'[j].lock].i = j
      OBVIOUS
    <3>1. j # i /\ buf'[j].lock = buf[j].lock /\ buf[j].lock \in Proc
      BY <1>0, <1>4, Zenon DEF CacheType
    <3>2. Holds(buf[j].lock) /\ th[buf[j].lock].i = j
      BY <1>0, <3>1, DiskAssumption, Zenon DEF Locks
    <3>3. buf[j].lock # p
      BY <3>1, <3>2, Zenon DEF i
    <3> QED
      BY <2>1, <3>1, <3>2, <3>3, Zenon
  <2> QED
    BY <2>3, <2>4, Zenon DEF Locks, Knows
<1>11. \A q \in Proc : th'[q].i = th[q].i /\ th'[q].b = th[q].b
  BY <1>3, Zenon DEF i
<1>12. Counts'
  BY <1>0, <1>1, <1>4, <1>11, CountsFrame, Zenon
<1>13. Clean'
  <2>1. \A q \in Proc : /\ Dirty(q) => Dirty(q)'
                        /\ th'[q].pc = "written" => th[q].pc = "written"
    BY <1>1, <1>3, Zenon DEF Dirty
  <2>2. blk' = blk
    BY <1>1, Zenon DEF devvars
  <2> QED
    BY <1>0, <1>1, <1>4, <1>11, <2>1, <2>2, CleanFrame, Zenon
<1>14. DriverInv'
  <2>1. SameRequests
    BY <1>0, <1>1, <1>3, <1>4, Zenon DEF SameRequests, Busy, Threads
  <2> QED
    BY <1>0, <1>1, <2>1, DriverFrame, Zenon
<1>15. NoLostWakeup'
  BY <1>0, <1>1, <1>3, <1>4 DEF NoLostWakeup, Threads, dvars
<1> QED
  BY <1>5, <1>7, <1>9, <1>10, <1>12, <1>13, <1>14, <1>15, Zenon DEF DiskInv

(* brelse gives the buffer up. *)
LEMMA BrelseInv ==
  ASSUME FiniteFacts, DiskInv, NEW p \in Proc, brelse(p)
  PROVE  DiskInv'
<1>0. CacheType /\ ThreadType /\ Threads /\ Locks /\ Counts /\ Clean /\ DriverInv /\ NoLostWakeup
  BY Zenon DEF DiskInv
<1>i. PICK i \in Buf : i = th[p].i
  BY <1>0, Zenon DEF brelse, Threads
<1>1. /\ th[p].pc = "brelse" /\ th[p].i = i /\ ~th[p].write /\ th[p].d = NULL
      /\ th' = [th EXCEPT ![p] = Idle] /\ buf' = [buf EXCEPT ![i].refcnt = @ - 1]
      /\ lru' = (IF buf[i].refcnt = 1 THEN Front(i) ELSE lru)
      /\ UNCHANGED <<dvars, devvars, handler>> /\ pinned' = pinned
  BY <1>0, <1>i, Zenon DEF brelse, Threads, Busy
<1>2. /\ th'[p] = Idle /\ th'[p].pc = "idle" /\ th'[p].i = NULL /\ th'[p].d = NULL /\ ~th'[p].write
      /\ \A q \in Proc : q # p => th'[q] = th[q]
  BY <1>0, <1>1, Zenon DEF ThreadType, Idle
<1>3. /\ \A j \in Buf : /\ buf'[j].b = buf[j].b /\ buf'[j].valid = buf[j].valid
                        /\ buf'[j].disk = buf[j].disk /\ buf'[j].data = buf[j].data
                        /\ buf'[j].lock = buf[j].lock
                        /\ j # i => buf'[j].refcnt = buf[j].refcnt
      /\ buf'[i].refcnt = buf[i].refcnt - 1
  BY <1>0, <1>1 DEF CacheType
<1>4. /\ p \in Users(i) /\ Users(i)' = Users(i) \ {p}
      /\ \A j \in Buf : j # i => Users(j)' = Users(j)
  BY <1>1, <1>2, DiskAssumption DEF Users, Buf
<1>5. /\ Cardinality(Users(i)') = Cardinality(Users(i)) - 1
      /\ Cardinality(Users(i)) \in Nat /\ Cardinality(Users(i)') \in Nat
  BY <1>4, UsersFinite, Zenon DEF FiniteFacts, RemoveFact, CardFact
<1>6. CacheType'
  <2>1. buf[i].refcnt - 1 \in Nat
    BY <1>0, <1>1, <1>5 DEF Counts
  <2>2. buf' \in [Buf -> [b : Block \cup {NULL}, valid : BOOLEAN, disk : BOOLEAN,
                          lock : Proc \cup {NULL}, refcnt : Nat, data : Val \cup {NULL}]]
    BY <1>0, <1>1, <2>1 DEF CacheType
  <2>3. lru' \in [Buf -> Buf]
    <3>1. ASSUME NEW k
          PROVE  [j \in Buf |-> IF j = 1 THEN i ELSE IF j <= k THEN lru[j - 1] ELSE lru[j]] \in [Buf -> Buf]
      <4>1. \A j \in Buf : j # 1 => j - 1 \in Buf
        BY DiskAssumption DEF Buf
      <4> QED
        BY <1>0, <4>1, Zenon DEF CacheType
    <3>2. Front(i) \in [Buf -> Buf]
      BY <3>1, Zenon DEF Front
    <3> QED
      BY <1>0, <1>1, <3>2, Zenon DEF CacheType
  <2> QED
    BY <1>0, <1>1, <2>2, <2>3, Zenon DEF CacheType
<1>7. Desc' = Desc
  BY <1>1, SameNum, Zenon DEF dvars
<1>8. ThreadType'
  BY <1>0, <1>1, <1>7, Zenon DEF ThreadType, Idle
<1>9. Threads'
  BY <1>0, <1>2, <1>3, SMTT(40) DEF Threads, Busy
<1>10. Locks'
  BY <1>0, <1>1, <1>2, <1>3 DEF Locks, Holds, Locked
<1>11. Counts'
  <2>1. buf'[i].refcnt = Cardinality(Users(i)') + (IF buf'[i].b \in pinned' THEN 1 ELSE 0)
    BY <1>0, <1>1, <1>3, <1>5 DEF Counts
  <2>2. \A j \in Buf : buf'[j].refcnt = Cardinality(Users(j)') + (IF buf'[j].b \in pinned' THEN 1 ELSE 0)
    <3> SUFFICES ASSUME NEW j \in Buf
                 PROVE  buf'[j].refcnt = Cardinality(Users(j)') + (IF buf'[j].b \in pinned' THEN 1 ELSE 0)
      BY Zenon
    <3>1. CASE j = i
      BY <2>1, <3>1, Zenon
    <3>2. CASE j # i
      <4>1. /\ Users(j)' = Users(j) /\ buf'[j].refcnt = buf[j].refcnt /\ buf'[j].b = buf[j].b
            /\ pinned' = pinned
        BY <1>1, <1>3, <1>4, <3>2, Zenon
      <4>2. buf[j].refcnt = Cardinality(Users(j)) + (IF buf[j].b \in pinned THEN 1 ELSE 0)
        BY <1>0, Zenon DEF Counts
      <4> QED
        BY <4>1, <4>2, Zenon
    <3> QED
      BY <3>1, <3>2, Zenon
  <2> QED
    BY <1>0, <1>1, <1>3, <2>2 DEF Counts
<1>12. Clean'
  <2>1. \A j \in Buf : (\A q \in Users(j)' : ~Dirty(q)') => \A q \in Users(j) : ~Dirty(q)
    BY <1>1, <1>2, <1>4 DEF Users, Dirty
  <2>2. blk' = blk
    BY <1>1, Zenon DEF devvars
  <2>3. \A q \in Proc : th'[q].pc = "written" => buf'[th'[q].i].data = blk'[th'[q].b]
    BY <1>0, <1>2, <1>3, <2>2, SMTT(40) DEF Clean, Threads
  <2> QED
    BY <1>0, <1>1, <1>3, <2>1, <2>2, <2>3 DEF Clean
<1>13. DriverInv'
  <2>1. SameRequests
    BY <1>0, <1>1, <1>2, <1>3, Zenon DEF SameRequests, Busy, Threads
  <2> QED
    BY <1>0, <1>1, <2>1, DriverFrame, Zenon
<1>14. NoLostWakeup'
  BY <1>0, <1>1, <1>2, <1>3 DEF NoLostWakeup, Threads, dvars
<1> QED
  BY <1>6, <1>8, <1>9, <1>10, <1>11, <1>12, <1>13, <1>14, Zenon DEF DiskInv

-----------------------------------------------------------------------------
(* The arithmetic of ring indices.                                        *)

(* What a remainder does when the number grows by one. *)
LEMMA ModNext ==
  ASSUME NEW n \in Nat, n > 0, NEW x \in Nat
  PROVE  /\ x % n \in 0..(n - 1)
         /\ (x + 1) % n = Wrap((x % n) + 1, n)
<1> DEFINE q == x \div n
           r == x % n
<1>1. q \in Int /\ r \in 0..(n - 1) /\ x = n * q + r
  OBVIOUS
<1> HIDE DEF q, r
<1>2. CASE r + 1 < n
  <2>1. x + 1 = n * q + (r + 1)
    BY <1>1
  <2>2. (x + 1) % n = r + 1
    BY <1>1, <1>2, <2>1
  <2> QED
    BY <1>1, <1>2, <2>2, Zenon DEF Wrap, r
<1>3. CASE r + 1 = n
  <2>1. x + 1 = n * (q + 1)
    BY <1>1, <1>3
  <2>2. (x + 1) % n = 0
    BY <1>1, <2>1
  <2> QED
    BY <1>1, <1>3, <2>2 DEF Wrap, r
<1> QED
  BY <1>1, <1>2, <1>3

(* The next index, and its slot. *)
LEMMA SlotInc ==
  ASSUME NUM \in Nat \ 0..2, NEW x \in 0..(IDX - 1)
  PROVE  /\ Inc(x) = Wrap(x + 1, IDX) /\ Inc(x) \in 0..(IDX - 1)
         /\ Slot(x) \in 0..(NUM - 1)
         /\ Slot(Inc(x)) = Wrap(Slot(x) + 1, NUM)
<1>1. IDX \in Nat /\ IDX >= NUM /\ IDX > 0 /\ NUM > 0 /\ x \in Nat /\ NUM \in Nat
  BY IdxPositive
<1>2. x % IDX = x
  BY <1>1
<1>3. Inc(x) = Wrap(x + 1, IDX)
  BY <1>1, <1>2, ModNext, Zenon DEF Inc
<1>4. Slot(x) \in 0..(NUM - 1) /\ (x + 1) % NUM = Wrap(Slot(x) + 1, NUM)
  BY <1>1, ModNext, Zenon DEF Slot
<1>5. CASE x + 1 < IDX
  BY <1>1, <1>3, <1>4, <1>5 DEF Wrap, Slot
<1>6. CASE x + 1 = IDX
  <2>1. IDX % NUM = 0
    <3>1. IDX = NUM * Wraps /\ Wraps \in Nat
      BY <1>1, DiskAssumption DEF IDX
    <3> QED
      BY <1>1, <3>1
  <2>2. Inc(x) = 0 /\ Slot(0) = 0
    BY <1>1, <1>3, <1>6 DEF Wrap, Slot
  <2>3. Wrap(Slot(x) + 1, NUM) = 0
    BY <1>4, <1>6, <2>1, Zenon
  <2> QED
    BY <1>1, <1>3, <1>4, <2>2, <2>3
<1> QED
  BY <1>1, <1>5, <1>6

(* Moving either end of the entries on by one. *)
LEMMA WrapMoves ==
  ASSUME NEW m \in Nat, NEW k \in Nat, k <= m, NEW x \in 0..(m - 1), NEW n \in 0..(k - 1)
  PROVE  /\ Wrap(Wrap(x + n, m) + 1, m) = Wrap(x + (n + 1), m)
         /\ n > 0 => Wrap(Wrap(x + 1, m) + (n - 1), m) = Wrap(x + n, m)
BY DEF Wrap

Ring == [ring : [Desc -> Desc \cup {NULL}], idx : 0..(IDX - 1), seen : 0..(IDX - 1)]

(* The slot to write is empty unless the ring is full, and the slot to     *)
(* read is not empty unless there is nothing to read.                      *)
LEMMA RingEnds ==
  ASSUME DriverType, NEW r \in Ring, NEW n \in 0..(NUM - 1), Filled(r, n)
  PROVE  /\ Slot(r.idx) \in Desc /\ r.ring[Slot(r.idx)] = NULL
         /\ Slot(r.seen) \in Desc
         /\ r.seen # r.idx => n > 0 /\ r.ring[Slot(r.seen)] # NULL
<1>1. NUM \in Nat \ 0..2 /\ Desc = 0..(NUM - 1) /\ r.idx \in 0..(IDX - 1) /\ r.seen \in 0..(IDX - 1)
  BY Zenon DEF DriverType, Ring
<1>2. IDX \in Nat
  BY <1>1, IdxPositive, Zenon
<1>3. Slot(r.idx) \in Desc /\ Slot(r.seen) \in Desc
  BY <1>1, SlotInc, Zenon
<1>4. ~(Wrap(Slot(r.idx) - Slot(r.seen) + NUM, NUM) < n)
  <2>1. Slot(r.idx) = Wrap(Slot(r.seen) + n, NUM)
    BY Zenon DEF Filled
  <2> QED
    BY <1>1, <1>3, <2>1 DEF Wrap
<1>5. r.seen # r.idx => n > 0
  BY <1>1, <1>2 DEF Filled, Wrap
<1>6. Wrap(Slot(r.seen) - Slot(r.seen) + NUM, NUM) = 0
  BY <1>1, <1>3 DEF Wrap
<1> QED
  BY <1>1, <1>3, <1>4, <1>5, <1>6, Zenon DEF Filled

(* Writing a slot and moving idx on. *)
LEMMA RingPut ==
  ASSUME DriverType, NEW r \in Ring, NEW n \in 0..(NUM - 1), Filled(r, n), NEW d \in Desc
  PROVE  LET s == [r EXCEPT !.ring[Slot(r.idx)] = d, !.idx = Inc(r.idx)]
         IN  s \in Ring /\ Filled(s, n + 1)
<1> DEFINE s == [r EXCEPT !.ring[Slot(r.idx)] = d, !.idx = Inc(r.idx)]
<1>k. PICK k, m : k = Slot(r.idx) /\ m = Slot(r.seen)
  OBVIOUS
<1>1. /\ NUM \in Nat \ 0..2 /\ Desc = 0..(NUM - 1) /\ r.idx \in 0..(IDX - 1) /\ r.seen \in 0..(IDX - 1)
      /\ r.ring \in [Desc -> Desc \cup {NULL}]
  BY Zenon DEF DriverType, Ring
<1>2. IDX \in Nat /\ IDX >= NUM
  BY <1>1, IdxPositive, Zenon
<1>3. /\ Inc(r.idx) = Wrap(r.idx + 1, IDX) /\ Inc(r.idx) \in 0..(IDX - 1)
      /\ k \in 0..(NUM - 1) /\ Slot(Inc(r.idx)) = Wrap(k + 1, NUM)
      /\ m \in 0..(NUM - 1)
  BY <1>k, <1>1, SlotInc, Zenon
<1>4. /\ s \in Ring /\ s.idx = Inc(r.idx) /\ s.seen = r.seen
      /\ s.ring[k] = d /\ \A u \in Desc : u # k => s.ring[u] = r.ring[u]
  BY <1>k, <1>1, <1>3, Zenon DEF Ring
<1>5. /\ r.idx = Wrap(r.seen + n, IDX) /\ k = Wrap(m + n, NUM)
      /\ \A u \in Desc : r.ring[u] # NULL <=> Wrap(u - m + NUM, NUM) < n
  BY <1>k, Zenon DEF Filled
<1> HIDE DEF s
<1>6. s.idx = Wrap(s.seen + (n + 1), IDX)
  <2>1. NUM \in Nat /\ NUM <= IDX
    BY <1>1, <1>2, Zenon
  <2>2. Wrap(Wrap(r.seen + n, IDX) + 1, IDX) = Wrap(r.seen + (n + 1), IDX)
    BY <1>1, <1>2, <2>1, WrapMoves, ZenonT(30)
  <2> QED
    BY <1>3, <1>4, <1>5, <2>2, Zenon
<1>7. Slot(s.idx) = Wrap(Slot(s.seen) + (n + 1), NUM)
  <2>1. Wrap(k + 1, NUM) = Wrap(m + (n + 1), NUM)
    BY <1>1, <1>3, <1>5 DEF Wrap
  <2> QED
    BY <1>k, <1>3, <1>4, <2>1, Zenon
<1>8. \A u \in Desc : s.ring[u] # NULL <=> Wrap(u - Slot(s.seen) + NUM, NUM) < n + 1
  <2> SUFFICES ASSUME NEW u \in Desc
               PROVE  s.ring[u] # NULL <=> Wrap(u - m + NUM, NUM) < n + 1
    BY <1>k, <1>4, Zenon
  <2>1. d # NULL
    BY <1>1, DiskAssumption
  <2>2. u = k <=> Wrap(u - m + NUM, NUM) = n
    <3>1. /\ NUM \in Nat /\ u \in 0..(NUM - 1) /\ m \in 0..(NUM - 1) /\ n \in 0..(NUM - 1)
          /\ k = Wrap(m + n, NUM)
      BY <1>1, <1>3, <1>5, Zenon
    <3> QED
      BY <3>1, SMTT(30) DEF Wrap
  <2>3. Wrap(u - m + NUM, NUM) \in Int
    BY <1>1, <1>3 DEF Wrap
  <2> QED
    BY <1>4, <1>5, <2>1, <2>2, <2>3
<1>9. Filled(s, n + 1)
  BY <1>6, <1>7, <1>8, Zenon DEF Filled
<1> QED
  BY <1>4, <1>9, Zenon DEF s

(* Reading a slot and moving seen on. *)
LEMMA RingTake ==
  ASSUME DriverType, NEW r \in Ring, NEW n \in 0..(NUM - 1), Filled(r, n), r.seen # r.idx
  PROVE  LET s == [r EXCEPT !.seen = Inc(r.seen), !.ring[Slot(r.seen)] = NULL]
         IN  s \in Ring /\ n - 1 \in 0..(NUM - 1) /\ Filled(s, n - 1)
<1> DEFINE s == [r EXCEPT !.seen = Inc(r.seen), !.ring[Slot(r.seen)] = NULL]
<1>m. PICK m : m = Slot(r.seen)
  OBVIOUS
<1>1. /\ NUM \in Nat \ 0..2 /\ Desc = 0..(NUM - 1) /\ r.idx \in 0..(IDX - 1) /\ r.seen \in 0..(IDX - 1)
      /\ r.ring \in [Desc -> Desc \cup {NULL}]
  BY Zenon DEF DriverType, Ring
<1>2. IDX \in Nat /\ IDX >= NUM /\ n > 0
  BY <1>1, IdxPositive, RingEnds, Zenon
<1>3. /\ Inc(r.seen) = Wrap(r.seen + 1, IDX) /\ Inc(r.seen) \in 0..(IDX - 1)
      /\ m \in 0..(NUM - 1) /\ Slot(Inc(r.seen)) = Wrap(m + 1, NUM)
  BY <1>m, <1>1, SlotInc, Zenon
<1>4. /\ s \in Ring /\ s.seen = Inc(r.seen) /\ s.idx = r.idx
      /\ s.ring[m] = NULL /\ \A u \in Desc : u # m => s.ring[u] = r.ring[u]
  BY <1>m, <1>1, <1>3, Zenon DEF Ring
<1>5. /\ r.idx = Wrap(r.seen + n, IDX) /\ Slot(r.idx) = Wrap(m + n, NUM)
      /\ \A u \in Desc : r.ring[u] # NULL <=> Wrap(u - m + NUM, NUM) < n
  BY <1>m, Zenon DEF Filled
<1> HIDE DEF s
<1>6. s.idx = Wrap(s.seen + (n - 1), IDX)
  <2>1. NUM \in Nat /\ NUM <= IDX /\ n > 0
    BY <1>1, <1>2, Zenon
  <2>2. Wrap(Wrap(r.seen + 1, IDX) + (n - 1), IDX) = Wrap(r.seen + n, IDX)
    BY <1>1, <1>2, <2>1, WrapMoves, Zenon
  <2> QED
    BY <1>3, <1>4, <1>5, <2>2, Zenon
<1>7. Slot(s.idx) = Wrap(Slot(s.seen) + (n - 1), NUM)
  <2>1. Wrap(Wrap(m + 1, NUM) + (n - 1), NUM) = Wrap(m + n, NUM)
    BY <1>1, <1>2, <1>3 DEF Wrap
  <2> QED
    BY <1>3, <1>4, <1>5, <2>1, Zenon
<1>8. \A u \in Desc : s.ring[u] # NULL <=> Wrap(u - Slot(s.seen) + NUM, NUM) < n - 1
  <2> SUFFICES ASSUME NEW u \in Desc
               PROVE  s.ring[u] # NULL <=> Wrap(u - Wrap(m + 1, NUM) + NUM, NUM) < n - 1
    BY <1>3, <1>4, Zenon
  <2>1. u # m => Wrap(u - Wrap(m + 1, NUM) + NUM, NUM) = Wrap(u - m + NUM, NUM) - 1
    BY <1>1, <1>3 DEF Wrap
  <2>2. u = m => Wrap(u - Wrap(m + 1, NUM) + NUM, NUM) = NUM - 1
    BY <1>1, <1>3 DEF Wrap
  <2>3. Wrap(u - m + NUM, NUM) \in Int
    BY <1>1, <1>3 DEF Wrap
  <2> QED
    <3>1. CASE u = m
      BY <1>1, <1>2, <1>4, <2>2, <3>1
    <3>2. CASE u # m
      <4>1. s.ring[u] # NULL <=> Wrap(u - m + NUM, NUM) < n
        BY <1>4, <1>5, <3>2, Zenon
      <4> QED
        BY <1>1, <1>2, <2>1, <2>3, <3>2, <4>1
    <3> QED
      BY <3>1, <3>2, Zenon
<1>9. Filled(s, n - 1)
  BY <1>6, <1>7, <1>8, Zenon DEF Filled
<1> QED
  BY <1>1, <1>2, <1>4, <1>9, SMTT(40) DEF s

(* A ring whose slots differ, and in which some descriptor is missing, has *)
(* an empty slot.                                                          *)
LEMMA NotFull ==
  ASSUME FiniteFacts, DriverType, NEW ring \in [Desc -> Desc \cup {NULL}],
         \A s, u \in Desc : ring[s] # NULL /\ ring[s] = ring[u] => s = u,
         NEW e \in Desc, \A s \in Desc : ring[s] # e
  PROVE  \E s \in Desc : ring[s] = NULL
<1> SUFFICES ASSUME \A s \in Desc : ring[s] # NULL PROVE FALSE
  OBVIOUS
<1>1. IsFiniteSet(Desc) /\ Cardinality(Desc) \in Nat
  BY DEF DriverType, FiniteFacts, IntervalFact, CardFact
<1>2. IsFiniteSet(Desc \ {e}) /\ Cardinality(Desc \ {e}) = Cardinality(Desc) - 1
  BY <1>1, Zenon DEF FiniteFacts, RemoveFact
<1>3. ring \in [Desc -> Desc \ {e}]
  OBVIOUS
<1>4. Cardinality(Desc \ {e}) < Cardinality(Desc)
  BY <1>1, <1>2
<1>5. \E s, u \in Desc : s # u /\ ring[s] = ring[u]
  BY <1>1, <1>2, <1>3, <1>4 DEF FiniteFacts, PigeonFact
<1> QED
  BY <1>5, Zenon

(* A ring with an empty slot has fewer than NUM entries. *)
LEMMA NotAll ==
  ASSUME DriverType, NEW r \in Ring, NEW n \in 0..(NUM - 1), Filled(r, n + 1), \E s \in Desc : r.ring[s] = NULL
  PROVE  n + 1 \in 0..(NUM - 1)
<1>1. NUM \in Nat \ 0..2 /\ Desc = 0..(NUM - 1) /\ r.seen \in 0..(IDX - 1)
  BY Zenon DEF DriverType, Ring
<1>2. Slot(r.seen) \in 0..(NUM - 1)
  BY <1>1, SlotInc, Zenon
<1>3. PICK s \in Desc : ~(Wrap(s - Slot(r.seen) + NUM, NUM) < n + 1)
  BY Zenon DEF Filled
<1> QED
  BY <1>1, <1>2, <1>3 DEF Wrap

-----------------------------------------------------------------------------
(* The driver.                                                             *)

(* The requests of two processes start at two descriptors, none of which   *)
(* is free.                                                                *)
LEMMA Heads ==
  ASSUME DriverInv, NEW p \in Proc, Busy(p)
  PROVE  /\ th[p].d \in Desc /\ th[p].d \notin free
         /\ Freed(th[p].d) = {th[p].d, desc[th[p].d], desc[desc[th[p].d]]}
         /\ \A q \in Proc : Busy(q) /\ q # p => th[q].d # th[p].d /\ th[q].d \notin Freed(th[p].d)
<1>1. /\ th[p].d \in Desc /\ desc[th[p].d] \in Desc /\ desc[desc[th[p].d]] \in Desc
      /\ th[p].d \notin free
  BY Zenon DEF DriverInv, Chains
<1>2. NULL \notin Desc
  BY DiskAssumption DEF DriverInv, DriverType
<1>3. Freed(th[p].d) = {th[p].d, desc[th[p].d], desc[desc[th[p].d]]}
  BY <1>1, <1>2, Zenon DEF Freed, Chain
<1>4. ASSUME NEW q \in Proc, Busy(q), q # p
      PROVE  th[q].d # th[p].d /\ th[q].d \notin Freed(th[p].d)
  <2>1. th[q].d \in Freed(th[q].d)
    BY <1>2, <1>4, SMTT(40) DEF Freed, Chain, DriverInv, Chains
  <2>2. Freed(th[q].d) \cap Freed(th[p].d) = {}
    BY <1>4, Zenon DEF DriverInv, Chains
  <2> QED
    BY <1>3, <2>1, <2>2, Zenon
<1> QED
  BY <1>1, <1>3, <1>4, Zenon

(* The records of the threads, and those that a wakeup leaves. *)
ThreadRec == [pc : Locked \cup {"idle", "acquiresleep", "sleep_lock", "brelse"},
              b : Block \cup {NULL}, i : Buf \cup {NULL}, d : Desc \cup {NULL}, write : BOOLEAN]

LEMMA Woken ==
  ASSUME ThreadType, NEW S, NEW pc \in Locked
  PROVE  /\ Wake(th, S, pc) \in [Proc -> ThreadRec]
         /\ \A q \in Proc :
              LET t == Wake(th, S, pc)[q]
              IN  /\ t.b = th[q].b /\ t.i = th[q].i /\ t.d = th[q].d /\ t.write = th[q].write
                  /\ q \in S => t.pc = pc
                  /\ q \notin S => t = th[q]
<1> DEFINE T == Wake(th, S, pc)
<1>1. \A q \in Proc : T[q] = IF q \in S THEN [th[q] EXCEPT !.pc = pc] ELSE th[q]
  BY Zenon DEF Wake
<1>2. T = [q \in Proc |-> T[q]]
  BY Zenon DEF Wake
<1>3. \A q \in Proc : th[q] \in ThreadRec
  BY Zenon DEF ThreadType, ThreadRec
<1> HIDE DEF T
<1>4. ASSUME NEW q \in Proc
      PROVE  /\ T[q] \in ThreadRec
             /\ T[q].b = th[q].b /\ T[q].i = th[q].i /\ T[q].d = th[q].d /\ T[q].write = th[q].write
             /\ q \in S => T[q].pc = pc
             /\ q \notin S => T[q] = th[q]
  BY <1>1, <1>3, <1>4, ZenonT(30) DEF ThreadRec
<1>5. T \in [Proc -> ThreadRec]
  BY <1>2, <1>4, Zenon
<1> QED
  BY <1>4, <1>5, Zenon DEF T

(* The driver sets b->disk, and the handler clears it. *)
LEMMA SetDisk ==
  ASSUME CacheType, NEW i \in Buf, NEW v \in BOOLEAN, buf' = [buf EXCEPT ![i].disk = v],
         lru' = lru, pinned' = pinned
  PROVE  /\ CacheType'
         /\ buf'[i].disk = v
         /\ \A j \in Buf : /\ buf'[j].b = buf[j].b /\ buf'[j].valid = buf[j].valid
                           /\ buf'[j].lock = buf[j].lock /\ buf'[j].data = buf[j].data
                           /\ buf'[j].refcnt = buf[j].refcnt
                           /\ j # i => buf'[j].disk = buf[j].disk
BY DEF CacheType

(* Descriptors can be counted. *)
LEMMA FreeFinite ==
  ASSUME FiniteFacts, DriverType
  PROVE  IsFiniteSet(Desc) /\ IsFiniteSet(free) /\ Cardinality(free) \in Nat
<1>1. IsFiniteSet(Desc) /\ free \in SUBSET Desc
  BY DEF DriverType, FiniteFacts, IntervalFact
<1>2. IsFiniteSet(free)
  BY <1>1, Zenon DEF FiniteFacts, SubsetFact
<1> QED
  BY <1>1, <1>2, Zenon DEF FiniteFacts, CardFact

(* Requests that are open have different heads: who starts at d is p. *)
LEMMA OpenIs ==
  ASSUME DriverInv, NEW p \in Proc, Busy(p), NEW s, Open(th[p].d, s)
  PROVE  buf[th[p].i].disk /\ req[th[p].d].status = s
BY Heads, Zenon DEF Open

(* virtio_disk_rw without descriptors: what was taken is given back. *)
LEMMA RwShortInv ==
  ASSUME DiskInv, NEW p \in Proc, virtio_disk_rw(p), Cardinality(free) < 3, UNCHANGED <<buf, dvars>>,
         th' = [(IF free = {} THEN th ELSE FreeWakes(th)) EXCEPT ![p].pc = "sleep_free"]
  PROVE  DiskInv'
<1>0. CacheType /\ ThreadType /\ Threads /\ Locks /\ Counts /\ Clean /\ DriverInv /\ NoLostWakeup
  BY Zenon DEF DiskInv
<1>1. /\ th[p].pc = "rw" /\ th[p].i \in Buf /\ th[p].d = NULL
      /\ UNCHANGED <<dvars, devvars, handler>> /\ lru' = lru /\ pinned' = pinned /\ buf' = buf
  BY <1>0, Zenon DEF virtio_disk_rw, Threads, Busy
<1>2. PICK T \in [Proc -> ThreadRec] :
        /\ th' = [T EXCEPT ![p].pc = "sleep_free"]
        /\ \A q \in Proc : \/ T[q] = th[q]
                           \/ /\ th[q].pc = "sleep_free" /\ T[q].pc = "rw" /\ T[q].b = th[q].b
                              /\ T[q].i = th[q].i /\ T[q].d = th[q].d /\ T[q].write = th[q].write
        /\ T[p] = th[p]
  <2>1. CASE free = {}
    BY <1>0, <2>1, Zenon DEF ThreadType, ThreadRec
  <2>2. CASE free # {}
    <3>1. "rw" \in Locked
      BY Zenon DEF Locked
    <3>2. th' = [FreeWakes(th) EXCEPT ![p].pc = "sleep_free"]
      BY <2>2, Zenon
    <3>3. /\ FreeWakes(th) \in [Proc -> ThreadRec]
          /\ \A q \in Proc :
               LET t == FreeWakes(th)[q]
               IN  /\ t.b = th[q].b /\ t.i = th[q].i /\ t.d = th[q].d /\ t.write = th[q].write
                   /\ q \in {r \in Proc : th[r].pc = "sleep_free"} => t.pc = "rw"
                   /\ q \notin {r \in Proc : th[r].pc = "sleep_free"} => t = th[q]
      BY <1>0, <3>1, Woken DEF FreeWakes
    <3> QED
      BY <1>1, <3>2, <3>3, Zenon
  <2> QED
    BY <2>1, <2>2, Zenon
<1>3. /\ th'[p].pc = "sleep_free" /\ th'[p].b = th[p].b /\ th'[p].i = th[p].i /\ th'[p].d = NULL
      /\ th'[p].write = th[p].write
      /\ \A q \in Proc : q # p =>
           \/ th'[q] = th[q]
           \/ /\ th[q].pc = "sleep_free" /\ th'[q].pc = "rw" /\ th'[q].b = th[q].b
              /\ th'[q].i = th[q].i /\ th'[q].d = th[q].d /\ th'[q].write = th[q].write
  BY <1>1, <1>2 DEF ThreadRec
<1>4. CacheType'
  BY <1>0, <1>1, Zenon DEF CacheType
<1>5. Desc' = Desc
  BY <1>1, SameNum, Zenon DEF dvars
<1>6. ThreadType'
  <2>1. ASSUME NEW r \in ThreadRec
        PROVE  [r EXCEPT !.pc = "sleep_free"] \in ThreadRec
    BY Zenon DEF ThreadRec, Locked
  <2>2. T[p] \in ThreadRec
    BY <1>2, Zenon
  <2>3. th' = [T EXCEPT ![p] = [T[p] EXCEPT !.pc = "sleep_free"]]
    BY <1>2, Zenon
  <2>4. [T[p] EXCEPT !.pc = "sleep_free"] \in ThreadRec
    BY <2>1, <2>2, Zenon
  <2>5. th' \in [Proc -> ThreadRec]
    BY <1>2, <2>3, <2>4, Zenon
  <2> QED
    BY <1>5, <2>5, Zenon DEF ThreadType, ThreadRec
<1>7. Threads'
  BY <1>0, <1>1, <1>3 DEF Threads, Busy
<1>8. Locks'
  <2>1. \A q \in Proc : /\ th'[q].i = th[q].i /\ (Holds(q)' <=> Holds(q))
                        /\ Holds(q) => (Knows(q)' <=> Knows(q))
    BY <1>1, <1>3 DEF Holds, Locked, Knows
  <2> QED
    BY <1>0, <1>1, <2>1, LocksFrame, Zenon
<1>9. \A q \in Proc : th'[q].i = th[q].i /\ th'[q].b = th[q].b
  BY <1>3, Zenon
<1>10. Counts'
  BY <1>0, <1>1, <1>9, CountsFrame, Zenon
<1>11. Clean'
  <2>1. \A q \in Proc : /\ Dirty(q) => Dirty(q)'
                        /\ th'[q].pc = "written" => th[q].pc = "written"
    BY <1>1, <1>3 DEF Dirty
  <2>2. blk' = blk
    BY <1>1, Zenon DEF devvars
  <2> QED
    BY <1>0, <1>1, <1>9, <2>1, <2>2, CleanFrame, Zenon
<1>12. DriverInv'
  <2>1. SameRequests
    BY <1>1, <1>3, Zenon DEF SameRequests, Busy
  <2> QED
    BY <1>0, <1>1, <2>1, DriverFrame, Zenon
<1>13. NoLostWakeup'
  BY <1>0, <1>1, <1>3, SMTT(40) DEF NoLostWakeup, dvars
<1> QED
  BY <1>4, <1>6, <1>7, <1>8, <1>10, <1>11, <1>12, <1>13, Zenon DEF DiskInv

(* virtio_disk_rw with three descriptors x, y, z: the request is made. *)
LEMMA RwInv ==
  ASSUME FiniteFacts, DiskInv, NEW p \in Proc, virtio_disk_rw(p),
         NEW x \in free, NEW y \in free \ {x}, NEW z \in free \ {x, y},
         free' = free \ {x, y, z},
         desc' = [desc EXCEPT ![x] = y, ![y] = z, ![z] = NULL],
         req' = [req EXCEPT ![x] = [write |-> th[p].write, sector |-> th[p].b, i |-> th[p].i,
                                    status |-> "none"]],
         buf' = [buf EXCEPT ![th[p].i].disk = TRUE],
         avail' = [avail EXCEPT !.ring[Slot(avail.idx)] = x, !.idx = Inc(avail.idx)],
         th' = [th EXCEPT ![p].pc = "sleep_buf", ![p].d = x],
         used' = used
  PROVE  DiskInv'
<1>0. CacheType /\ ThreadType /\ Threads /\ Locks /\ Counts /\ Clean /\ DriverInv /\ NoLostWakeup
  BY Zenon DEF DiskInv
<1>i. PICK i \in Buf : i = th[p].i
  BY <1>0, ZenonT(30) DEF virtio_disk_rw, Threads
<1>1. /\ th[p].pc = "rw" /\ th[p].b \in Block /\ th[p].d = NULL /\ ~Busy(p)
      /\ lru' = lru /\ pinned' = pinned
      /\ blk' = blk /\ inflight' = inflight /\ isr' = isr /\ handler' = handler
  BY <1>0, Zenon DEF virtio_disk_rw, Threads, Busy, devvars
<1>2. /\ x \in Desc /\ y \in Desc /\ z \in Desc /\ x # y /\ x # z /\ y # z
      /\ NULL \notin Desc /\ free \subseteq Desc
  BY <1>0, DiskAssumption DEF DriverInv, DriverType
<1>3. Desc' = Desc /\ NUM' = NUM /\ IDX' = IDX
  <2>1. DOMAIN desc' = DOMAIN desc
    OBVIOUS
  <2> QED
    BY <2>1, SameNum, Zenon
<1>4. /\ th'[p].pc = "sleep_buf" /\ th'[p].b = th[p].b /\ th'[p].i = i /\ th'[p].d = x
      /\ th'[p].write = th[p].write
      /\ \A q \in Proc : q # p => th'[q] = th[q]
  BY <1>0, <1>i, Zenon DEF ThreadType
<1>5. /\ \A j \in Buf : /\ buf'[j].b = buf[j].b /\ buf'[j].valid = buf[j].valid
                        /\ buf'[j].lock = buf[j].lock /\ buf'[j].data = buf[j].data
                        /\ buf'[j].refcnt = buf[j].refcnt
                        /\ j # i => buf'[j].disk = buf[j].disk
      /\ buf'[i].disk /\ CacheType'
  <2>1. CacheType /\ buf' = [buf EXCEPT ![i].disk = TRUE] /\ TRUE \in BOOLEAN
    BY <1>0, <1>i, Zenon
  <2> QED
    BY <1>1, <2>1, SetDisk, Zenon
<1>7. ThreadType'
  <2>1. ASSUME NEW r \in ThreadRec
        PROVE  [r EXCEPT !.pc = "sleep_buf", !.d = x] \in ThreadRec
    BY <1>2, Zenon DEF ThreadRec, Locked
  <2>2. th \in [Proc -> ThreadRec]
    BY <1>0, Zenon DEF ThreadType, ThreadRec
  <2>3. th' = [th EXCEPT ![p] = [th[p] EXCEPT !.pc = "sleep_buf", !.d = x]]
    BY <2>2, ZenonT(30)
  <2>4. th' \in [Proc -> ThreadRec]
    <3>1. th[p] \in ThreadRec
      BY <2>2, Zenon
    <3>2. [th[p] EXCEPT !.pc = "sleep_buf", !.d = x] \in ThreadRec
      BY <2>1, <3>1, Zenon
    <3> QED
      BY <2>2, <2>3, <3>2, Zenon
  <2> QED
    BY <1>3, <2>4, Zenon DEF ThreadType, ThreadRec
<1>8. \A q \in Proc : Busy(q) => q # p /\ th[q].i # i /\ th[q].i \in Buf
  BY <1>0, <1>i, <1>1, OneHolder, Zenon DEF Busy, Holds, Locked, Threads
<1>9. Threads'
  <2>1. x # NULL
    BY <1>2, Zenon
  <2>2. \A q \in Proc : th[q].i \in Buf => buf'[th[q].i].b = buf[th[q].i].b
    BY <1>5, Zenon
  <2>3. th'[p].i \in Buf /\ th'[p].b \in Block /\ buf'[th'[p].i].b = th'[p].b
    BY <1>0, <1>i, <1>1, <1>4, <2>2, SMTT(40) DEF Threads
  <2> SUFFICES ASSUME NEW q \in Proc
               PROVE  /\ th'[q].pc = "idle" => th'[q] = Idle
                      /\ th'[q].pc # "idle" => /\ th'[q].i \in Buf /\ th'[q].b \in Block
                                               /\ buf'[th'[q].i].b = th'[q].b
                      /\ Busy(q)' <=> th'[q].d # NULL
                      /\ th'[q].write => th'[q].pc \in {"rw", "sleep_free", "sleep_buf", "rw_done"}
    BY ZenonT(30) DEF Threads
  <2>4. CASE q = p
    BY <1>4, <2>1, <2>3, <2>4, Zenon DEF Busy
  <2>5. CASE q # p
    <3>1. th'[q] = th[q]
      BY <1>4, <2>5, Zenon
    <3>2. /\ th[q].pc = "idle" => th[q] = Idle
          /\ th[q].pc # "idle" => th[q].i \in Buf /\ th[q].b \in Block /\ buf[th[q].i].b = th[q].b
          /\ Busy(q) <=> th[q].d # NULL
          /\ th[q].write => th[q].pc \in {"rw", "sleep_free", "sleep_buf", "rw_done"}
      BY <1>0, Zenon DEF Threads
    <3>3. Busy(q)' <=> Busy(q)
      BY <3>1, Zenon DEF Busy
    <3> QED
      BY <2>2, <3>1, <3>2, <3>3, Zenon
  <2> QED
    BY <2>4, <2>5, Zenon
<1>10. Locks'
  <2>1. \A q \in Proc : /\ th'[q].i = th[q].i /\ (Holds(q)' <=> Holds(q))
                        /\ Holds(q) => (Knows(q)' <=> Knows(q))
    BY <1>i, <1>1, <1>4, Zenon DEF Holds, Locked, Knows
  <2> QED
    BY <1>0, <1>5, <2>1, LocksFrame, Zenon
<1>11. \A q \in Proc : th'[q].i = th[q].i /\ th'[q].b = th[q].b
  BY <1>i, <1>4, Zenon
<1>12. Counts'
  BY <1>0, <1>1, <1>5, <1>11, CountsFrame, Zenon
<1>13. Clean'
  <2>1. \A q \in Proc : /\ Dirty(q) => Dirty(q)'
                        /\ th'[q].pc = "written" => th[q].pc = "written"
    BY <1>1, <1>4, Zenon DEF Dirty
  <2> QED
    BY <1>0, <1>1, <1>5, <1>11, <2>1, CleanFrame, Zenon
<1>14. DriverType'
  <2>1. desc' \in [Desc -> Desc \cup {NULL}]
    BY <1>0, <1>2, ZenonT(30) DEF DriverInv, DriverType
  <2>2. req' \in [Desc -> [write : BOOLEAN, sector : Block \cup {NULL}, i : Buf \cup {NULL},
                           status : {"none", "ok"}]]
    BY <1>0, <1>1, <1>2, Zenon DEF DriverInv, DriverType, ThreadType
  <2>3. avail' \in Ring
    BY <1>0, <1>2, RingPut, ZenonT(30) DEF DriverInv, DriverType, Rings, Ring
  <2> QED
    BY <1>0, <1>1, <1>2, <1>3, <2>1, <2>2, <2>3, Zenon DEF DriverInv, DriverType, Ring
<1>15. \A q \in Proc : Busy(q)' <=> Busy(q) \/ q = p
  BY <1>4, Zenon DEF Busy
<1>16. ASSUME NEW q \in Proc, Busy(q)
       PROVE  /\ th[q].d \notin {x, y, z} /\ desc[th[q].d] \notin {x, y, z} /\ desc[desc[th[q].d]] \notin {x, y, z}
              /\ desc'[th[q].d] = desc[th[q].d] /\ desc'[desc[th[q].d]] = desc[desc[th[q].d]]
              /\ Freed(th[q].d)' = Freed(th[q].d) /\ Freed(th[q].d) \cap {x, y, z} = {}
              /\ th'[q] = th[q] /\ th[q].d \in Desc /\ desc[th[q].d] \in Desc
  <2>1. th'[q] = th[q]
    BY <1>4, <1>8, <1>16, Zenon
  <2>2. /\ th[q].d \in Desc /\ desc[th[q].d] \in Desc /\ desc[desc[th[q].d]] \in Desc
        /\ th[q].d \notin {x, y, z} /\ desc[th[q].d] \notin {x, y, z} /\ desc[desc[th[q].d]] \notin {x, y, z}
    BY <1>0, <1>16, Zenon DEF DriverInv, Chains
  <2>3. desc'[th[q].d] = desc[th[q].d] /\ desc'[desc[th[q].d]] = desc[desc[th[q].d]]
    BY <1>0, <2>2, Zenon DEF DriverInv, DriverType
  <2>4. Freed(th[q].d) = {th[q].d, desc[th[q].d], desc[desc[th[q].d]]}
    BY <1>0, <1>16, Heads, Zenon
  <2>5. Freed(th[q].d)' = {th[q].d, desc[th[q].d], desc[desc[th[q].d]]}
    BY <1>2, <2>1, <2>2, <2>3, Zenon DEF Freed, Chain
  <2> QED
    BY <2>1, <2>2, <2>3, <2>4, <2>5, Zenon
<1>17. desc'[x] = y /\ desc'[y] = z /\ Freed(th[p].d)' = {x, y, z}
  <2>1. desc'[x] = y /\ desc'[y] = z
    BY <1>0, <1>2, Zenon DEF DriverInv, DriverType
  <2> QED
    <3>1. th'[p].d = x /\ x # NULL /\ y # NULL /\ z # NULL
      BY <1>2, <1>4, Zenon
    <3> QED
      BY <2>1, <3>1, Zenon DEF Freed, Chain
<1>18. Chains'
  <2>1. Cardinality(free') + 3 * Cardinality(Requesters') = NUM
    <3>1. IsFiniteSet(free) /\ Cardinality(free) \in Nat
      BY <1>0, FreeFinite, Zenon DEF DriverInv
    <3>2. IsFiniteSet(free \ {x}) /\ Cardinality(free \ {x}) = Cardinality(free) - 1
      BY <3>1, Zenon DEF FiniteFacts, RemoveFact
    <3>3. /\ IsFiniteSet((free \ {x}) \ {y})
          /\ Cardinality((free \ {x}) \ {y}) = Cardinality(free \ {x}) - 1
      BY <3>2, Zenon DEF FiniteFacts, RemoveFact
    <3>4. Cardinality(((free \ {x}) \ {y}) \ {z}) = Cardinality((free \ {x}) \ {y}) - 1
      <4>1. z \in (free \ {x}) \ {y}
        OBVIOUS
      <4> QED
        BY <3>3, <4>1, Zenon DEF FiniteFacts, RemoveFact
    <3>5. free' = ((free \ {x}) \ {y}) \ {z}
      OBVIOUS
    <3>6. Requesters' = Requesters \cup {p} /\ p \notin Requesters /\ Requesters \in SUBSET Proc
      BY <1>1, <1>15, Zenon DEF Requesters
    <3>7. Cardinality(Requesters') = Cardinality(Requesters) + 1 /\ Cardinality(Requesters) \in Nat
      BY <3>6, DiskAssumption, Zenon DEF FiniteFacts, SubsetFact, CardFact, AddFact
    <3>8. Cardinality(free) + 3 * Cardinality(Requesters) = NUM
      BY <1>0, Zenon DEF DriverInv, Chains
    <3>9. Cardinality(free') = Cardinality(free) - 3
      <4>1. Cardinality(free') = Cardinality(((free \ {x}) \ {y}) \ {z})
        BY <3>5, ZenonT(30)
      <4>2. ASSUME NEW c \in Nat, NEW c1, NEW c2, NEW c3, c1 = c - 1, c2 = c1 - 1, c3 = c2 - 1
            PROVE  c3 = c - 3
        BY <4>2
      <4> QED
        BY <3>1, <3>2, <3>3, <3>4, <4>1, <4>2, Zenon
    <3> QED
      BY <3>1, <3>7, <3>8, <3>9
  <2>2. \A q \in Proc : Busy(q)' =>
          /\ th'[q].d \in Desc /\ desc'[th'[q].d] \in Desc /\ desc'[desc'[th'[q].d]] \in Desc
          /\ th'[q].d # desc'[th'[q].d] /\ th'[q].d # desc'[desc'[th'[q].d]]
          /\ desc'[th'[q].d] # desc'[desc'[th'[q].d]]
          /\ th'[q].d \notin free' /\ desc'[th'[q].d] \notin free' /\ desc'[desc'[th'[q].d]] \notin free'
    <3> SUFFICES ASSUME NEW q \in Proc, Busy(q)'
                 PROVE  /\ th'[q].d \in Desc /\ desc'[th'[q].d] \in Desc /\ desc'[desc'[th'[q].d]] \in Desc
                        /\ th'[q].d # desc'[th'[q].d] /\ th'[q].d # desc'[desc'[th'[q].d]]
                        /\ desc'[th'[q].d] # desc'[desc'[th'[q].d]]
                        /\ th'[q].d \notin free' /\ desc'[th'[q].d] \notin free' /\ desc'[desc'[th'[q].d]] \notin free'
      BY Zenon
    <3>1. CASE q = p
      BY <1>2, <1>4, <1>17, <3>1
    <3>2. CASE q # p
      <4>1. Busy(q)
        BY <1>15, <3>2, Zenon
      <4>2. /\ th[q].d # desc[th[q].d] /\ th[q].d # desc[desc[th[q].d]] /\ desc[th[q].d] # desc[desc[th[q].d]]
            /\ th[q].d \notin free /\ desc[th[q].d] \notin free /\ desc[desc[th[q].d]] \notin free
            /\ desc[desc[th[q].d]] \in Desc
        BY <1>0, <4>1, Zenon DEF DriverInv, Chains
      <4>3. /\ th'[q] = th[q] /\ th[q].d \in Desc /\ desc[th[q].d] \in Desc
            /\ desc'[th[q].d] = desc[th[q].d] /\ desc'[desc[th[q].d]] = desc[desc[th[q].d]]
        BY <1>16, <4>1, Zenon
      <4>4. /\ th'[q].d = th[q].d /\ desc'[th'[q].d] = desc[th[q].d]
            /\ desc'[desc'[th'[q].d]] = desc[desc[th[q].d]]
        BY <4>3, Zenon
      <4>5. \A e : e \notin free => e \notin free'
        OBVIOUS
      <4> QED
        BY <4>2, <4>3, <4>4, <4>5, Zenon
    <3> QED
      BY <3>1, <3>2, Zenon
  <2>3. \A q, r \in Proc : Busy(q)' /\ Busy(r)' /\ q # r => Freed(th[q].d)' \cap Freed(th[r].d)' = {}
    <3> SUFFICES ASSUME NEW q \in Proc, NEW r \in Proc, Busy(q)', Busy(r)', q # r
                 PROVE  Freed(th[q].d)' \cap Freed(th[r].d)' = {}
      BY Zenon
    <3>1. CASE q = p
      <4>1. Busy(r)
        BY <1>15, <3>1, Zenon
      <4>2. Freed(th[r].d)' \cap {x, y, z} = {}
        BY <1>16, <4>1, Zenon
      <4>3. Freed(th[q].d)' = {x, y, z}
        BY <1>17, <3>1, Zenon
      <4> QED
        BY <4>2, <4>3, Zenon
    <3>2. CASE r = p
      <4>1. Busy(q)
        BY <1>15, <3>2, Zenon
      <4>2. Freed(th[q].d)' \cap {x, y, z} = {}
        BY <1>16, <4>1, Zenon
      <4>3. Freed(th[r].d)' = {x, y, z}
        BY <1>17, <3>2, Zenon
      <4> QED
        BY <4>2, <4>3, Zenon
    <3>3. CASE q # p /\ r # p
      <4>1. Busy(q) /\ Busy(r)
        BY <1>15, <3>3, Zenon
      <4>2. Freed(th[q].d) \cap Freed(th[r].d) = {}
        BY <1>0, <4>1, Zenon DEF DriverInv, Chains
      <4> QED
        BY <1>16, <4>1, <4>2, Zenon
    <3> QED
      BY <3>1, <3>2, <3>3, Zenon
  <2> QED
    BY <1>3, <2>1, <2>2, <2>3, Zenon DEF Chains
<1>19. Requests'
  <2>1. req'[x] = [write |-> th[p].write, sector |-> th[p].b, i |-> i, status |-> "none"]
    BY <1>0, <1>i, <1>2, Zenon DEF DriverInv, DriverType
  <2>2. \A q \in Proc : Busy(q) => req'[th[q].d] = req[th[q].d]
    BY <1>0, <1>16, ZenonT(30) DEF DriverInv, DriverType
  <2> SUFFICES ASSUME NEW q \in Proc, Busy(q)'
               PROVE  LET t == th'[q]
                          r == req'[t.d]
                      IN  /\ r.write = t.write /\ r.sector = t.b /\ r.i = t.i
                          /\ r.status = "ok" => buf'[t.i].data = blk'[t.b]
                          /\ ~buf'[t.i].disk => r.status = "ok"
                          /\ t.pc = "rw_done" => ~buf'[t.i].disk
    BY Zenon DEF Requests
  <2>3. CASE q = p
    BY <1>4, <1>5, <2>1, <2>3
  <2>4. CASE q # p
    <3>1. Busy(q)
      BY <1>15, <2>4, Zenon
    <3>2. /\ th'[q] = th[q] /\ req'[th[q].d] = req[th[q].d]
          /\ buf'[th[q].i].data = buf[th[q].i].data /\ buf'[th[q].i].disk = buf[th[q].i].disk
      BY <1>5, <1>8, <1>16, <2>2, <3>1, Zenon
    <3>3. /\ req[th[q].d].write = th[q].write /\ req[th[q].d].sector = th[q].b /\ req[th[q].d].i = th[q].i
          /\ req[th[q].d].status = "ok" => buf[th[q].i].data = blk[th[q].b]
          /\ ~buf[th[q].i].disk => req[th[q].d].status = "ok"
          /\ th[q].pc = "rw_done" => ~buf[th[q].i].disk
      BY <1>0, <3>1, Zenon DEF DriverInv, Requests
    <3>4. req'[th'[q].d] = req[th[q].d] /\ blk' = blk
      BY <1>1, <3>2, Zenon
    <3> QED
      BY <3>2, <3>3, <3>4, Zenon
  <2> QED
    BY <2>3, <2>4, Zenon
<1>20. \A e, s : Open(e, s) => Open(e, s)' /\ e \in Desc /\ e \notin free
  <2> SUFFICES ASSUME NEW e, NEW s, Open(e, s) PROVE Open(e, s)' /\ e \in Desc /\ e \notin free
    OBVIOUS
  <2>1. PICK q \in Proc : Busy(q) /\ th[q].d = e /\ buf[th[q].i].disk /\ req[e].status = s
    BY Zenon DEF Open
  <2>2. e \in Desc /\ e \notin free
    BY <1>0, <2>1, Zenon DEF DriverInv, Chains
  <2>3. req'[e] = req[e]
    BY <1>0, <2>2, Zenon DEF DriverInv, DriverType
  <2> QED
    <3>1. Busy(q)' /\ th'[q] = th[q]
      BY <1>15, <1>16, <2>1, Zenon
    <3>2. buf'[th[q].i].disk = buf[th[q].i].disk
      BY <1>5, <1>8, <2>1, Zenon
    <3>3. th'[q].d = e /\ buf'[th'[q].i].disk /\ req'[e].status = s
      BY <2>1, <2>3, <3>1, <3>2, Zenon
    <3> QED
      BY <2>2, <3>1, <3>3, Zenon DEF Open
<1>21. PICK n \in 0..(NUM - 1) : Filled(avail, n)
  BY <1>0, Zenon DEF DriverInv, Rings
<1>22. /\ avail \in Ring /\ avail' \in Ring /\ Slot(avail.idx) \in Desc /\ avail.ring[Slot(avail.idx)] = NULL
       /\ Filled(avail', n + 1)
  <2>1. avail \in Ring /\ DriverType
    BY <1>0, Zenon DEF DriverInv, DriverType, Ring
  <2> QED
    BY <1>2, <1>21, <2>1, RingEnds, RingPut, Zenon
<1>23. /\ avail'.ring[Slot(avail.idx)] = x
       /\ \A s \in Desc : s # Slot(avail.idx) => avail'.ring[s] = avail.ring[s]
  BY <1>22, Zenon DEF Ring
<1>24. Places'
  <2>1. Open(x, "none")'
    <3>1. req'[x].status = "none"
      BY <1>0, <1>2, Zenon DEF DriverInv, DriverType
    <3> QED
      BY <1>4, <1>5, <1>15, <3>1, Zenon DEF Open
  <2>2. x \notin inflight
    BY <1>0, <1>20, Zenon DEF DriverInv, Places
  <2>3. \A s \in Desc : avail.ring[s] # NULL => avail.ring[s] # x
    BY <1>0, <1>20, Zenon DEF DriverInv, Places
  <2>4. \A s \in Desc : avail'.ring[s] # NULL => Open(avail.ring[s], "none")' /\ avail'.ring[s] \notin inflight'
    BY <1>0, <1>1, <1>20, <1>23, <2>1, <2>2, SMTT(40) DEF DriverInv, Places
  <2>5. \A s, u \in Desc : avail'.ring[s] # NULL /\ avail'.ring[s] = avail'.ring[u] => s = u
    BY <1>0, <1>2, <1>23, <2>3 DEF DriverInv, Places
  <2>6. \A s \in Desc : used'.ring[s] # NULL => Open(used.ring[s], "ok")'
    BY <1>0, <1>20, Zenon DEF DriverInv, Places
  <2>7. \A e \in inflight' : Open(e, "none")'
    BY <1>0, <1>1, <1>20, Zenon DEF DriverInv, Places
  <2> QED
    BY <1>0, <1>3, <2>4, <2>5, <2>6, <2>7, Zenon DEF DriverInv, Places
<1>25. Rings'
  <2>1. \E s \in Desc : avail'.ring[s] = NULL
    <3>1. \A s \in Desc : avail'.ring[s] # y
      BY <1>0, <1>2, <1>20, <1>23 DEF DriverInv, Places
    <3>2. \A s, u \in Desc : avail'.ring[s] # NULL /\ avail'.ring[s] = avail'.ring[u] => s = u
      BY <1>3, <1>24, Zenon DEF Places
    <3>3. avail'.ring \in [Desc -> Desc \cup {NULL}] /\ DriverType
      BY <1>0, <1>22, Zenon DEF Ring, DriverInv
    <3> QED
      BY <1>2, <3>1, <3>2, <3>3, NotFull, Zenon
  <2>2. n + 1 \in 0..(NUM - 1)
    BY <1>0, <1>22, <2>1, NotAll, Zenon DEF DriverInv
  <2>3. Filled(avail, n + 1)'
    BY <1>3, <1>22, Zenon DEF Filled, Slot
  <2>4. \E m \in 0..(NUM - 1) : Filled(used, m)'
    BY <1>0, <1>3, Zenon DEF DriverInv, Rings, Filled, Slot
  <2> QED
    BY <1>3, <2>2, <2>3, <2>4, Zenon DEF Rings
<1>26. NoLostWakeup'
  <2>1. Cardinality(free') <= Cardinality(free) /\ Cardinality(free) \in Nat /\ Cardinality(free') \in Nat
    <3>1. IsFiniteSet(free) /\ free' \in SUBSET free
      BY <1>0, FreeFinite, Zenon DEF DriverInv
    <3>2. IsFiniteSet(free') /\ Cardinality(free') <= Cardinality(free)
      BY <3>1, Zenon DEF FiniteFacts, SubsetFact
    <3> QED
      BY <3>1, <3>2, Zenon DEF FiniteFacts, CardFact
  <2> SUFFICES ASSUME NEW q \in Proc
               PROVE  /\ th'[q].pc = "sleep_lock" => buf'[th'[q].i].lock # NULL
                      /\ th'[q].pc = "sleep_free" => Cardinality(free') < 3
                      /\ th'[q].pc = "sleep_buf" => buf'[th'[q].i].disk
    BY Zenon DEF NoLostWakeup
  <2>2. CASE q = p
    BY <1>4, <1>5, <2>2, Zenon
  <2>3. CASE q # p
    <3>1. th'[q] = th[q]
      BY <1>4, <2>3, Zenon
    <3>2. CASE th[q].pc = "sleep_lock"
      <4>1. th[q].i \in Buf
        BY <1>0, <3>2, Zenon DEF Threads
      <4>2. buf[th[q].i].lock # NULL /\ buf'[th[q].i].lock = buf[th[q].i].lock
        BY <1>0, <1>5, <3>2, <4>1, Zenon DEF NoLostWakeup
      <4> QED
        BY <3>1, <3>2, <4>2, Zenon
    <3>3. CASE th[q].pc = "sleep_free"
      <4>1. Cardinality(free) < 3
        BY <1>0, <3>3, Zenon DEF NoLostWakeup
      <4>2. Cardinality(free') < 3
        BY <2>1, <4>1
      <4> QED
        BY <3>1, <3>3, <4>2, ZenonT(30)
    <3>4. CASE th[q].pc = "sleep_buf"
      <4>1. th[q].i \in Buf /\ th[q].i # i
        BY <1>8, <3>4, Zenon DEF Busy
      <4> QED
        BY <1>0, <1>5, <3>1, <3>4, <4>1, SMTT(40) DEF NoLostWakeup
    <3> QED
      BY <3>1, <3>2, <3>3, <3>4, Zenon
  <2> QED
    BY <2>2, <2>3, Zenon
<1> QED
  BY <1>5, <1>7, <1>9, <1>10, <1>12, <1>13, <1>14, <1>18, <1>19, <1>24, <1>25, <1>26, Zenon
  DEF DiskInv, DriverInv
=============================================================================
