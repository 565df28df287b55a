----------------------------- MODULE DiskTheorems ----------------------------
(***************************************************************************)
(* One lemma for each action of the end of a request, of the interrupt     *)
(* handler and of the device, and the theorems about Disk: buffers and     *)
(* descriptors are exact, nobody sleeps in vain, and cache, driver and     *)
(* device are a store of blocks.                                           *)
(***************************************************************************)
EXTENDS DiskSteps

(* The interrupt has come and the request is done: its descriptors are     *)
(* free again.                                                             *)
LEMMA RwDoneInv ==
  ASSUME FiniteFacts, DiskInv, NEW p \in Proc, virtio_disk_rw_done(p)
  PROVE  DiskInv'
<1>0. CacheType /\ ThreadType /\ Threads /\ Locks /\ Counts /\ Clean /\ DriverInv /\ NoLostWakeup
  BY Zenon DEF DiskInv
<1>a. th[p].pc = "rw_done" /\ Busy(p) /\ th[p].i \in Buf /\ th[p].d \in Desc
  BY <1>0, Zenon DEF virtio_disk_rw_done, Threads, Busy, DriverInv, Chains
<1>i. PICK i \in Buf : i = th[p].i
  BY <1>a, Zenon
<1>d. PICK d \in Desc : d = th[p].d
  BY <1>a, Zenon
<1>y. PICK y, z : y = desc[d] /\ z = desc[desc[d]]
  OBVIOUS
<1>1. /\ th[p].b \in Block /\ buf[i].b = th[p].b
      /\ ~buf[i].disk /\ buf[i].data = blk[th[p].b]
  BY <1>0, <1>a, <1>i, Zenon DEF Threads, DriverInv, Requests
<1>2. /\ lru' = lru /\ pinned' = pinned /\ avail' = avail /\ used' = used
      /\ blk' = blk /\ inflight' = inflight /\ isr' = isr /\ handler' = handler
      /\ req' = [req EXCEPT ![d] = NoReq]
      /\ free' = free \cup Freed(d)
      /\ desc' = [e \in Desc |-> IF e \in Freed(d) THEN NULL ELSE desc[e]]
      /\ buf' = (IF th[p].write THEN buf ELSE [buf EXCEPT ![i].valid = TRUE])
  BY <1>i, <1>d, <1>y, <1>1, Zenon DEF virtio_disk_rw_done, devvars
<1>3. PICK T \in [Proc -> ThreadRec], pc \in {"written", "held"} :
        /\ th' = [T EXCEPT ![p].pc = pc, ![p].d = NULL, ![p].write = FALSE]
        /\ pc = (IF th[p].write THEN "written" ELSE "held")
        /\ \A q \in Proc :
             /\ T[q].b = th[q].b /\ T[q].i = th[q].i /\ T[q].d = th[q].d /\ T[q].write = th[q].write
             /\ th[q].pc = "sleep_free" => T[q].pc = "rw"
             /\ th[q].pc # "sleep_free" => T[q] = th[q]
  <2>1. "rw" \in Locked
    BY Zenon DEF Locked
  <2>2. th' = [FreeWakes(th) EXCEPT ![p].pc = IF th[p].write THEN "written" ELSE "held",
                                    ![p].d = NULL, ![p].write = FALSE]
    BY <1>i, <1>1, Zenon DEF virtio_disk_rw_done
  <2>3. /\ FreeWakes(th) \in [Proc -> ThreadRec]
        /\ \A q \in Proc :
             LET t == FreeWakes(th)[q]
             IN  /\ t.b = th[q].b /\ t.i = th[q].i /\ t.d = th[q].d /\ t.write = th[q].write
                 /\ q \in {r \in Proc : th[r].pc = "sleep_free"} => t.pc = "rw"
                 /\ q \notin {r \in Proc : th[r].pc = "sleep_free"} => t = th[q]
    BY <1>0, <2>1, Woken, SMTT(40) DEF FreeWakes
  <2> QED
    BY <2>2, <2>3, Zenon
<1>4. /\ d \in Desc /\ y \in Desc /\ z \in Desc /\ d # y /\ d # z /\ y # z
      /\ d \notin free /\ y \notin free /\ z \notin free
      /\ Freed(d) = {d, y, z}
  <2>1. Freed(th[p].d) = {th[p].d, desc[th[p].d], desc[desc[th[p].d]]}
    BY <1>0, <1>a, Heads, Zenon
  <2> QED
    BY <1>0, <1>a, <1>d, <1>y, <2>1, Zenon DEF DriverInv, Chains
<1>5. /\ th'[p].pc = (IF th[p].write THEN "written" ELSE "held")
      /\ th'[p].b = th[p].b /\ th'[p].i = i /\ th'[p].d = NULL /\ ~th'[p].write
      /\ \A q \in Proc : q # p =>
           \/ th'[q] = th[q] /\ th[q].pc # "sleep_free"
           \/ /\ th[q].pc = "sleep_free" /\ th'[q].pc = "rw" /\ th'[q].b = th[q].b
              /\ th'[q].i = th[q].i /\ th'[q].d = th[q].d /\ th'[q].write = th[q].write
  BY <1>a, <1>i, <1>3 DEF ThreadRec
<1>6. /\ \A j \in Buf : /\ buf'[j].b = buf[j].b /\ buf'[j].disk = buf[j].disk
                        /\ buf'[j].lock = buf[j].lock /\ buf'[j].data = buf[j].data
                        /\ buf'[j].refcnt = buf[j].refcnt
                        /\ j # i => buf'[j].valid = buf[j].valid
      /\ buf'[i].valid
  <2>1. CASE th[p].write
    <3>1. buf[i].valid /\ buf' = buf
      BY <1>0, <1>a, <1>i, <1>2, <2>1, Zenon DEF Locks, Holds, Locked
    <3> QED
      BY <3>1, Zenon
  <2>2. CASE ~th[p].write
    BY <1>0, <1>2, <2>2, ZenonT(30) DEF CacheType
  <2> QED
    BY <2>1, <2>2, Zenon
<1>7. CacheType'
  <2>1. CASE th[p].write
    BY <1>0, <1>2, <2>1, Zenon DEF CacheType
  <2>2. CASE ~th[p].write
    <3> DEFINE R == [b : Block \cup {NULL}, valid : BOOLEAN, disk : BOOLEAN,
                     lock : Proc \cup {NULL}, refcnt : Nat, data : Val \cup {NULL}]
    <3>1. ASSUME NEW r \in R PROVE [r EXCEPT !.valid = TRUE] \in R
      BY Zenon
    <3>2. buf \in [Buf -> R]
      BY <1>0, Zenon DEF CacheType
    <3> HIDE DEF R
    <3>3. buf[i] \in R
      BY <3>2, Zenon
    <3>4. [buf[i] EXCEPT !.valid = TRUE] \in R
      BY <3>1, <3>3, Zenon
    <3>5. buf' = [buf EXCEPT ![i] = [buf[i] EXCEPT !.valid = TRUE]]
      BY <1>2, <2>2, Zenon
    <3>6. buf' \in [Buf -> R]
      BY <3>2, <3>4, <3>5, Zenon
    <3> QED
      BY <1>0, <1>2, <3>6, Zenon DEF CacheType, R
  <2> QED
    BY <2>1, <2>2, Zenon
<1>8. Desc' = Desc /\ NUM' = NUM /\ IDX' = IDX
  <2>1. DOMAIN desc' = DOMAIN desc
    BY <1>2, Zenon DEF Desc
  <2> QED
    BY <2>1, SameNum, Zenon
<1>9. ThreadType'
  <2>1. ASSUME NEW r \in ThreadRec
        PROVE  [r EXCEPT !.pc = pc, !.d = NULL, !.write = FALSE] \in ThreadRec
    <3>1. pc \in Locked \cup {"idle", "acquiresleep", "sleep_lock", "brelse"}
      BY <1>3, Zenon DEF Locked
    <3> QED
      BY <3>1, Zenon DEF ThreadRec
  <2>2. T[p] \in ThreadRec
    BY <1>3, Zenon
  <2>3. [T[p] EXCEPT !.pc = pc, !.d = NULL, !.write = FALSE] \in ThreadRec
    BY <2>1, <2>2, Zenon
  <2>4. th' = [T EXCEPT ![p] = [T[p] EXCEPT !.pc = pc, !.d = NULL, !.write = FALSE]]
    BY <1>3, Zenon
  <2>5. th' \in [Proc -> ThreadRec]
    BY <1>3, <2>3, <2>4
  <2> QED
    BY <1>8, <2>5, Zenon DEF ThreadType, ThreadRec
<1>10. \A q \in Proc : q # p /\ Holds(q) => th[q].i # i /\ th[q].i \in Buf
  <2>1. Holds(p)
    BY <1>a, Zenon DEF Holds, Locked
  <2> QED
    BY <1>0, <1>i, <2>1, OneHolder, Zenon DEF Holds, Locked, Threads
<1>11. NULL \notin Desc
  BY <1>0, DiskAssumption, SMTT(40) DEF DriverInv, DriverType
<1>12. Threads'
  <2>1. \A j \in Buf : buf'[j].b = buf[j].b
    BY <1>6, Zenon
  <2> SUFFICES ASSUME NEW q \in Proc
               PROVE  /\ th'[q].pc = "idle" => th'[q] = Idle
                      /\ th'[q].pc # "idle" => /\ th'[q].i \in Buf /\ th'[q].b \in Block
                                               /\ buf'[th'[q].i].b = th'[q].b
                      /\ Busy(q)' <=> th'[q].d # NULL
                      /\ th'[q].write => th'[q].pc \in {"rw", "sleep_free", "sleep_buf", "rw_done"}
    BY Zenon DEF Threads
  <2>2. CASE q = p
    BY <1>1, <1>5, <2>1, <2>2, Zenon DEF Busy
  <2>3. CASE th'[q] = th[q] /\ q # p
    BY <1>0, <2>1, <2>3, SMTT(40) DEF Threads, Busy
  <2>4. CASE /\ th[q].pc = "sleep_free" /\ th'[q].pc = "rw" /\ th'[q].b = th[q].b
             /\ th'[q].i = th[q].i /\ th'[q].d = th[q].d /\ th'[q].write = th[q].write
    <3>1. th[q].i \in Buf /\ th[q].b \in Block /\ buf[th[q].i].b = th[q].b /\ th[q].d = NULL
      BY <1>0, <2>4, Zenon DEF Threads, Busy
    <3> QED
      BY <2>1, <2>4, <3>1, Zenon DEF Busy
  <2> QED
    BY <1>5, <2>2, <2>3, <2>4, Zenon
<1>13. Locks'
  <2>1. \A q \in Proc : th'[q].i = th[q].i /\ (Holds(q)' <=> Holds(q))
    BY <1>a, <1>i, <1>5, Zenon DEF Holds, Locked
  <2>2. \A q \in Proc : q # p => (Knows(q)' <=> Knows(q))
    BY <1>5, Zenon DEF Knows
  <2>3. Knows(p)'
    BY <1>5, Zenon DEF Knows
  <2>4. \A q \in Proc : Holds(q)' => buf'[th'[q].i].lock = q /\ (buf'[th'[q].i].valid <=> Knows(q)')
    <3> SUFFICES ASSUME NEW q \in Proc, Holds(q)
                 PROVE  buf'[th[q].i].lock = q /\ (buf'[th[q].i].valid <=> Knows(q)')
      BY <2>1, Zenon
    <3>1. th[q].i \in Buf /\ buf[th[q].i].lock = q /\ (buf[th[q].i].valid <=> Knows(q))
      BY <1>0, Zenon DEF Threads, Locks, Holds, Locked, Knows
    <3>2. CASE q = p
      BY <1>i, <1>6, <2>3, <3>1, <3>2, Zenon
    <3>3. CASE q # p
      <4>1. th[q].i # i
        BY <1>10, <3>3, Zenon
      <4> QED
        BY <1>6, <2>2, <3>1, <3>3, <4>1, Zenon
    <3> QED
      BY <3>2, <3>3, Zenon
  <2>5. \A j \in Buf : buf'[j].lock # NULL => Holds(buf[j].lock)' /\ th'[buf'[j].lock].i = j
    <3> SUFFICES ASSUME NEW j \in Buf, buf'[j].lock # NULL
                 PROVE  Holds(buf[j].lock)' /\ th'[buf'[j].lock].i = j
      OBVIOUS
    <3>1. PICK q \in Proc : q = buf[j].lock /\ q = buf'[j].lock
      BY <1>0, <1>6, Zenon DEF CacheType
    <3>2. Holds(q) /\ th[q].i = j
      BY <1>0, <3>1, DiskAssumption, ZenonT(30) DEF Locks
    <3> QED
      BY <2>1, <3>1, <3>2, Zenon
  <2> QED
    BY <2>4, <2>5, Zenon DEF Locks, Knows
<1>14. \A q \in Proc : th'[q].i = th[q].i /\ th'[q].b = th[q].b
  BY <1>i, <1>5, Zenon
<1>15. Counts'
  BY <1>0, <1>2, <1>6, <1>14, CountsFrame, Zenon
<1>16. Clean'
  <2>1. \A j \in Buf : Users(j)' = Users(j)
    BY <1>14, Zenon DEF Users
  <2>2. \A j \in Buf : j # i => \A q \in Users(j) : Dirty(q)' = Dirty(q)
    BY <1>i, <1>5, Zenon DEF Users, Dirty
  <2>3. \A q \in Proc : th'[q].pc = "written" => buf'[th'[q].i].data = blk'[th'[q].b]
    <3> SUFFICES ASSUME NEW q \in Proc, th'[q].pc = "written"
                 PROVE  buf'[th'[q].i].data = blk'[th'[q].b]
      OBVIOUS
    <3>1. CASE q = p
      BY <1>1, <1>2, <1>5, <1>6, <3>1, Zenon
    <3>2. CASE q # p
      <4>1. th[q].pc = "written" /\ th'[q] = th[q]
        BY <1>5, <3>2, Zenon
      <4>2. th[q].i \in Buf /\ buf[th[q].i].data = blk[th[q].b]
        BY <1>0, <4>1, Zenon DEF Clean, Threads
      <4> QED
        BY <1>2, <1>6, <4>1, <4>2, SMTT(40)
    <3> QED
      BY <3>1, <3>2, Zenon
  <2> QED
    BY <1>0, <1>1, <1>2, <1>6, <2>1, <2>2, <2>3, SMTT(40) DEF Clean
<1>17. DriverType'
  <2>1. desc' \in [Desc -> Desc \cup {NULL}]
    BY <1>0, <1>2, Zenon DEF DriverInv, DriverType
  <2>2. req' \in [Desc -> [write : BOOLEAN, sector : Block \cup {NULL}, i : Buf \cup {NULL},
                           status : {"none", "ok"}]]
    BY <1>0, <1>2, <1>4, Zenon DEF DriverInv, DriverType, NoReq
  <2>3. free' \subseteq Desc
    BY <1>0, <1>2, <1>4, SMTT(40) DEF DriverInv, DriverType
  <2> QED
    BY <1>0, <1>2, <1>8, <2>1, <2>2, <2>3, Zenon DEF DriverInv, DriverType
<1>18. \A q \in Proc : Busy(q)' <=> Busy(q) /\ q # p
  BY <1>5, Zenon DEF Busy
<1>19. ASSUME NEW q \in Proc, Busy(q), q # p
       PROVE  /\ desc'[th[q].d] = desc[th[q].d] /\ desc'[desc[th[q].d]] = desc[desc[th[q].d]]
              /\ Freed(th[q].d)' = Freed(th[q].d) /\ Freed(th[q].d) \cap Freed(d) = {}
              /\ Freed(th[q].d) = {th[q].d, desc[th[q].d], desc[desc[th[q].d]]}
              /\ th'[q] = th[q] /\ th[q].d \in Desc /\ desc[th[q].d] \in Desc
  <2>1. th'[q] = th[q]
    BY <1>5, <1>19, Zenon DEF Busy
  <2>2. th[q].d \in Desc /\ desc[th[q].d] \in Desc /\ desc[desc[th[q].d]] \in Desc
    BY <1>0, <1>19, Zenon DEF DriverInv, Chains
  <2>3. Freed(th[q].d) = {th[q].d, desc[th[q].d], desc[desc[th[q].d]]}
    BY <1>0, <1>19, Heads, Zenon
  <2>4. Freed(th[q].d) \cap Freed(d) = {}
    BY <1>0, <1>a, <1>d, <1>y, <1>19, Zenon DEF DriverInv, Chains
  <2>5. desc'[th[q].d] = desc[th[q].d] /\ desc'[desc[th[q].d]] = desc[desc[th[q].d]]
    BY <1>2, <2>2, <2>3, <2>4, Zenon
  <2>6. Freed(th[q].d)' = {th[q].d, desc[th[q].d], desc[desc[th[q].d]]}
    BY <1>11, <2>1, <2>2, <2>5, Zenon DEF Freed, Chain
  <2> QED
    BY <2>1, <2>2, <2>3, <2>4, <2>5, <2>6, Zenon
<1>20. Chains'
  <2>1. Cardinality(free') + 3 * Cardinality(Requesters') = NUM
    <3>1. IsFiniteSet(free) /\ Cardinality(free) \in Nat
      BY <1>0, FreeFinite, Zenon DEF DriverInv
    <3>2. IsFiniteSet(free \cup {d}) /\ Cardinality(free \cup {d}) = Cardinality(free) + 1
      BY <1>4, <3>1, Zenon DEF FiniteFacts, AddFact
    <3>3. /\ IsFiniteSet((free \cup {d}) \cup {y})
          /\ Cardinality((free \cup {d}) \cup {y}) = Cardinality(free \cup {d}) + 1
      BY <1>4, <3>2, Zenon DEF FiniteFacts, AddFact
    <3>4. Cardinality(((free \cup {d}) \cup {y}) \cup {z}) = Cardinality((free \cup {d}) \cup {y}) + 1
      BY <1>4, <3>3, ZenonT(30) DEF FiniteFacts, AddFact
    <3>5. free' = ((free \cup {d}) \cup {y}) \cup {z}
      BY <1>2, <1>4, Zenon
    <3>6. Requesters' = Requesters \ {p} /\ p \in Requesters /\ Requesters \in SUBSET Proc
      BY <1>a, <1>18, Zenon DEF Requesters
    <3>7. Cardinality(Requesters') = Cardinality(Requesters) - 1 /\ Cardinality(Requesters) \in Nat
      BY <3>6, DiskAssumption, Zenon DEF FiniteFacts, SubsetFact, CardFact, RemoveFact
    <3>8. Cardinality(free) + 3 * Cardinality(Requesters) = NUM
      BY <1>0, Zenon DEF DriverInv, Chains
    <3>9. Cardinality(free') = Cardinality(free) + 3
      <4>1. Cardinality(free') = Cardinality(((free \cup {d}) \cup {y}) \cup {z})
        BY <3>5, Zenon
      <4>2. ASSUME NEW c \in Nat, NEW c1, NEW c2, NEW c3, c1 = c + 1, c2 = c1 + 1, c3 = c2 + 1
            PROVE  c3 = c + 3
        BY <4>2
      <4> QED
        BY <3>1, <3>2, <3>3, <3>4, <4>1, <4>2, Zenon
    <3> QED
      BY <3>1, <3>7, <3>8, <3>9, SMTT(40)
  <2>2. \A q \in Proc : Busy(q)' =>
          /\ th'[q].d \in Desc /\ desc'[th'[q].d] \in Desc /\ desc'[desc'[th'[q].d]] \in Desc
          /\ th'[q].d # desc'[th'[q].d] /\ th'[q].d # desc'[desc'[th'[q].d]]
          /\ desc'[th'[q].d] # desc'[desc'[th'[q].d]]
          /\ th'[q].d \notin free' /\ desc'[th'[q].d] \notin free' /\ desc'[desc'[th'[q].d]] \notin free'
    <3> SUFFICES ASSUME NEW q \in Proc, Busy(q)'
                 PROVE  /\ th'[q].d \in Desc /\ desc'[th'[q].d] \in Desc /\ desc'[desc'[th'[q].d]] \in Desc
                        /\ th'[q].d # desc'[th'[q].d] /\ th'[q].d # desc'[desc'[th'[q].d]]
                        /\ desc'[th'[q].d] # desc'[desc'[th'[q].d]]
                        /\ th'[q].d \notin free' /\ desc'[th'[q].d] \notin free' /\ desc'[desc'[th'[q].d]] \notin free'
      OBVIOUS
    <3>1. Busy(q) /\ q # p
      BY <1>18, Zenon
    <3>2. /\ th[q].d # desc[th[q].d] /\ th[q].d # desc[desc[th[q].d]] /\ desc[th[q].d] # desc[desc[th[q].d]]
          /\ th[q].d \notin free /\ desc[th[q].d] \notin free /\ desc[desc[th[q].d]] \notin free
          /\ desc[desc[th[q].d]] \in Desc
      BY <1>0, <3>1, Zenon DEF DriverInv, Chains
    <3>3. /\ th'[q].d = th[q].d /\ desc'[th'[q].d] = desc[th[q].d]
          /\ desc'[desc'[th'[q].d]] = desc[desc[th[q].d]]
          /\ th[q].d \in Desc /\ desc[th[q].d] \in Desc
      BY <1>19, <3>1, Zenon
    <3>4. /\ th[q].d \notin Freed(d) /\ desc[th[q].d] \notin Freed(d) /\ desc[desc[th[q].d]] \notin Freed(d)
      <4>1. /\ Freed(th[q].d) \cap Freed(d) = {}
            /\ Freed(th[q].d) = {th[q].d, desc[th[q].d], desc[desc[th[q].d]]}
        BY <1>19, <3>1, Zenon
      <4> QED
        BY <4>1, Zenon
    <3>5. \A e : e \notin free /\ e \notin Freed(d) => e \notin free'
      BY <1>2, Zenon
    <3> QED
      BY <3>2, <3>3, <3>4, <3>5, Zenon
  <2>3. \A q, r \in Proc : Busy(q)' /\ Busy(r)' /\ q # r => Freed(th[q].d)' \cap Freed(th[r].d)' = {}
    <3> SUFFICES ASSUME NEW q \in Proc, NEW r \in Proc, Busy(q)', Busy(r)', q # r
                 PROVE  Freed(th[q].d)' \cap Freed(th[r].d)' = {}
      OBVIOUS
    <3>1. Busy(q) /\ Busy(r) /\ q # p /\ r # p
      BY <1>18, Zenon
    <3>2. Freed(th[q].d) \cap Freed(th[r].d) = {}
      BY <1>0, <3>1, Zenon DEF DriverInv, Chains
    <3> QED
      BY <1>19, <3>1, <3>2, Zenon
  <2> QED
    BY <1>8, <2>1, <2>2, <2>3, Zenon DEF Chains
<1>21. \A q \in Proc : Busy(q) /\ q # p => req'[th[q].d] = req[th[q].d] /\ th[q].i \in Buf
  <2>1. \A q \in Proc : Busy(q) /\ q # p => th[q].d # d
    BY <1>0, <1>a, <1>d, <1>y, Heads, Zenon
  <2> QED
    BY <1>0, <1>2, <1>10, <1>19, <2>1, Zenon DEF DriverInv, DriverType, Busy, Holds, Locked
<1>22. Requests'
  <2> SUFFICES ASSUME NEW q \in Proc, Busy(q)'
               PROVE  LET t == th'[q]
                          r == req'[t.d]
                      IN  /\ r.write = t.write /\ r.sector = t.b /\ r.i = t.i
                          /\ r.status = "ok" => buf'[t.i].data = blk'[t.b]
                          /\ ~buf'[t.i].disk => r.status = "ok"
                          /\ t.pc = "rw_done" => ~buf'[t.i].disk
    BY Zenon DEF Requests
  <2>1. Busy(q) /\ q # p
    BY <1>18, Zenon
  <2>2. /\ th'[q] = th[q] /\ req'[th[q].d] = req[th[q].d] /\ blk' = blk
        /\ buf'[th[q].i].data = buf[th[q].i].data /\ buf'[th[q].i].disk = buf[th[q].i].disk
    BY <1>2, <1>6, <1>19, <1>21, <2>1, Zenon
  <2>3. /\ req[th[q].d].write = th[q].write /\ req[th[q].d].sector = th[q].b /\ req[th[q].d].i = th[q].i
        /\ req[th[q].d].status = "ok" => buf[th[q].i].data = blk[th[q].b]
        /\ ~buf[th[q].i].disk => req[th[q].d].status = "ok"
        /\ th[q].pc = "rw_done" => ~buf[th[q].i].disk
    BY <1>0, <2>1, Zenon DEF DriverInv, Requests
  <2>4. req'[th'[q].d] = req[th[q].d]
    BY <2>2, Zenon
  <2> QED
    BY <2>2, <2>3, <2>4, Zenon
<1>23. \A e, s : Open(e, s) => Open(e, s)'
  <2> SUFFICES ASSUME NEW e, NEW s, Open(e, s) PROVE Open(e, s)'
    OBVIOUS
  <2>1. PICK q \in Proc : Busy(q) /\ th[q].d = e /\ buf[th[q].i].disk /\ req[e].status = s
    BY Zenon DEF Open
  <2>2. q # p
    BY <1>i, <1>1, <2>1, Zenon
  <2>3. Busy(q)' /\ th'[q] = th[q] /\ req'[th[q].d] = req[th[q].d] /\ buf'[th[q].i].disk = buf[th[q].i].disk
    BY <1>6, <1>18, <1>19, <1>21, <2>1, <2>2, ZenonT(30)
  <2>4. th'[q].d = e /\ buf'[th'[q].i].disk /\ req'[e].status = s
    BY <2>1, <2>3, Zenon
  <2> QED
    BY <2>3, <2>4, Zenon DEF Open
<1>24. Places'
  BY <1>0, <1>2, <1>8, <1>23, Zenon DEF DriverInv, Places
<1>25. Rings'
  BY <1>0, <1>2, <1>8, Zenon DEF DriverInv, Rings, Filled, Slot
<1>26. NoLostWakeup'
  <2> SUFFICES ASSUME NEW q \in Proc
               PROVE  /\ th'[q].pc = "sleep_lock" => buf'[th'[q].i].lock # NULL
                      /\ th'[q].pc # "sleep_free"
                      /\ th'[q].pc = "sleep_buf" => buf'[th'[q].i].disk
    BY Zenon DEF NoLostWakeup
  <2>1. CASE th'[q].pc \notin {"sleep_lock", "sleep_free", "sleep_buf"}
    BY <2>1, Zenon
  <2>2. CASE th'[q] = th[q] /\ q # p /\ th[q].pc \in {"sleep_lock", "sleep_buf"}
    <3>1. th[q].i \in Buf
      BY <1>0, <2>2, Zenon DEF Threads
    <3>2. buf'[th[q].i].lock = buf[th[q].i].lock /\ buf'[th[q].i].disk = buf[th[q].i].disk
      BY <1>6, <3>1, Zenon
    <3> QED
      BY <1>0, <2>2, <3>2, Zenon DEF NoLostWakeup
  <2> QED
    BY <1>5, <2>1, <2>2, Zenon
<1> QED
  BY <1>7, <1>9, <1>12, <1>13, <1>15, <1>16, <1>17, <1>20, <1>22, <1>24, <1>25, <1>26, Zenon
  DEF DiskInv, DriverInv

(* The interrupt handler starts, or ends, or nothing happens. *)
LEMMA HandlerInv ==
  ASSUME DiskInv, UNCHANGED <<cvars, dvars, blk, inflight, th>>, isr' \in BOOLEAN, handler' \in BOOLEAN
  PROVE  DiskInv'
<1>0. CacheType /\ ThreadType /\ Threads /\ Locks /\ Counts /\ Clean /\ DriverInv /\ NoLostWakeup
  BY Zenon DEF DiskInv
<1>1. /\ buf' = buf /\ lru' = lru /\ pinned' = pinned /\ th' = th
      /\ free' = free /\ desc' = desc /\ req' = req /\ avail' = avail /\ used' = used
      /\ blk' = blk /\ inflight' = inflight /\ isr' \in BOOLEAN /\ handler' \in BOOLEAN
  BY Zenon DEF cvars, dvars
<1>2. Desc' = Desc /\ NUM' = NUM /\ IDX' = IDX
  BY <1>1, SameNum, Zenon
<1>3. CacheType' /\ ThreadType'
  BY <1>0, <1>1, <1>2, Zenon DEF CacheType, ThreadType
<1>4. Threads' /\ Locks'
  BY <1>0, <1>1 DEF Threads, Locks, Busy, Holds
<1>5. Counts'
  BY <1>0, <1>1, CountsFrame, Zenon
<1>6. Clean'
  BY <1>0, <1>1 DEF Clean, Users, Dirty
<1>7. DriverType'
  BY <1>0, <1>1, <1>2, Zenon DEF DriverInv, DriverType
<1>8. DriverInv /\ (\A p \in Proc : Busy(p)' <=> Busy(p)) /\ Requesters' = Requesters
  BY <1>0, <1>1, Zenon DEF Busy, Requesters
<1>9. Chains' /\ Requests' /\ Places'
  <2>1. \A d : Freed(d)' = Freed(d)
    BY <1>1, Zenon DEF Freed, Chain
  <2>2. \A d, s : Open(d, s)' <=> Open(d, s)
    BY <1>1, <1>8, Zenon DEF Open
  <2>3. Chains'
    BY <1>1, <1>2, <1>8, <2>1, Zenon DEF DriverInv, Chains
  <2>4. Requests'
    BY <1>1, <1>8, Zenon DEF DriverInv, Requests
  <2>5. Places'
    BY <1>1, <1>2, <1>8, <2>2, Zenon DEF DriverInv, Places
  <2> QED
    BY <2>3, <2>4, <2>5, Zenon
<1>10. Rings'
  BY <1>0, <1>1, <1>2, Zenon DEF DriverInv, Rings, Filled, Slot
<1>11. NoLostWakeup'
  BY <1>0, <1>1, Zenon DEF NoLostWakeup
<1> QED
  BY <1>3, <1>4, <1>5, <1>6, <1>7, <1>8, <1>9, <1>10, <1>11, Zenon DEF DiskInv, DriverInv

(* The handler takes a completion and wakes the process that waits for it. *)
LEMMA IntrNextInv ==
  ASSUME DiskInv, intr_next
  PROVE  DiskInv'
<1> DEFINE k == Slot(used.seen)
           e == used.ring[k]
           i == req[e].i
<1>0. CacheType /\ ThreadType /\ Threads /\ Locks /\ Counts /\ Clean /\ DriverInv /\ NoLostWakeup
  BY Zenon DEF DiskInv
<1>1. /\ used.seen # used.idx /\ buf' = [buf EXCEPT ![i].disk = FALSE]
      /\ used' = [used EXCEPT !.seen = Inc(used.seen), !.ring[k] = NULL]
      /\ lru' = lru /\ pinned' = pinned /\ free' = free /\ desc' = desc /\ req' = req /\ avail' = avail
      /\ blk' = blk /\ inflight' = inflight /\ isr' = isr /\ handler' = handler
      /\ th' = [q \in Proc |-> IF th[q].pc = "sleep_buf" /\ th[q].i = i
                               THEN [th[q] EXCEPT !.pc = "rw_done"] ELSE th[q]]
  BY Zenon DEF intr_next, devvars, Wake
<1>2. PICK n \in 0..(NUM - 1) : Filled(used, n)
  BY <1>0, Zenon DEF DriverInv, Rings
<1>3. /\ used \in Ring /\ k \in Desc /\ e # NULL
      /\ used' \in Ring /\ n - 1 \in 0..(NUM - 1) /\ Filled(used', n - 1)
  <2>1. used \in Ring /\ DriverType
    BY <1>0, Zenon DEF DriverInv, DriverType, Ring
  <2> QED
    BY <1>1, <1>2, <2>1, RingEnds, RingTake, Zenon
<1>4. PICK p \in Proc : Busy(p) /\ th[p].d = e /\ buf[th[p].i].disk /\ req[e].status = "ok"
  BY <1>0, <1>3, Zenon DEF DriverInv, Places, Open
<1>5. /\ i = th[p].i /\ i \in Buf /\ th[p].pc = "sleep_buf"
  BY <1>0, <1>4, SMTT(40) DEF DriverInv, Requests, Threads, Busy
<1>6. \A q \in Proc : q # p /\ Holds(q) => th[q].i # i /\ th[q].i \in Buf
  BY <1>0, <1>4, <1>5, OneHolder, SMTT(40) DEF Busy, Holds, Locked, Threads
<1>7. /\ th'[p].pc = "rw_done" /\ th'[p].b = th[p].b /\ th'[p].i = i /\ th'[p].d = e
      /\ th'[p].write = th[p].write
      /\ \A q \in Proc : q # p => th'[q] = th[q]
  BY <1>0, <1>1, <1>4, <1>5, <1>6, SMTT(40) DEF ThreadType, Holds, Locked
<1>8. /\ \A j \in Buf : /\ buf'[j].b = buf[j].b /\ buf'[j].valid = buf[j].valid
                        /\ buf'[j].lock = buf[j].lock /\ buf'[j].data = buf[j].data
                        /\ buf'[j].refcnt = buf[j].refcnt
                        /\ j # i => buf'[j].disk = buf[j].disk
      /\ ~buf'[i].disk
  BY <1>0, <1>1, <1>5, Zenon DEF CacheType
<1>9. Desc' = Desc /\ NUM' = NUM /\ IDX' = IDX
  BY <1>1, SameNum, Zenon
<1>10. CacheType'
  BY <1>0, <1>1, <1>5, Zenon DEF CacheType
<1>11. ThreadType'
  <2>1. ASSUME NEW r \in ThreadRec
        PROVE  [r EXCEPT !.pc = "rw_done"] \in ThreadRec
    BY Zenon DEF ThreadRec, Locked
  <2>2. \A q \in Proc : th[q] \in ThreadRec
    BY <1>0, Zenon DEF ThreadType, ThreadRec
  <2>3. th' \in [Proc -> ThreadRec]
    BY <1>1, <2>1, <2>2, Zenon
  <2> QED
    BY <1>9, <2>3, Zenon DEF ThreadType, ThreadRec
<1>12. /\ used'.ring[k] = NULL /\ \A s \in Desc : s # k => used'.ring[s] = used.ring[s]
  BY <1>1, <1>3, Zenon DEF Ring
<1> HIDE DEF i, e, k
<1>13. Threads'
  BY <1>0, <1>4, <1>5, <1>7, <1>8 DEF Threads, Busy
<1>14. Locks'
  <2>1. \A q \in Proc : /\ th'[q].i = th[q].i /\ (Holds(q)' <=> Holds(q))
                        /\ Holds(q) => (Knows(q)' <=> Knows(q))
    BY <1>5, <1>7, Zenon DEF Holds, Locked, Knows
  <2> QED
    BY <1>0, <1>8, <2>1, LocksFrame, Zenon
<1>15. \A q \in Proc : th'[q].i = th[q].i /\ th'[q].b = th[q].b /\ th'[q].d = th[q].d
  BY <1>4, <1>5, <1>7, Zenon
<1>16. Counts'
  BY <1>0, <1>1, <1>8, <1>15, CountsFrame, Zenon
<1>17. Clean'
  <2>1. \A q \in Proc : /\ Dirty(q) => Dirty(q)'
                        /\ th'[q].pc = "written" => th[q].pc = "written"
    BY <1>5, <1>7, Zenon DEF Dirty
  <2> QED
    BY <1>0, <1>1, <1>8, <1>15, <2>1, CleanFrame, Zenon
<1>18. DriverType'
  BY <1>0, <1>1, <1>3, <1>9, Zenon DEF DriverInv, DriverType, Ring
<1>19. \A q \in Proc : Busy(q)' <=> Busy(q)
  BY <1>4, <1>7, Zenon DEF Busy
<1>20. Chains'
  <2>1. Requesters' = Requesters
    BY <1>19, Zenon DEF Requesters
  <2>2. \A q \in Proc : Freed(th[q].d)' = Freed(th[q].d)
    BY <1>1, <1>15, Zenon DEF Freed, Chain
  <2>3. Cardinality(free') + 3 * Cardinality(Requesters') = NUM'
    BY <1>0, <1>1, <1>9, <2>1, Zenon DEF DriverInv, Chains
  <2>4. \A q, r \in Proc : Busy(q)' /\ Busy(r)' /\ q # r => Freed(th[q].d)' \cap Freed(th[r].d)' = {}
    BY <1>0, <1>19, <2>2, Zenon DEF DriverInv, Chains
  <2>5. ASSUME NEW q \in Proc, Busy(q)'
        PROVE  /\ th'[q].d \in Desc' /\ desc'[th'[q].d] \in Desc' /\ desc'[desc'[th'[q].d]] \in Desc'
               /\ th'[q].d # desc'[th'[q].d] /\ th'[q].d # desc'[desc'[th'[q].d]]
               /\ desc'[th'[q].d] # desc'[desc'[th'[q].d]]
               /\ th'[q].d \notin free' /\ desc'[th'[q].d] \notin free' /\ desc'[desc'[th'[q].d]] \notin free'
    <3>1. Busy(q) /\ th'[q].d = th[q].d
      BY <1>15, <1>19, <2>5, Zenon
    <3> QED
      BY <1>0, <1>1, <1>9, <3>1 DEF DriverInv, Chains
  <2> QED
    BY <2>3, <2>4, <2>5, Zenon DEF Chains
<1>21. Requests'
  <2> SUFFICES ASSUME NEW q \in Proc, Busy(q)
               PROVE  LET t == th[q]
                          r == req[t.d]
                      IN  (/\ r.write = t.write /\ r.sector = t.b /\ r.i = t.i
                           /\ r.status = "ok" => buf[t.i].data = blk[t.b]
                           /\ ~buf[t.i].disk => r.status = "ok"
                           /\ t.pc = "rw_done" => ~buf[t.i].disk)'
    BY <1>19, Zenon DEF Requests
  <2>1. th[q].i \in Buf
    BY <1>0, Zenon DEF Threads, Busy
  <2>2. CASE q = p
    BY <1>0, <1>1, <1>4, <1>5, <1>7, <1>8, <2>2, SMTT(40) DEF DriverInv, Requests
  <2>3. CASE q # p
    <3>1. th[q].i # i
      BY <1>6, <2>3, Zenon DEF Busy, Holds, Locked
    <3> QED
      BY <1>0, <1>1, <1>7, <1>8, <2>1, <2>3, <3>1 DEF DriverInv, Requests
  <2> QED
    BY <2>2, <2>3, Zenon
<1>22. \A f, s : Open(f, s) /\ f # e => Open(f, s)'
  <2> SUFFICES ASSUME NEW f, NEW s, Open(f, s), f # e PROVE Open(f, s)'
    OBVIOUS
  <2>1. PICK q \in Proc : Busy(q) /\ th[q].d = f /\ buf[th[q].i].disk /\ req[f].status = s
    BY Zenon DEF Open
  <2>2. q # p /\ th[q].i # i /\ th[q].i \in Buf
    BY <1>4, <1>6, <2>1, Zenon DEF Busy, Holds, Locked
  <2> QED
    BY <1>1, <1>7, <1>8, <1>19, <2>1, <2>2 DEF Open
<1>23. Places'
  <2>1. ~Open(e, "none")
    BY <1>4, Zenon DEF Open
  <2>2. \A s \in Desc : s # k => used.ring[s] # e
    BY <1>0, <1>3, Zenon DEF DriverInv, Places, e
  <2>3. \A s \in Desc : used'.ring[s] # NULL => Open(used.ring[s], "ok")'
    BY <1>0, <1>12, <1>22, <2>2, Zenon DEF DriverInv, Places
  <2>4. \A s, u \in Desc : used'.ring[s] # NULL /\ used'.ring[s] = used'.ring[u] => s = u
    BY <1>0, <1>12, Zenon DEF DriverInv, Places
  <2>5. \A s \in Desc : avail'.ring[s] # NULL => Open(avail.ring[s], "none")' /\ avail'.ring[s] \notin inflight'
    BY <1>0, <1>1, <1>22, <2>1, Zenon DEF DriverInv, Places
  <2>6. \A f \in inflight' : Open(f, "none")'
    BY <1>0, <1>1, <1>22, <2>1, Zenon DEF DriverInv, Places
  <2> QED
    BY <1>0, <1>1, <1>9, <2>3, <2>4, <2>5, <2>6, Zenon DEF DriverInv, Places
<1>24. Rings'
  <2>1. Filled(used, n - 1)'
    BY <1>3, <1>9, Zenon DEF Filled, Slot
  <2>2. \E m \in 0..(NUM - 1) : Filled(avail, m)'
    BY <1>0, <1>1, <1>9, Zenon DEF DriverInv, Rings, Filled, Slot
  <2> QED
    BY <1>3, <1>9, <2>1, <2>2, Zenon DEF Rings
<1>25. NoLostWakeup'
  BY <1>0, <1>1, <1>6, <1>7, <1>8 DEF NoLostWakeup, Threads, Holds, Locked
<1> QED
  BY <1>10, <1>11, <1>13, <1>14, <1>16, <1>17, <1>18, <1>20, <1>21, <1>23, <1>24, <1>25, Zenon
  DEF DiskInv, DriverInv

(* The device takes a request. *)
LEMMA DevFetchInv ==
  ASSUME DiskInv, DevFetch
  PROVE  DiskInv'
<1> DEFINE k == Slot(avail.seen)
           e == avail.ring[k]
<1>0. CacheType /\ ThreadType /\ Threads /\ Locks /\ Counts /\ Clean /\ DriverInv /\ NoLostWakeup
  BY Zenon DEF DiskInv
<1>1. /\ avail.seen # avail.idx /\ inflight' = inflight \cup {e}
      /\ avail' = [avail EXCEPT !.seen = Inc(avail.seen), !.ring[k] = NULL]
      /\ buf' = buf /\ lru' = lru /\ pinned' = pinned /\ th' = th
      /\ free' = free /\ desc' = desc /\ req' = req /\ used' = used
      /\ blk' = blk /\ isr' = isr /\ handler' = handler
  BY Zenon DEF DevFetch, cvars
<1>2. PICK n \in 0..(NUM - 1) : Filled(avail, n)
  BY <1>0, Zenon DEF DriverInv, Rings
<1>3. /\ avail \in Ring /\ k \in Desc /\ e # NULL
      /\ avail' \in Ring /\ n - 1 \in 0..(NUM - 1) /\ Filled(avail', n - 1)
  <2>1. avail \in Ring /\ DriverType
    BY <1>0, Zenon DEF DriverInv, DriverType, Ring
  <2> QED
    BY <1>1, <1>2, <2>1, RingEnds, RingTake, Zenon
<1>4. Desc' = Desc /\ NUM' = NUM /\ IDX' = IDX
  BY <1>1, SameNum, Zenon
<1>5. CacheType' /\ ThreadType'
  BY <1>0, <1>1, <1>4, Zenon DEF CacheType, ThreadType
<1>6. Threads' /\ Locks'
  BY <1>0, <1>1, Zenon DEF Threads, Locks, Busy, Holds
<1>7. Counts'
  BY <1>0, <1>1, CountsFrame, Zenon
<1>8. Clean'
  BY <1>0, <1>1, Zenon DEF Clean, Users, Dirty
<1>9. e \in Desc
  BY <1>3, Zenon DEF Ring
<1>10. DriverType'
  BY <1>0, <1>1, <1>3, <1>4, <1>9, Zenon DEF DriverInv, DriverType, Ring
<1>11. Chains' /\ Requests'
  BY <1>0, <1>1, <1>4, ZenonT(30) DEF DriverInv, Chains, Requests, Busy, Freed, Chain, Requesters
<1>12. /\ avail'.ring[k] = NULL /\ \A s \in Desc : s # k => avail'.ring[s] = avail.ring[s]
  BY <1>1, <1>3, Zenon DEF Ring
<1> HIDE DEF e, k
<1>13. Places'
  <2>1. \A f, s : Open(f, s)' <=> Open(f, s)
    BY <1>1, Zenon DEF Open, Busy
  <2>2. \A s \in Desc : s # k => avail.ring[s] # e
    BY <1>0, <1>3, Zenon DEF DriverInv, Places, e
  <2>3. Open(e, "none")
    BY <1>0, <1>3, Zenon DEF DriverInv, Places, e
  <2>4. \A s \in Desc : avail'.ring[s] # NULL => Open(avail.ring[s], "none")' /\ avail'.ring[s] \notin inflight'
    BY <1>0, <1>1, <1>12, <2>1, <2>2 DEF DriverInv, Places
  <2>5. \A f \in inflight' : Open(f, "none")'
    BY <1>0, <1>1, <2>1, <2>3, Zenon DEF DriverInv, Places
  <2>6. \A s, u \in Desc : avail'.ring[s] # NULL /\ avail'.ring[s] = avail'.ring[u] => s = u
    BY <1>0, <1>12, Zenon DEF DriverInv, Places
  <2>7. \A s \in Desc : used'.ring[s] # NULL => Open(used.ring[s], "ok")'
    BY <1>0, <1>1, <2>1, Zenon DEF DriverInv, Places
  <2> QED
    BY <1>0, <1>1, <1>4, <2>4, <2>5, <2>6, <2>7, Zenon DEF DriverInv, Places
<1>14. Rings'
  <2>1. Filled(avail, n - 1)'
    BY <1>3, <1>4, Zenon DEF Filled, Slot
  <2>2. \E m \in 0..(NUM - 1) : Filled(used, m)'
    BY <1>0, <1>1, <1>4, Zenon DEF DriverInv, Rings, Filled, Slot
  <2> QED
    BY <1>3, <1>4, <2>1, <2>2, Zenon DEF Rings
<1>15. NoLostWakeup'
  BY <1>0, <1>1, Zenon DEF NoLostWakeup
<1> QED
  BY <1>5, <1>6, <1>7, <1>8, <1>10, <1>11, <1>13, <1>14, <1>15, Zenon DEF DiskInv, DriverInv

(* The device completes a request. *)
LEMMA DevDoneInv ==
  ASSUME FiniteFacts, DiskInv, NEW d \in Desc, DevDone(d)
  PROVE  DiskInv'
<1>0. CacheType /\ ThreadType /\ Threads /\ Locks /\ Counts /\ Clean /\ DriverInv /\ NoLostWakeup
  BY Zenon DEF DiskInv
<1>1. PICK p \in Proc : Busy(p) /\ th[p].d = d /\ buf[th[p].i].disk /\ req[d].status = "none"
  BY <1>0, Zenon DEF DevDone, DriverInv, Places, Open
<1> DEFINE i == th[p].i
           b == th[p].b
           k == Slot(used.idx)
<1>2. /\ i \in Buf /\ b \in Block /\ buf[i].b = b
      /\ req[d].write = th[p].write /\ req[d].sector = b /\ req[d].i = i
  BY <1>0, <1>1, Zenon DEF DriverInv, Requests, Threads, Busy
<1>3. /\ d \in inflight /\ inflight' = inflight \ {d}
      /\ blk' = (IF th[p].write THEN [blk EXCEPT ![b] = buf[i].data] ELSE blk)
      /\ buf' = (IF th[p].write THEN buf ELSE [buf EXCEPT ![i].data = blk[b]])
      /\ req' = [req EXCEPT ![d].status = "ok"]
      /\ used' = [used EXCEPT !.ring[k] = d, !.idx = Inc(used.idx)]
      /\ isr' = TRUE /\ lru' = lru /\ pinned' = pinned /\ free' = free /\ desc' = desc /\ avail' = avail
      /\ handler' = handler /\ th' = th
  BY <1>2, Zenon DEF DevDone
<1>4. PICK n \in 0..(NUM - 1) : Filled(used, n)
  BY <1>0, Zenon DEF DriverInv, Rings
<1>5. /\ used \in Ring /\ k \in Desc /\ used.ring[k] = NULL
      /\ used' \in Ring /\ Filled(used', n + 1)
  <2>1. used \in Ring /\ DriverType
    BY <1>0, Zenon DEF DriverInv, DriverType, Ring
  <2> QED
    BY <1>3, <1>4, <2>1, RingEnds, RingPut, Zenon
<1>6. \A q \in Proc : q # p /\ Holds(q) => th[q].i # i /\ th[q].i \in Buf /\ th[q].b # b
  <2>1. \A q \in Proc : q # p /\ Holds(q) => th[q].i # i /\ th[q].i \in Buf /\ buf[th[q].i].b = th[q].b
    BY <1>0, <1>1, OneHolder, Zenon DEF Busy, Holds, Locked, Threads
  <2> QED
    BY <1>0, <1>2, <2>1, DiskAssumption, SMTT(40) DEF Counts
<1>7. /\ \A j \in Buf : /\ buf'[j].b = buf[j].b /\ buf'[j].valid = buf[j].valid
                        /\ buf'[j].lock = buf[j].lock /\ buf'[j].disk = buf[j].disk
                        /\ buf'[j].refcnt = buf[j].refcnt
                        /\ j # i => buf'[j].data = buf[j].data
      /\ \A c \in Block : c # b => blk'[c] = blk[c]
      /\ buf'[i].data = blk'[b]
      /\ ~th[p].write => blk' = blk
      /\ th[p].write => buf' = buf
  BY <1>0, <1>2, <1>3, SMTT(40) DEF CacheType, DriverInv, DriverType
<1>8. Desc' = Desc /\ NUM' = NUM /\ IDX' = IDX
  BY <1>3, SameNum, Zenon
<1>9. /\ req'[d].status = "ok" /\ req'[d].write = req[d].write /\ req'[d].sector = req[d].sector
      /\ req'[d].i = req[d].i /\ \A f \in Desc : f # d => req'[f] = req[f]
  BY <1>0, <1>3 DEF DriverInv, DriverType
<1>10. used'.ring[k] = d /\ \A s \in Desc : s # k => used'.ring[s] = used.ring[s]
  BY <1>3, <1>5, Zenon DEF Ring
<1>11. CacheType'
  <2>1. CASE th[p].write
    BY <1>0, <1>3, <2>1, Zenon DEF CacheType
  <2>2. CASE ~th[p].write
    <3>1. blk[b] \in Val \cup {NULL}
      BY <1>0, <1>2, Zenon DEF DriverInv, DriverType
    <3> QED
      BY <1>0, <1>2, <1>3, <2>2, <3>1 DEF CacheType
  <2> QED
    BY <2>1, <2>2, Zenon
<1>12. ThreadType'
  BY <1>0, <1>3, <1>8, Zenon DEF ThreadType
<1> HIDE DEF i, b, k
<1>13. Threads' /\ Locks'
  <2>1. \A q \in Proc : /\ th'[q].i = th[q].i /\ (Holds(q)' <=> Holds(q))
                        /\ Holds(q) => (Knows(q)' <=> Knows(q))
    BY <1>3, Zenon DEF Holds, Knows
  <2>2. Locks'
    BY <1>0, <1>7, <2>1, LocksFrame, Zenon
  <2>3. Threads'
    BY <1>0, <1>3, <1>7 DEF Threads, Busy
  <2> QED
    BY <2>2, <2>3, Zenon
<1>14. Counts'
  BY <1>0, <1>3, <1>7, CountsFrame, Zenon
<1>15. Clean'
  <2>1. \A j \in Buf : Users(j)' = Users(j) /\ \A q \in Users(j) : Dirty(q)' = Dirty(q)
    BY <1>3, Zenon DEF Users, Dirty
  <2>2. \A j \in Buf : j # i => buf[j].b # b
    BY <1>0, <1>2, DiskAssumption DEF Counts
  <2>3. \A q \in Proc : th'[q].pc = "written" => buf'[th'[q].i].data = blk'[th'[q].b]
    <3> SUFFICES ASSUME NEW q \in Proc, th[q].pc = "written"
                 PROVE  buf'[th[q].i].data = blk'[th[q].b]
      BY <1>3, Zenon
    <3>1. q # p /\ Holds(q)
      BY <1>1, Zenon DEF Busy, Holds, Locked
    <3>2. buf[th[q].i].data = blk[th[q].b] /\ th[q].b \in Block
      BY <1>0, Zenon DEF Clean, Threads
    <3> QED
      BY <1>6, <1>7, <3>1, <3>2, Zenon
  <2> QED
    BY <1>0, <1>2, <1>3, <1>7, <2>1, <2>2, <2>3 DEF Clean
<1>16. DriverType'
  <2>1. req' \in [Desc -> [write : BOOLEAN, sector : Block \cup {NULL}, i : Buf \cup {NULL},
                           status : {"none", "ok"}]]
    <3> DEFINE R == [write : BOOLEAN, sector : Block \cup {NULL}, i : Buf \cup {NULL},
                     status : {"none", "ok"}]
    <3>1. ASSUME NEW r \in R PROVE [r EXCEPT !.status = "ok"] \in R
      OBVIOUS
    <3>2. req \in [Desc -> R]
      BY <1>0, Zenon DEF DriverInv, DriverType
    <3> HIDE DEF R
    <3>3. [req[d] EXCEPT !.status = "ok"] \in R
      BY <3>1, <3>2, Zenon
    <3>4. req' = [req EXCEPT ![d] = [req[d] EXCEPT !.status = "ok"]]
      BY <1>3, Zenon
    <3>5. req' \in [Desc -> R]
      BY <3>2, <3>3, <3>4, Zenon
    <3> QED
      BY <3>5, Zenon DEF R
  <2>2. blk' \in [Block -> Val \cup {NULL}]
    BY <1>0, <1>2, <1>3, Zenon DEF DriverInv, DriverType, CacheType, i, b
  <2>3. /\ isr' \in BOOLEAN /\ handler' \in BOOLEAN /\ inflight' \subseteq Desc
        /\ desc' \in [Desc -> Desc \cup {NULL}] /\ free' \subseteq Desc
    BY <1>0, <1>3, Zenon DEF DriverInv, DriverType
  <2>4. NUM \in Nat \ 0..2 /\ Desc = 0..(NUM - 1) /\ avail' \in Ring /\ used' \in Ring
    BY <1>0, <1>3, <1>5, Zenon DEF DriverInv, DriverType, Ring
  <2> QED
    <3>1. /\ NUM' \in Nat \ 0..2 /\ Desc' = 0..(NUM' - 1)
          /\ avail' \in [ring : [Desc' -> Desc' \cup {NULL}], idx : 0..(IDX' - 1), seen : 0..(IDX' - 1)]
          /\ used' \in [ring : [Desc' -> Desc' \cup {NULL}], idx : 0..(IDX' - 1), seen : 0..(IDX' - 1)]
      BY <1>8, <2>4, Zenon DEF Ring
    <3>2. /\ desc' \in [Desc' -> Desc' \cup {NULL}] /\ free' \subseteq Desc' /\ inflight' \subseteq Desc'
          /\ req' \in [Desc' -> [write : BOOLEAN, sector : Block \cup {NULL}, i : Buf \cup {NULL},
                                 status : {"none", "ok"}]]
      BY <1>8, <2>1, <2>3, Zenon
    <3> QED
      BY <2>2, <2>3, <3>1, <3>2, Zenon DEF DriverType
<1>17. Chains'
  <2>1. th' = th /\ desc' = desc /\ free' = free /\ Desc' = Desc /\ NUM' = NUM
    BY <1>3, <1>8, Zenon
  <2>2. Chains
    BY <1>0, Zenon DEF DriverInv
  <2> QED
    <3>1. Requesters' = Requesters /\ \A q \in Proc : Busy(q)' <=> Busy(q)
      BY <2>1, Zenon DEF Requesters, Busy
    <3>2. \A q \in Proc : Freed(th[q].d)' = Freed(th[q].d)
      BY <2>1, Zenon DEF Freed, Chain
    <3> QED
      BY <2>1, <2>2, <3>1, <3>2, Zenon DEF Chains
<1>18. \A q \in Proc : Busy(q) /\ q # p => th[q].d # d /\ th[q].d \in Desc /\ Holds(q)
  BY <1>0, <1>1, Heads, Zenon DEF DriverInv, Chains, Busy, Holds, Locked
<1>19. Requests'
  <2> SUFFICES ASSUME NEW q \in Proc, Busy(q)
               PROVE  LET t == th[q]
                          r == req[t.d]
                      IN  (/\ r.write = t.write /\ r.sector = t.b /\ r.i = t.i
                           /\ r.status = "ok" => buf[t.i].data = blk[t.b]
                           /\ ~buf[t.i].disk => r.status = "ok"
                           /\ t.pc = "rw_done" => ~buf[t.i].disk)'
    BY <1>3, Zenon DEF Requests, Busy
  <2>1. CASE q = p
    BY <1>0, <1>1, <1>2, <1>3, <1>7, <1>9, <2>1, ZenonT(30) DEF DriverInv, Requests, i, b
  <2>2. CASE q # p
    <3>1. req'[th[q].d] = req[th[q].d] /\ th[q].i # i /\ th[q].i \in Buf /\ th[q].b # b /\ th[q].b \in Block
      BY <1>0, <1>6, <1>9, <1>18, <2>2, Zenon DEF Threads, Busy
    <3>2. /\ buf'[th[q].i].data = buf[th[q].i].data /\ buf'[th[q].i].disk = buf[th[q].i].disk
          /\ blk'[th[q].b] = blk[th[q].b]
      BY <1>7, <3>1, Zenon
    <3>3. /\ req[th[q].d].write = th[q].write /\ req[th[q].d].sector = th[q].b /\ req[th[q].d].i = th[q].i
          /\ req[th[q].d].status = "ok" => buf[th[q].i].data = blk[th[q].b]
          /\ ~buf[th[q].i].disk => req[th[q].d].status = "ok"
          /\ th[q].pc = "rw_done" => ~buf[th[q].i].disk
      BY <1>0, Zenon DEF DriverInv, Requests
    <3>4. th' = th
      BY <1>3, Zenon
    <3> QED
      BY <3>1, <3>2, <3>3, <3>4, Zenon
  <2> QED
    BY <2>1, <2>2, Zenon
<1>20. \A f, s : Open(f, s) /\ f # d => Open(f, s)' /\ f \in Desc
  <2> SUFFICES ASSUME NEW f, NEW s, Open(f, s), f # d PROVE Open(f, s)' /\ f \in Desc
    OBVIOUS
  <2>1. PICK q \in Proc : Busy(q) /\ th[q].d = f /\ buf[th[q].i].disk /\ req[f].status = s
    BY Zenon DEF Open
  <2>2. f \in Desc /\ th[q].i \in Buf
    BY <1>0, <2>1, ZenonT(30) DEF DriverInv, Chains, Threads, Busy
  <2> QED
    BY <1>3, <1>7, <1>9, <2>1, <2>2 DEF Open, Busy
<1>21. Open(d, "ok")' /\ ~Open(d, "ok")
  BY <1>1, <1>2, <1>3, <1>7, <1>9 DEF Open, Busy, i
<1>22. Places'
  <2>1. \A s \in Desc : used.ring[s] # d
    BY <1>0, <1>21, DiskAssumption DEF DriverInv, DriverType, Places
  <2>2. \A s \in Desc : used'.ring[s] # NULL => Open(used.ring[s], "ok")'
    BY <1>0, <1>10, <1>20, <1>21, <2>1, Zenon DEF DriverInv, Places
  <2>3. \A s, u \in Desc : used'.ring[s] # NULL /\ used'.ring[s] = used'.ring[u] => s = u
    BY <1>0, <1>10, <2>1, Zenon DEF DriverInv, Places
  <2>4. \A s \in Desc : avail'.ring[s] # NULL => Open(avail.ring[s], "none")' /\ avail'.ring[s] \notin inflight'
    BY <1>0, <1>3, <1>20 DEF DriverInv, Places
  <2>5. \A f \in inflight' : Open(f, "none")'
    BY <1>0, <1>3, <1>20, Zenon DEF DriverInv, Places
  <2> QED
    BY <1>0, <1>3, <1>8, <2>2, <2>3, <2>4, <2>5 DEF DriverInv, Places
<1>23. Rings'
  <2>1. desc[d] \in Desc /\ desc[d] # d /\ \A f, s : Open(f, s) => f # desc[d]
    <3>1. desc[d] \in Desc /\ desc[d] # d
      BY <1>0, <1>1, Zenon DEF DriverInv, Chains
    <3>2. ASSUME NEW q \in Proc, Busy(q) PROVE th[q].d # desc[d]
      <4>1. desc[d] \in Freed(d)
        BY <1>0, <1>1, Heads, Zenon
      <4> QED
        BY <1>0, <1>1, <3>1, <3>2, <4>1, Heads, Zenon
    <3> QED
      BY <3>1, <3>2, Zenon DEF Open
  <2>2. \A s \in Desc : used'.ring[s] # desc[d]
    <3> SUFFICES ASSUME NEW s \in Desc, used'.ring[s] = desc[d] PROVE FALSE
      OBVIOUS
    <3>1. s # k /\ used.ring[s] = desc[d]
      BY <1>10, <2>1, Zenon
    <3>2. desc[d] # NULL
      BY <1>0, <2>1, DiskAssumption DEF DriverInv, DriverType
    <3>3. Open(used.ring[s], "ok")
      BY <1>0, <3>1, <3>2, Zenon DEF DriverInv, Places
    <3> QED
      BY <2>1, <3>1, <3>3, Zenon
  <2>3. \A s, u \in Desc : used'.ring[s] # NULL /\ used'.ring[s] = used'.ring[u] => s = u
    BY <1>8, <1>22, Zenon DEF Places
  <2>4. used'.ring \in [Desc -> Desc \cup {NULL}] /\ DriverType
    BY <1>0, <1>5, Zenon DEF Ring, DriverInv
  <2>5. \E s \in Desc : used'.ring[s] = NULL
    BY <2>1, <2>2, <2>3, <2>4, NotFull, Zenon
  <2>6. n + 1 \in 0..(NUM - 1)
    BY <1>5, <2>4, <2>5, NotAll, Zenon
  <2>7. Filled(used, n + 1)'
    BY <1>5, <1>8, Zenon DEF Filled, Slot
  <2>8. \E m \in 0..(NUM - 1) : Filled(avail, m)'
    BY <1>0, <1>3, <1>8, Zenon DEF DriverInv, Rings, Filled, Slot
  <2> QED
    BY <1>8, <2>6, <2>7, <2>8, Zenon DEF Rings
<1>24. NoLostWakeup'
  BY <1>0, <1>3, <1>7 DEF NoLostWakeup, Threads
<1> QED
  BY <1>11, <1>12, <1>13, <1>14, <1>15, <1>16, <1>17, <1>19, <1>22, <1>23, <1>24, Zenon
  DEF DiskInv, DriverInv

-----------------------------------------------------------------------------
(* Every step keeps the invariant. *)
LEMMA NextInv ==
  ASSUME FiniteFacts, DiskInv, [Next]_vars
  PROVE  DiskInv'
<1>1. isr \in BOOLEAN /\ handler \in BOOLEAN
  BY Zenon DEF DiskInv, DriverInv, DriverType
<1>2. ASSUME NEW p \in Proc, NEW b \in Block, bget(p, b) PROVE DiskInv'
  BY <1>2, BgetInv, Zenon
<1>3. ASSUME NEW p \in Proc, NEW v \in Val, Store(p, v) PROVE DiskInv'
  BY <1>3, StoreInv, Zenon
<1>4. ASSUME NEW p \in Proc, bpin(p) \/ bunpin(p) PROVE DiskInv'
  BY <1>4, PinInv, Zenon
<1>5. ASSUME NEW p \in Proc, bwrite(p) PROVE DiskInv'
  BY <1>5, BwriteInv, Zenon
<1>6. ASSUME NEW p \in Proc, releasesleep(p) PROVE DiskInv'
  BY <1>6, ReleaseInv, Zenon
<1>7. ASSUME NEW p \in Proc, brelse(p) PROVE DiskInv'
  BY <1>7, BrelseInv, Zenon
<1>8. ASSUME NEW p \in Proc, acquiresleep(p) PROVE DiskInv'
  BY <1>8, AcquireInv, Zenon
<1>9. ASSUME NEW p \in Proc, virtio_disk_rw(p) PROVE DiskInv'
  <2>1. CASE /\ Cardinality(free) < 3 /\ UNCHANGED <<buf, dvars>>
             /\ th' = [(IF free = {} THEN th ELSE FreeWakes(th)) EXCEPT ![p].pc = "sleep_free"]
    BY <1>9, <2>1, RwShortInv, Zenon
  <2>2. ASSUME NEW d \in alloc3_desc,
               free' = free \ {d[1], d[2], d[3]},
               desc' = [desc EXCEPT ![d[1]] = d[2], ![d[2]] = d[3], ![d[3]] = NULL],
               req' = [req EXCEPT ![d[1]] = [write |-> th[p].write, sector |-> th[p].b, i |-> th[p].i,
                                             status |-> "none"]],
               buf' = [buf EXCEPT ![th[p].i].disk = TRUE],
               avail' = [avail EXCEPT !.ring[Slot(avail.idx)] = d[1], !.idx = Inc(avail.idx)],
               th' = [th EXCEPT ![p].pc = "sleep_buf", ![p].d = d[1]],
               used' = used
        PROVE  DiskInv'
    <3>1. d[1] \in free /\ d[2] \in free \ {d[1]} /\ d[3] \in free \ {d[1], d[2]}
      BY Zenon DEF alloc3_desc, alloc_desc
    <3>2. ASSUME NEW x, NEW y, NEW z, x = d[1], y = d[2], z = d[3] PROVE DiskInv'
      <4>1. x \in free /\ y \in free \ {x} /\ z \in free \ {x, y}
        BY <3>1, <3>2, Zenon
      <4>2. /\ free' = free \ {x, y, z}
            /\ desc' = [desc EXCEPT ![x] = y, ![y] = z, ![z] = NULL]
            /\ req' = [req EXCEPT ![x] = [write |-> th[p].write, sector |-> th[p].b, i |-> th[p].i,
                                          status |-> "none"]]
            /\ buf' = [buf EXCEPT ![th[p].i].disk = TRUE]
            /\ avail' = [avail EXCEPT !.ring[Slot(avail.idx)] = x, !.idx = Inc(avail.idx)]
            /\ th' = [th EXCEPT ![p].pc = "sleep_buf", ![p].d = x]
            /\ used' = used
        BY <2>2, <3>2, Zenon
      <4> QED
        BY <1>9, <4>1, <4>2, RwInv, Zenon
    <3> QED
      BY <3>2, Zenon
  <2> QED
    BY <1>9, <2>1, <2>2, Zenon DEF virtio_disk_rw
<1>10. ASSUME NEW p \in Proc, virtio_disk_rw_done(p) PROVE DiskInv'
  BY <1>10, RwDoneInv, Zenon
<1>11. CASE virtio_disk_intr \/ intr_done
  BY <1>1, <1>11, HandlerInv, Zenon DEF virtio_disk_intr, intr_done, devvars
<1>12. CASE intr_next
  BY <1>12, IntrNextInv, Zenon
<1>13. CASE DevFetch
  BY <1>13, DevFetchInv, Zenon
<1>14. ASSUME NEW d \in Desc, DevDone(d) PROVE DiskInv'
  BY <1>14, DevDoneInv, Zenon
<1>15. CASE UNCHANGED vars
  BY <1>1, <1>15, HandlerInv, Zenon DEF vars, devvars
<1> QED
  BY <1>2, <1>3, <1>4, <1>5, <1>6, <1>7, <1>8, <1>9, <1>10, <1>11, <1>12, <1>13, <1>14, <1>15, Zenon DEF Next

-----------------------------------------------------------------------------
(* Cache, driver and device implement BlockStore.                          *)

(* What BlockStore sees of a block. *)
Shown ==
  \A b \in Block :
    /\ \A i \in Buf : buf[i].b = b => /\ Contents(b) = IF buf[i].valid THEN buf[i].data ELSE blk[b]
                                      /\ Owner(b) = buf[i].lock
    /\ (\A i \in Buf : buf[i].b # b) => Contents(b) = blk[b] /\ Owner(b) = NULL

(* It depends on the one buffer of the block. *)
LEMMA ShownIs == Counts => Shown
<1> SUFFICES ASSUME Counts, NEW b \in Block
             PROVE  /\ \A i \in Buf : buf[i].b = b => /\ Contents(b) = IF buf[i].valid THEN buf[i].data ELSE blk[b]
                                                      /\ Owner(b) = buf[i].lock
                    /\ (\A i \in Buf : buf[i].b # b) => Contents(b) = blk[b] /\ Owner(b) = NULL
  BY Zenon DEF Shown
<1>1. ASSUME NEW i \in Buf, buf[i].b = b
      PROVE  Contents(b) = (IF buf[i].valid THEN buf[i].data ELSE blk[b]) /\ Owner(b) = buf[i].lock
  <2>1. Cached(b) = {i}
    BY <1>1, DiskAssumption DEF Cached, Counts
  <2>2. Valid(b) = IF buf[i].valid THEN {i} ELSE {}
    BY <2>1, Zenon DEF Valid
  <2>3. Owners(b) = IF buf[i].lock = NULL THEN {} ELSE {buf[i].lock}
    BY <2>1, Zenon DEF Owners
  <2>4. Contents(b) = IF buf[i].valid THEN buf[i].data ELSE blk[b]
    BY <2>2 DEF Contents
  <2>5. Owner(b) = buf[i].lock
    BY <2>3, Zenon DEF Owner
  <2> QED
    BY <2>4, <2>5, Zenon
<1>2. ASSUME \A i \in Buf : buf[i].b # b
      PROVE  Contents(b) = blk[b] /\ Owner(b) = NULL
  <2>1. Cached(b) = {} /\ Valid(b) = {} /\ Owners(b) = {}
    BY <1>2, Zenon DEF Cached, Valid, Owners
  <2> QED
    BY <2>1, Zenon DEF Contents, Owner
<1> QED
  BY <1>1, <1>2, Zenon

(* And so it does after a step. *)
LEMMA ShownNext == Counts' => Shown'
BY ShownIs, PTL

(* Steps that leave blocks, locks and valid data alone are not seen. *)
LEMMA QuietSeen ==
  ASSUME DiskInv, DiskInv', blk' = blk,
         \A j \in Buf : /\ buf'[j].b = buf[j].b /\ buf'[j].lock = buf[j].lock
                        /\ buf'[j].valid = buf[j].valid
                        /\ buf[j].valid => buf'[j].data = buf[j].data
  PROVE  UNCHANGED BS!vars
<1>1. Shown /\ Shown'
  BY ShownIs, ShownNext, Zenon DEF DiskInv
<1>2. \A b \in Block : Contents(b)' = Contents(b) /\ Owner(b)' = Owner(b)
  BY <1>1, SMTT(40) DEF Shown
<1> QED
  BY <1>2, Zenon DEF BS!vars

(* bget of a block that is cached, or in a recycled buffer, is not seen. *)
LEMMA BgetSeen ==
  ASSUME FiniteFacts, DiskInv, DiskInv', NEW p \in Proc, NEW b \in Block, bget(p, b)
  PROVE  UNCHANGED BS!vars
<1>1. CacheType /\ Locks /\ Counts /\ Clean
  BY Zenon DEF DiskInv
<1>2. blk' = blk
  BY Zenon DEF bget, devvars
<1>3. ASSUME NEW i \in Buf, buf' = [buf EXCEPT ![i].refcnt = @ + 1]
      PROVE  UNCHANGED BS!vars
  <2>1. \A j \in Buf : /\ buf'[j].b = buf[j].b /\ buf'[j].lock = buf[j].lock
                       /\ buf'[j].valid = buf[j].valid /\ buf'[j].data = buf[j].data
    BY <1>1, <1>3, Zenon DEF CacheType
  <2> QED
    BY <1>2, <2>1, QuietSeen, Zenon
<1>4. ASSUME NEW i \in Buf, Cached(b) = {}, i \in Victims,
             buf' = [buf EXCEPT ![i].b = b, ![i].valid = FALSE, ![i].refcnt = 1]
      PROVE  UNCHANGED BS!vars
  <2>1. buf[i].refcnt = 0
    BY <1>4, Zenon DEF Victims, Unused
  <2>2. Users(i) = {} /\ buf[i].b \notin pinned
    BY <1>1, <2>1, UnusedFree, Zenon
  <2>3. buf[i].lock = NULL /\ (buf[i].valid => buf[i].data = blk[buf[i].b])
    BY <1>1, <2>2, FreeLock, Zenon DEF Clean
  <2>4. /\ buf'[i].b = b /\ ~buf'[i].valid /\ buf'[i].lock = NULL
        /\ \A j \in Buf : j # i => buf'[j] = buf[j]
    BY <1>1, <1>4, <2>3 DEF CacheType
  <2>5. Shown /\ Shown'
    BY ShownIs, ShownNext, Zenon DEF DiskInv
  <2>6. \A j \in Buf : buf[j].b # b
    BY <1>4, Zenon DEF Cached
  <2>7. ASSUME NEW c \in Block PROVE Contents(c)' = Contents(c) /\ Owner(c)' = Owner(c)
    <3>1. CASE c = b
      <4>1. Contents(c) = blk[c] /\ Owner(c) = NULL
        BY <2>5, <2>6, <3>1, Zenon DEF Shown
      <4>2. Contents(c)' = blk'[c] /\ Owner(c)' = NULL
        BY <2>4, <2>5, <3>1, Zenon DEF Shown
      <4> QED
        BY <1>2, <4>1, <4>2, Zenon
    <3>2. CASE c # b /\ c = buf[i].b
      <4>1. Contents(c) = blk[c] /\ Owner(c) = NULL
        BY <2>3, <2>5, <3>2, Zenon DEF Shown
      <4>2. \A j \in Buf : buf'[j].b # c
        BY <1>1, <2>4, <3>2, DiskAssumption, SMTT(40) DEF Counts
      <4>3. Contents(c)' = blk'[c] /\ Owner(c)' = NULL
        BY <2>5, <4>2, Zenon DEF Shown
      <4> QED
        BY <1>2, <4>1, <4>3, Zenon
    <3>3. CASE c # b /\ c # buf[i].b
      <4>1. CASE \E j \in Buf : buf[j].b = c
        <5>1. PICK j \in Buf : buf[j].b = c
          BY <4>1, Zenon
        <5>2. buf'[j] = buf[j]
          BY <2>4, <3>3, <5>1, Zenon
        <5> QED
          BY <1>2, <2>5, <5>1, <5>2 DEF Shown
      <4>2. CASE \A j \in Buf : buf[j].b # c
        <5>1. \A j \in Buf : buf'[j].b # c
          BY <2>4, <3>3, <4>2, Zenon
        <5> QED
          BY <1>2, <2>5, <4>2, <5>1, Zenon DEF Shown
      <4> QED
        BY <4>1, <4>2, Zenon
    <3> QED
      BY <3>1, <3>2, <3>3, Zenon
  <2> QED
    BY <1>2, <2>7, Zenon DEF BS!vars
<1> QED
  BY <1>3, <1>4, Zenon DEF bget

(* A change of the lock or the data of p's buffer is seen as a change of   *)
(* its block.                                                              *)
LEMMA OneSeen ==
  ASSUME DiskInv, DiskInv', blk' = blk, NEW b \in Block, NEW i \in Buf, buf[i].b = b,
         \A j \in Buf : j # i => buf'[j] = buf[j],
         buf'[i].b = b, buf'[i].valid = buf[i].valid
  PROVE  /\ buf'[i].data = buf[i].data =>
              [c \in Block |-> Contents(c)]' = [c \in Block |-> Contents(c)]
         /\ buf[i].valid =>
              [c \in Block |-> Contents(c)]' = [[c \in Block |-> Contents(c)] EXCEPT ![b] = buf'[i].data]
         /\ [c \in Block |-> Owner(c)]' = [[c \in Block |-> Owner(c)] EXCEPT ![b] = buf'[i].lock]
         /\ [c \in Block |-> Owner(c)][b] = buf[i].lock
<1>1. Shown /\ Shown'
  BY ShownIs, ShownNext, Zenon DEF DiskInv
<1>2. ASSUME NEW c \in Block, c # b PROVE Contents(c)' = Contents(c) /\ Owner(c)' = Owner(c)
  <2>1. CASE \E j \in Buf : buf[j].b = c
    <3>1. PICK j \in Buf : buf[j].b = c
      BY <2>1, Zenon
    <3>2. buf'[j] = buf[j]
      BY <1>2, <3>1, Zenon
    <3> QED
      BY <1>1, <3>1, <3>2 DEF Shown
  <2>2. CASE \A j \in Buf : buf[j].b # c
    <3>1. \A j \in Buf : buf'[j].b # c
      BY <1>2, <2>2, Zenon
    <3> QED
      BY <1>1, <2>2, <3>1, Zenon DEF Shown
  <2> QED
    BY <2>1, <2>2, Zenon
<1>3. /\ Contents(b) = (IF buf[i].valid THEN buf[i].data ELSE blk[b]) /\ Owner(b) = buf[i].lock
      /\ Contents(b)' = (IF buf[i].valid THEN buf'[i].data ELSE blk[b]) /\ Owner(b)' = buf'[i].lock
  BY <1>1, Zenon DEF Shown
<1> QED
  BY <1>2, <1>3, Zenon

(* acquiresleep gives the block to p, releasesleep takes it away. *)
LEMMA LockSeen ==
  ASSUME DiskInv, DiskInv', NEW p \in Proc, acquiresleep(p) \/ releasesleep(p)
  PROVE  BS!Next \/ UNCHANGED BS!vars
<1>1. CacheType /\ Locks /\ Threads
  BY Zenon DEF DiskInv
<1>2. PICK b \in Block, i \in Buf : b = th[p].b /\ i = th[p].i /\ buf[i].b = b
  BY <1>1, Zenon DEF acquiresleep, releasesleep, Threads
<1>3. blk' = blk /\ (releasesleep(p) => buf[i].lock = p)
  BY <1>1, <1>2, Zenon DEF acquiresleep, releasesleep, devvars, Locks, Holds, Locked
<1>4. CASE acquiresleep(p) /\ buf[i].lock # NULL
  <2>1. buf' = buf
    BY <1>2, <1>4, Zenon DEF acquiresleep
  <2> QED
    BY <1>3, <2>1, QuietSeen, Zenon
<1>5. ASSUME NEW o, buf' = [buf EXCEPT ![i].lock = o]
      PROVE  /\ [c \in Block |-> Contents(c)]' = [c \in Block |-> Contents(c)]
             /\ [c \in Block |-> Owner(c)]' = [[c \in Block |-> Owner(c)] EXCEPT ![b] = o]
             /\ [c \in Block |-> Owner(c)][b] = buf[i].lock
  <2>1. /\ buf'[i].lock = o /\ \A j \in Buf : j # i => buf'[j] = buf[j]
        /\ buf'[i].b = b /\ buf'[i].valid = buf[i].valid /\ buf'[i].data = buf[i].data
    BY <1>1, <1>2, <1>5 DEF CacheType
  <2>2. /\ [c \in Block |-> Contents(c)]' = [c \in Block |-> Contents(c)]
        /\ [c \in Block |-> Owner(c)]' = [[c \in Block |-> Owner(c)] EXCEPT ![b] = buf'[i].lock]
        /\ [c \in Block |-> Owner(c)][b] = buf[i].lock
    BY <1>2, <1>3, <2>1, OneSeen, Zenon
  <2> QED
    BY <2>1, <2>2, Zenon
<1>6. CASE acquiresleep(p) /\ buf[i].lock = NULL
  <2>1. buf' = [buf EXCEPT ![i].lock = p]
    BY <1>2, <1>6, Zenon DEF acquiresleep
  <2>2. BS!Lock(p, b)
    BY <1>3, <1>5, <1>6, <2>1, Zenon DEF BS!Lock
  <2> QED
    BY <2>2, Zenon DEF BS!Next
<1>7. CASE releasesleep(p)
  <2>1. buf' = [buf EXCEPT ![i].lock = NULL]
    BY <1>2, <1>7, Zenon DEF releasesleep
  <2>2. BS!Unlock(p, b)
    BY <1>3, <1>5, <1>7, <2>1, Zenon DEF BS!Unlock
  <2> QED
    BY <2>2, Zenon DEF BS!Next
<1> QED
  BY <1>4, <1>6, <1>7, Zenon

(* What a process stores in its buffer is in the block from then on. *)
LEMMA StoreSeen ==
  ASSUME DiskInv, DiskInv', NEW p \in Proc, NEW v \in Val, Store(p, v)
  PROVE  BS!Next
<1>1. CacheType /\ Locks /\ Threads
  BY Zenon DEF DiskInv
<1>2. PICK b \in Block, i \in Buf : b = th[p].b /\ i = th[p].i /\ buf[i].b = b
  BY <1>1, Zenon DEF Store, Threads
<1>3. blk' = blk /\ buf[i].lock = p /\ buf[i].valid
  BY <1>1, <1>2, Zenon DEF Store, devvars, Locks, Holds, Locked
<1>4. /\ buf'[i].data = v /\ \A j \in Buf : j # i => buf'[j] = buf[j]
      /\ buf'[i].b = b /\ buf'[i].valid = buf[i].valid /\ buf'[i].lock = p
  BY <1>1, <1>2, <1>3, Zenon DEF Store, CacheType
<1>5. /\ [c \in Block |-> Contents(c)]' = [[c \in Block |-> Contents(c)] EXCEPT ![b] = v]
      /\ [c \in Block |-> Owner(c)]' = [[c \in Block |-> Owner(c)] EXCEPT ![b] = p]
      /\ [c \in Block |-> Owner(c)][b] = p
  <2>1. /\ buf[i].valid =>
             [c \in Block |-> Contents(c)]' = [[c \in Block |-> Contents(c)] EXCEPT ![b] = buf'[i].data]
        /\ [c \in Block |-> Owner(c)]' = [[c \in Block |-> Owner(c)] EXCEPT ![b] = buf'[i].lock]
        /\ [c \in Block |-> Owner(c)][b] = buf[i].lock
    <3>1. blk' = blk /\ buf[i].b = b
      BY <1>2, <1>3, Zenon
    <3> QED
      BY <1>4, <3>1, OneSeen, Zenon
  <2> QED
    BY <1>3, <1>4, <2>1, Zenon
<1>6. BS!Store(p, b, v)
  <2>1. [c \in Block |-> Owner(c)]' = [c \in Block |-> Owner(c)]
    BY <1>5, Zenon
  <2> QED
    BY <1>3, <1>5, <2>1, Zenon DEF BS!Store
<1> QED
  BY <1>6, Zenon DEF BS!Next

(* bread's buffer is filled with what the block holds. *)
LEMMA DoneSeen ==
  ASSUME DiskInv, DiskInv', NEW p \in Proc, virtio_disk_rw_done(p)
  PROVE  UNCHANGED BS!vars
<1>1. CacheType /\ Locks /\ Threads /\ DriverInv
  BY Zenon DEF DiskInv
<1>2. PICK b \in Block, i \in Buf : b = th[p].b /\ i = th[p].i /\ buf[i].b = b
  BY <1>1, Zenon DEF virtio_disk_rw_done, Threads
<1>3. blk' = blk
  BY Zenon DEF virtio_disk_rw_done, devvars
<1>4. CASE buf' = buf
  BY <1>3, <1>4, QuietSeen, Zenon
<1>5. CASE buf' = [buf EXCEPT ![i].valid = TRUE] /\ ~th[p].write /\ ~buf[i].disk
  <2>1. Busy(p) /\ th[p].pc = "rw_done"
    BY Zenon DEF virtio_disk_rw_done, Busy
  <2>2. buf[i].data = blk[b]
    BY <1>1, <1>2, <1>5, <2>1, Zenon DEF DriverInv, Requests
  <2>3. ~buf[i].valid
    BY <1>1, <1>2, <1>5, <2>1, Zenon DEF Locks, Holds, Locked
  <2>4. /\ \A j \in Buf : j # i => buf'[j] = buf[j]
        /\ buf'[i].b = b /\ buf'[i].valid /\ buf'[i].lock = buf[i].lock /\ buf'[i].data = buf[i].data
    BY <1>1, <1>2, <1>5 DEF CacheType
  <2>5. Shown /\ Shown'
    BY ShownIs, ShownNext, Zenon DEF DiskInv
  <2>6. Contents(b)' = Contents(b) /\ Owner(b)' = Owner(b)
    <3>1. Contents(b) = blk[b] /\ Owner(b) = buf[i].lock
      BY <1>2, <2>3, <2>5, Zenon DEF Shown
    <3>2. Contents(b)' = buf'[i].data /\ Owner(b)' = buf'[i].lock
      BY <2>4, <2>5, Zenon DEF Shown
    <3> QED
      BY <2>2, <2>4, <3>1, <3>2, Zenon
  <2>7. ASSUME NEW c \in Block, c # b PROVE Contents(c)' = Contents(c) /\ Owner(c)' = Owner(c)
    <3>1. CASE \E j \in Buf : buf[j].b = c
      <4>1. PICK j \in Buf : buf[j].b = c
        BY <3>1, Zenon
      <4>2. buf'[j] = buf[j]
        BY <1>2, <2>4, <2>7, <4>1, Zenon
      <4> QED
        BY <1>3, <2>5, <4>1, <4>2 DEF Shown
    <3>2. CASE \A j \in Buf : buf[j].b # c
      <4>1. \A j \in Buf : buf'[j].b # c
        BY <2>4, <2>7, <3>2, Zenon
      <4> QED
        BY <1>3, <2>5, <3>2, <4>1, Zenon DEF Shown
    <3> QED
      BY <3>1, <3>2, Zenon
  <2> QED
    BY <1>3, <2>6, <2>7, Zenon DEF BS!vars
<1> QED
  BY <1>2, <1>4, <1>5, Zenon DEF virtio_disk_rw_done

(* A write that the device has done is a flush by the owner of the block. *)
LEMMA DevDoneSeen ==
  ASSUME DiskInv, DiskInv', NEW d \in Desc, DevDone(d)
  PROVE  BS!Next \/ UNCHANGED BS!vars
<1>1. CacheType /\ Locks /\ Threads /\ DriverInv /\ ThreadType
  BY Zenon DEF DiskInv
<1>2. PICK p \in Proc : Busy(p) /\ th[p].d = d
  BY <1>1 DEF DevDone, DriverInv, Places, Open
<1>3. PICK b \in Block, i \in Buf : b = th[p].b /\ i = th[p].i /\ buf[i].b = b
  BY <1>1, <1>2, Zenon DEF Busy, Threads
<1>4. req[d].write = th[p].write /\ req[d].sector = b /\ req[d].i = i
  BY <1>1, <1>2, <1>3, Zenon DEF DriverInv, Requests
<1>5. buf[i].lock = p /\ (buf[i].valid <=> th[p].write)
  BY <1>1, <1>2, <1>3, Zenon DEF Locks, Holds, Locked, Busy
<1>6. CASE ~th[p].write
  <2>1. blk' = blk /\ buf' = [buf EXCEPT ![i].data = blk[b]]
    BY <1>4, <1>6, Zenon DEF DevDone
  <2>2. \A j \in Buf : /\ buf'[j].b = buf[j].b /\ buf'[j].lock = buf[j].lock
                       /\ buf'[j].valid = buf[j].valid
                       /\ buf[j].valid => buf'[j].data = buf[j].data
    BY <1>1, <1>5, <1>6, <2>1 DEF CacheType
  <2> QED
    BY <2>1, <2>2, QuietSeen, Zenon
<1>7. CASE th[p].write
  <2>1. buf' = buf /\ blk' = [blk EXCEPT ![b] = buf[i].data]
    BY <1>4, <1>7, Zenon DEF DevDone
  <2>2. blk'[b] = buf[i].data /\ \A c \in Block : c # b => blk'[c] = blk[c]
    BY <1>1, <2>1, Zenon DEF DriverInv, DriverType
  <2>3. Shown /\ Shown'
    BY ShownIs, ShownNext, Zenon DEF DiskInv
  <2>4. Contents(b) = buf[i].data /\ Contents(b)' = Contents(b) /\ Owner(b) = p /\ Owner(b)' = p
    BY <1>3, <1>5, <1>7, <2>1, <2>3 DEF Shown
  <2>5. ASSUME NEW c \in Block, c # b PROVE Contents(c)' = Contents(c) /\ Owner(c)' = Owner(c)
    <3>1. CASE \E j \in Buf : buf[j].b = c
      BY <2>1, <2>2, <2>3, <2>5, <3>1, SMTT(40) DEF Shown
    <3>2. CASE \A j \in Buf : buf[j].b # c
      BY <2>1, <2>2, <2>3, <2>5, <3>2, SMTT(40) DEF Shown
    <3> QED
      BY <3>1, <3>2, Zenon
  <2>6. BS!Flush(p, b)
    BY <2>1, <2>4, <2>5, Zenon DEF BS!Flush
  <2> QED
    BY <2>6, Zenon DEF BS!Next
<1> QED
  BY <1>1, <1>2, <1>6, <1>7, Zenon

(* Everything else happens behind the store. *)
LEMMA HiddenSeen ==
  ASSUME DiskInv, DiskInv', blk' = blk,
         \/ buf' = buf
         \/ \E i \in Buf : \E n : buf' = [buf EXCEPT ![i].refcnt = n] \/ buf' = [buf EXCEPT ![i].disk = n]
  PROVE  UNCHANGED BS!vars
<1>1. \A j \in Buf : /\ buf'[j].b = buf[j].b /\ buf'[j].lock = buf[j].lock
                     /\ buf'[j].valid = buf[j].valid /\ buf'[j].data = buf[j].data
  BY DEF DiskInv, CacheType
<1> QED
  BY <1>1, QuietSeen, Zenon

(* Every step is one of the store, or is not seen. *)
LEMMA NextSeen ==
  ASSUME FiniteFacts, DiskInv, DiskInv', [Next]_vars
  PROVE  BS!Next \/ UNCHANGED BS!vars
<1>0. Threads
  BY Zenon DEF DiskInv
<1>1. ASSUME NEW p \in Proc, NEW b \in Block, bget(p, b) PROVE UNCHANGED BS!vars
  BY <1>1, BgetSeen, Zenon
<1>2. ASSUME NEW p \in Proc, NEW v \in Val, Store(p, v) PROVE BS!Next
  BY <1>2, StoreSeen, Zenon
<1>3. ASSUME NEW p \in Proc, bpin(p) \/ bunpin(p) \/ brelse(p) PROVE UNCHANGED BS!vars
  <2>1. th[p].i \in Buf /\ blk' = blk
    BY <1>0, <1>3, Zenon DEF bpin, bunpin, brelse, Threads, devvars
  <2>2. buf' = buf \/ \E n : buf' = [buf EXCEPT ![th[p].i].refcnt = n]
    BY <1>3, ZenonT(30) DEF bpin, bunpin, brelse
  <2> QED
    BY <2>1, <2>2, HiddenSeen, Zenon
<1>4. ASSUME NEW p \in Proc, bwrite(p) PROVE UNCHANGED BS!vars
  BY <1>4, HiddenSeen, Zenon DEF bwrite, cvars, devvars
<1>5. ASSUME NEW p \in Proc, acquiresleep(p) \/ releasesleep(p) PROVE BS!Next \/ UNCHANGED BS!vars
  BY <1>5, LockSeen, Zenon
<1>6. ASSUME NEW p \in Proc, virtio_disk_rw(p) PROVE UNCHANGED BS!vars
  <2>1. th[p].i \in Buf /\ blk' = blk
    BY <1>0, <1>6, Zenon DEF virtio_disk_rw, Threads, devvars
  <2>2. buf' = buf \/ buf' = [buf EXCEPT ![th[p].i].disk = TRUE]
    BY <1>6, Zenon DEF virtio_disk_rw
  <2> QED
    BY <2>1, <2>2, HiddenSeen, Zenon
<1>7. ASSUME NEW p \in Proc, virtio_disk_rw_done(p) PROVE UNCHANGED BS!vars
  BY <1>7, DoneSeen, Zenon
<1>8. CASE virtio_disk_intr \/ intr_done \/ DevFetch \/ UNCHANGED vars
  <2>1. buf' = buf /\ blk' = blk
    BY <1>8, Zenon DEF virtio_disk_intr, intr_done, DevFetch, vars, cvars, devvars
  <2> QED
    BY <2>1, HiddenSeen, Zenon
<1>9. CASE intr_next
  <2> DEFINE i == req[used.ring[Slot(used.seen)]].i
  <2>1. buf' = [buf EXCEPT ![i].disk = FALSE] /\ blk' = blk
    BY <1>9, Zenon DEF intr_next, devvars
  <2> HIDE DEF i
  <2>2. CASE i \in Buf
    BY <2>1, <2>2, HiddenSeen, Zenon
  <2>3. CASE i \notin Buf
    <3>1. buf' = buf
      BY <2>1, <2>3 DEF DiskInv, CacheType
    <3> QED
      BY <2>1, <3>1, HiddenSeen, Zenon
  <2> QED
    BY <2>2, <2>3, Zenon
<1>10. ASSUME NEW d \in Desc, DevDone(d) PROVE BS!Next \/ UNCHANGED BS!vars
  BY <1>10, DevDoneSeen, Zenon
<1> QED
  BY <1>1, <1>2, <1>3, <1>4, <1>5, <1>6, <1>7, <1>8, <1>9, <1>10, Zenon DEF Next

(* At first nothing is cached. *)
LEMMA InitSeen ==
  ASSUME FiniteFacts, Init
  PROVE  BS!Init
<1>1. \A i \in Buf : buf[i].b = NULL
  BY Zenon DEF Init, binit
<1>2. Shown
  BY InitInv, ShownIs, Zenon DEF DiskInv
<1>3. \A b \in Block : Contents(b) = blk[b] /\ Owner(b) = NULL
  BY <1>1, <1>2, DiskAssumption DEF Shown
<1>4. blk \in [Block -> Val]
  BY Zenon DEF Init
<1> QED
  BY <1>3, <1>4, Zenon DEF BS!Init

-----------------------------------------------------------------------------
(* The theorems.                                                           *)

INSTANCE FiniteSetTheorems

(* FiniteSetTheorems has what the lemmas assume of finite sets. *)
LEMMA FiniteSetFacts == FiniteFacts
<1>1. EmptyFact
  BY FS_EmptySet, Zenon DEF EmptyFact
<1>2. CardFact
  BY FS_CardinalityType, Zenon DEF CardFact
<1>3. SubsetFact
  BY FS_Subset, Zenon DEF SubsetFact
<1>4. AddFact
  BY FS_AddElement, Zenon DEF AddFact
<1>5. RemoveFact
  BY FS_RemoveElement, Zenon DEF RemoveFact
<1>6. IntervalFact
  BY FS_Interval, Zenon DEF IntervalFact
<1>7. PigeonFact
  BY FS_PigeonHole, Zenon DEF PigeonFact
<1> QED
  BY <1>1, <1>2, <1>3, <1>4, <1>5, <1>6, <1>7, Zenon DEF FiniteFacts

(* The inductive invariant of cache, driver and device: who owns which     *)
(* buffer, what it holds compared with the disk, and where each request of *)
(* virtio_disk_rw is: in one of the two rings, with the device, or done.   *)
THEOREM DiskInvariant == Spec => []DiskInv
<1>1. Init => DiskInv
  BY FiniteSetFacts, InitInv, Zenon
<1>2. DiskInv /\ [Next]_vars => DiskInv'
  BY FiniteSetFacts, NextInv, Zenon
<1> QED
  BY <1>1, <1>2, PTL DEF Spec

(* bget never has two buffers for a block and never recycles one in use:   *)
(* refcnt is the number of its users and its pin.                          *)
THEOREM BuffersAreExact == Spec => []BuffersExact
<1>1. DiskInv => BuffersExact
  <2> SUFFICES ASSUME DiskInv PROVE BuffersExact
    OBVIOUS
  <2>1. CacheType /\ Threads /\ Counts
    BY Zenon DEF DiskInv
  <2>2. ASSUME NEW b \in Block PROVE Cardinality(Cached(b)) <= 1
    <3>1. CASE Cached(b) = {}
      BY <3>1, FS_EmptySet
    <3>2. CASE Cached(b) # {}
      <4>1. PICK i \in Buf : i \in Cached(b)
        BY <3>2, Zenon DEF Cached
      <4>2. Cached(b) = {i}
        BY <2>1, <4>1, DiskAssumption DEF Cached, Counts
      <4> QED
        <5>1. Cardinality({i}) = 1
          BY FS_Singleton, Zenon
        <5> QED
          BY <4>2, <5>1
    <3> QED
      BY <3>1, <3>2, Zenon
  <2>3. \A p \in Proc : th[p].i # NULL => buf[th[p].i].b = th[p].b
    BY <2>1, SMTT(40) DEF Threads, Idle
  <2> QED
    BY <2>1, <2>2, <2>3, Zenon DEF BuffersExact, Counts, Users
<1> QED
  BY <1>1, DiskInvariant, PTL

(* Every descriptor is free or in the chain of one request, and a          *)
(* completion that virtio_disk_intr finds has its status and its buffer.   *)
THEOREM DescriptorsAreExact == Spec => []DescriptorsExact
<1>1. DiskInv => DescriptorsExact
  <2> SUFFICES ASSUME DiskInv PROVE DescriptorsExact
    OBVIOUS
  <2>1. Threads /\ DriverInv
    BY Zenon DEF DiskInv
  <2>2. Requesters = {p \in Proc : th[p].d # NULL} /\ \A p \in Requesters : p \in Proc /\ Busy(p)
    BY <2>1, Zenon DEF Requesters, Threads
  <2>3. Cardinality(free) + 3 * Cardinality(Requesters) = NUM
    BY <2>1, Zenon DEF DriverInv, Chains
  <2>4. \A p \in Requesters : Freed(th[p].d) \cap free = {}
    <3> SUFFICES ASSUME NEW p \in Proc, Busy(p) PROVE Freed(th[p].d) \cap free = {}
      BY <2>2, Zenon
    <3>1. Freed(th[p].d) = {th[p].d, desc[th[p].d], desc[desc[th[p].d]]}
      BY <2>1, Heads, Zenon
    <3> QED
      BY <2>1, <3>1 DEF DriverInv, Chains
  <2>5. \A p, q \in Requesters : p # q => Freed(th[p].d) \cap Freed(th[q].d) = {}
    BY <2>1, <2>2, Zenon DEF DriverInv, Chains
  <2>6. ASSUME used.seen # used.idx
        PROVE  LET r == req[used.ring[Slot(used.seen)]]
               IN  r.status = "ok" /\ r.i # NULL /\ buf[r.i].disk
    <3>1. PICK n \in 0..(NUM - 1) : Filled(used, n)
      BY <2>1, Zenon DEF DriverInv, Rings
    <3>2. used \in Ring /\ DriverType
      BY <2>1, Zenon DEF DriverInv, DriverType, Ring
    <3>3. Slot(used.seen) \in Desc /\ used.ring[Slot(used.seen)] # NULL
      BY <2>6, <3>1, <3>2, RingEnds, Zenon
    <3>4. PICK p \in Proc : /\ Busy(p) /\ th[p].d = used.ring[Slot(used.seen)]
                            /\ buf[th[p].i].disk /\ req[th[p].d].status = "ok"
      BY <2>1, <3>3, SMTT(40) DEF DriverInv, Places, Open
    <3>5. req[th[p].d].i = th[p].i /\ th[p].i \in Buf
      BY <2>1, <3>4, Zenon DEF DriverInv, Requests, Threads, Busy
    <3> QED
      BY <3>4, <3>5, DiskAssumption DEF Buf
  <2> QED
    BY <2>2, <2>3, <2>4, <2>5, <2>6, Zenon DEF DescriptorsExact
<1> QED
  BY <1>1, DiskInvariant, PTL

(* Nobody sleeps in acquiresleep for a free lock, in virtio_disk_rw for    *)
(* descriptors that are there or for a request that is done.               *)
THEOREM NoSleeperForgotten == Spec => []NoLostWakeup
<1>1. DiskInv => NoLostWakeup
  BY Zenon DEF DiskInv
<1> QED
  BY <1>1, DiskInvariant, PTL
(* Buffer cache, driver and device are a store of blocks: whatever is      *)
(* recycled, and in whatever order requests are completed, bread returns   *)
(* what was stored last in the block, to one process at a time.            *)
THEOREM CacheIsStore == Spec => DiskIsStore
<1>1. Init => BS!Init
  BY FiniteSetFacts, InitSeen, Zenon
<1>2. DiskInv /\ DiskInv' /\ [Next]_vars => [BS!Next]_(BS!vars)
  BY FiniteSetFacts, NextSeen, Zenon
<1> QED
  BY <1>1, <1>2, DiskInvariant, PTL DEF Spec, DiskIsStore, BS!Spec

=============================================================================
