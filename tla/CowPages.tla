------------------------------ MODULE CowPages ------------------------------
(***************************************************************************)
(* Every step of Cow that keeps ThreadInv keeps PageInv of CowInv: what    *)
(* each kind of step on page tables and page counts does to them, and one  *)
(* lemma for each group of actions.                                        *)
(***************************************************************************)
EXTENDS CowSizes

-----------------------------------------------------------------------------
(* The critical sections of kmem.lock.                                     *)

(* The processes that are putting page x back on the free list. *)
Pushers(x) == {p \in Proc : freeing[p] = x}

(* kalloc takes a page that nothing refers to. *)
LEMMA KallocPage ==
  ASSUME TypeOK, EveryPageAccounted, NEW pa \in PA, kalloc(pa)
  PROVE  /\ refer_count[pa] = 0 /\ refer_count'[pa] = 1
         /\ \A x \in PA : x # pa => refer_count'[x] = refer_count[x]
         /\ EveryPageAccounted'
  <1>1. pa \in freelist
    BY KmemAssumption, Zenon DEF kalloc, TypeOK
  <1>2. refer_count[pa] = 0 /\ Pushers(pa) = {}
    BY <1>1 DEF EveryPageAccounted, Pushers, TypeOK
  <1>3. refer_count'[pa] = 1 /\ \A x \in PA : x # pa => refer_count'[x] = refer_count[x]
    BY Zenon DEF kalloc, TypeOK
  <1>4. EveryPageAccounted'
    BY <1>2, <1>3 DEF EveryPageAccounted, Pushers, kalloc
  <1> QED
    BY <1>2, <1>3, <1>4, Zenon

(* kfree of a page in use counts down by one; the page is then still in    *)
(* use, or p has it and will push it.                                      *)
LEMMA KfreePage ==
  ASSUME TypeOK, EveryPageAccounted, NEW p \in Proc, freeing[p] = NULL,
         NEW pa \in PA, refer_count[pa] > 0, kfree(p, pa)
  PROVE  /\ refer_count'[pa] = refer_count[pa] - 1
         /\ \A x \in PA : x # pa => refer_count'[x] = refer_count[x]
         /\ EveryPageAccounted'
  <1>1. refer_count[pa] \in 1..(REFMOD - 1) /\ REFMOD \in Nat \ {0}
    BY KmemAssumption DEF TypeOK
  <1>2. (refer_count[pa] + REFMOD - 1) % REFMOD = refer_count[pa] - 1
    <2>1. \A m \in Nat, n \in Nat : n < m => (n + m) % m = n
      BY Z3
    <2>2. refer_count[pa] + REFMOD - 1 = (refer_count[pa] - 1) + REFMOD
      BY <1>1
    <2> QED BY <1>1, <2>1, <2>2
  <1>3. refer_count'[pa] = refer_count[pa] - 1 /\ \A x \in PA : x # pa => refer_count'[x] = refer_count[x]
    BY <1>2, Zenon DEF kfree, TypeOK
  <1>4. pa \notin freelist /\ Pushers(pa) = {}
    BY Zenon DEF EveryPageAccounted, Pushers
  <1>5. CASE refer_count[pa] = 1
    <2>1. freeing' = [freeing EXCEPT ![p] = pa] /\ freelist' = freelist
      BY <1>2, <1>5 DEF kfree
    <2>2. \A x \in PA : Pushers(x)' = IF x = pa THEN {p} ELSE Pushers(x)
      BY <1>4, <2>1, KmemAssumption DEF Pushers, TypeOK
    <2>3. refer_count'[pa] = 0
      BY <1>3, <1>5
    <2> QED BY <1>3, <1>4, <2>1, <2>2, <2>3 DEF EveryPageAccounted, Pushers
  <1>6. CASE refer_count[pa] > 1
    <2>1. freeing' = freeing /\ freelist' = freelist
      BY <1>1, <1>2, <1>6 DEF kfree
    <2>2. refer_count'[pa] > 0
      BY <1>1, <1>3, <1>6
    <2> QED BY <1>3, <1>4, <2>1, <2>2 DEF EveryPageAccounted, Pushers
  <1> QED
    BY <1>1, <1>3, <1>5, <1>6

(* The push of kfree. *)
LEMMA PushPage ==
  ASSUME TypeOK, EveryPageAccounted, NEW p \in Proc, kfree_push(p)
  PROVE  refer_count' = refer_count /\ EveryPageAccounted'
  <1> DEFINE pa == freeing[p]
  <1>1. pa \in PA /\ p \in Pushers(pa)
    BY Zenon DEF kfree_push, TypeOK, Pushers
  <1>2. refer_count[pa] = 0 /\ pa \notin freelist /\ Pushers(pa) = {p}
    BY <1>1 DEF EveryPageAccounted, Pushers, TypeOK
  <1>3. freelist' = freelist \cup {pa} /\ refer_count' = refer_count
        /\ freeing' = [freeing EXCEPT ![p] = NULL]
    BY Zenon DEF kfree_push
  <1> HIDE DEF pa
  <1>4. \A x \in PA : Pushers(x)' = IF x = pa THEN {} ELSE Pushers(x)
    BY <1>2, <1>3, KmemAssumption DEF Pushers, TypeOK, pa
  <1> QED
    BY <1>1, <1>2, <1>3, <1>4, Zenon DEF EveryPageAccounted, Pushers

(* increase_refer of a page in use, when the counter has room. *)
LEMMA IncreasePage ==
  ASSUME TypeOK, EveryPageAccounted, NEW pa \in PA, refer_count[pa] > 0,
         refer_count[pa] + 1 < REFMOD, increase_refer(pa)
  PROVE  /\ refer_count'[pa] = refer_count[pa] + 1
         /\ \A x \in PA : x # pa => refer_count'[x] = refer_count[x]
         /\ EveryPageAccounted'
  <1>1. refer_count[pa] \in Nat /\ REFMOD \in Nat \ {0}
    BY KmemAssumption DEF TypeOK
  <1>2. (refer_count[pa] + 1) % REFMOD = refer_count[pa] + 1
    <2>1. \A m \in Nat, n \in Nat : n < m => n % m = n
      BY Z3
    <2> QED BY <1>1, <2>1
  <1>3. refer_count'[pa] = refer_count[pa] + 1 /\ \A x \in PA : x # pa => refer_count'[x] = refer_count[x]
    BY <1>2, Zenon DEF increase_refer, TypeOK
  <1>4. EveryPageAccounted'
    BY <1>1, <1>3 DEF EveryPageAccounted, Pushers, increase_refer
  <1> QED
    BY <1>3, <1>4, Zenon

(* Pages whose counts do not change stay accounted for. *)
LEMMA SameKmem ==
  ASSUME EveryPageAccounted, UNCHANGED kmem
  PROVE  EveryPageAccounted'
  BY Zenon DEF EveryPageAccounted, kmem

-----------------------------------------------------------------------------
(* Counting references.  The facts below hold of every step; CowTheorems   *)
(* proves them, and the proofs about single steps start from them.         *)

(* What a step leaves alone: the pages that PTEs name, but for v of space  *)
(* s; page tables, but for node d of space s; the pages in hand and where  *)
(* their threads are, but for thread p.                                    *)
SameLeaf == \A s \in Space, v \in VPage : leaf'[s][v].pa = leaf[s][v].pa
LeafOnly(s, v) == \A t \in Space, w \in VPage : t # s \/ w # v => leaf'[t][w].pa = leaf[t][w].pa
TabOnly(s, d) == \A t \in Space, w \in Node : t # s \/ w # d => tabs'[t][w] = tabs[t][w]
SameHand(q) == th'[q].mem = th[q].mem /\ (th[q].mem # NULL => th'[q].pc = th[q].pc)
SameMem(p) == \A q \in Proc : q # p => SameHand(q)

(* The references to page x from leaf PTEs, page tables and locals. *)
nL(x) == Cardinality(LeafRefs(x))
nT(x) == Cardinality(TabRefs(x))
nM(x) == Cardinality(MemRefs(x))

(* The counting invariants in terms of the three numbers. *)
CountOK(x) ==
  /\ refer_count[x] = nL(x) + nT(x) + nM(x)
  /\ nT(x) > 0 => nT(x) = 1 /\ nL(x) = 0 /\ nM(x) = 0
CountInv == \A x \in PA : CountOK(x)

(* So the counter has room for a page that is mapped and held. *)
CountsFit == \A x \in PA : nL(x) <= 2 * Cardinality(Proc) /\ nM(x) <= Cardinality(Proc)

(* The numbers of references are natural numbers, zero for no reference. *)
CountNat == \A x : nL(x) \in Nat /\ nT(x) \in Nat /\ nM(x) \in Nat
Counts ==
  /\ CountNat /\ CountNat' /\ Cardinality(Proc) \in Nat
  /\ \A x : /\ nL(x) = 0 <=> LeafRefs(x) = {}
            /\ nT(x) = 0 <=> TabRefs(x) = {}
            /\ nM(x) = 0 <=> MemRefs(x) = {}

(* One PTE changes: v of space s. *)
LeafChange ==
  \A s \in Space, v \in VPage : \A x :
    LeafOnly(s, v) => nL(x)' = nL(x) + (IF leaf'[s][v].pa = x THEN 1 ELSE 0)
                                     - (IF leaf[s][v].pa = x THEN 1 ELSE 0)

(* One page-table slot changes: node d of space s. *)
TabChange ==
  \A s \in Space, d \in Node : \A x :
    TabOnly(s, d) => nT(x)' = nT(x) + (IF tabs'[s][d] = x THEN 1 ELSE 0)
                                    - (IF tabs[s][d] = x THEN 1 ELSE 0)

(* One thread changes the page it holds. *)
MemChange ==
  \A p \in Proc : \A x :
    SameMem(p) => nM(x)' = nM(x) + (IF th'[p].mem = x THEN 1 ELSE 0)
                                 - (IF th[p].mem = x THEN 1 ELSE 0)

(* What does not change does not change the numbers. *)
SameRefs ==
  \A x : /\ SameLeaf => nL(x)' = nL(x)
         /\ UNCHANGED tabs => nT(x)' = nT(x)
         /\ (\A q \in Proc : SameHand(q)) => nM(x)' = nM(x)

(* A place that refers to a page counts; two threads that hold it, or two  *)
(* tables that map it, count twice.                                        *)
Referred ==
  /\ \A s \in Space, v \in VPage : nL(leaf[s][v].pa) > 0
  /\ \A s \in Space, d \in Node : nT(tabs[s][d]) > 0
  /\ \A p \in Proc : nM(th[p].mem) > 0
  /\ \A p, q \in Proc : p # q /\ th[p].mem = th[q].mem => nM(th[p].mem) > 1
  /\ \A s, t \in Space, v \in VPage :
       s # t /\ leaf[s][v].pa = leaf[t][v].pa => nL(leaf[s][v].pa) > 1

(* Page tables that change places, as f tells, hold the same references,   *)
(* when node TRAPFRAME stays.                                              *)
Swap ==
  \A f \in [Space -> Space] : \A x : (\A s \in Space : f[f[s]] = s) =>
    /\ (\A s \in Space : leaf'[s] = leaf[f[s]]) => nL(x)' = nL(x)
    /\ (\A s \in Space, d \in Node : tabs'[s][d] = tabs[IF d = TRAPFRAME THEN s ELSE f[s]][d])
         => nT(x)' = nT(x)

(* CountInv says what RefcountExact and TablesAreNotShared say. *)
CountInvIs == CountInv <=> RefcountExact /\ TablesAreNotShared

(* A page mapped at one virtual page number only has few references. *)
CountBound == SameVPage => CountsFit

Counting ==
  /\ Counts /\ LeafChange /\ TabChange /\ MemChange /\ SameRefs /\ Referred /\ Swap
  /\ CountInvIs /\ CountInvIs' /\ CountBound /\ CountBound'

-----------------------------------------------------------------------------
(* PageInv.                                                                *)

(* A thread has a page in hand that it has taken and not yet mapped. *)
Fresh(q) == th[q].mem # NULL /\ th[q].pc \in {"cow_copy", "uvmalloc"}

(* The numbers of page x do not change; one reference to pa goes away; the *)
(* count of no page but pa changes.                                        *)
CountSame(x) == refer_count'[x] = refer_count[x] /\ nL(x)' = nL(x) /\ nT(x)' = nT(x) /\ nM(x)' = nM(x)
OneLess(pa) ==
  /\ nL(pa) + nT(pa) + nM(pa) > 0
  /\ nL(pa)' + nT(pa)' + nM(pa)' = nL(pa) + nT(pa) + nM(pa) - 1
  /\ nL(pa)' <= nL(pa) /\ nT(pa)' <= nT(pa) /\ nM(pa)' <= nM(pa)
  /\ \A x \in PA : x # pa => nL(x)' = nL(x) /\ nT(x)' = nT(x) /\ nM(x)' = nM(x)
CountOnly(pa) == \A x \in PA : x # pa => refer_count'[x] = refer_count[x]

(* PageInv of the next state, from its parts. *)
LEMMA PageInvNext ==
  ASSUME Counting, CountInv', EveryPageAccounted', SameVPage', ExecHasNoTrapframe', FreshInHand'
  PROVE  PageInv'
  BY Zenon DEF Counting, CountInvIs, PageInv

(* PageInv gives the parts. *)
LEMMA PageInvParts ==
  ASSUME Counting, PageInv
  PROVE  CountInv /\ EveryPageAccounted /\ SameVPage /\ ExecHasNoTrapframe /\ FreshInHand
  BY Zenon DEF Counting, CountInvIs, PageInv

(* The count of one page, as numbers. *)
LEMMA CountAt ==
  ASSUME Counting, CountInv, NEW x \in PA
  PROVE  /\ nL(x) \in Nat /\ nT(x) \in Nat /\ nM(x) \in Nat
         /\ refer_count[x] = nL(x) + nT(x) + nM(x)
         /\ nT(x) > 0 => nT(x) = 1 /\ nL(x) = 0 /\ nM(x) = 0
  BY Zenon DEF Counting, Counts, CountNat, CountInv, CountOK

(* It is enough to look at the pages whose numbers change. *)
LEMMA CountElsewhere ==
  ASSUME Counting, CountInv, NEW a, NEW b, a \in PA => CountOK(a)', b \in PA => CountOK(b)',
         \A x \in PA : x # a /\ x # b => CountSame(x)
  PROVE  CountInv'
  <1> SUFFICES ASSUME NEW x \in PA, x # a, x # b PROVE CountOK(x)'
    BY Zenon DEF CountInv
  <1> QED
    BY Zenon DEF CountInv, CountOK, CountSame

(* A fresh page is held by no other thread and mapped nowhere. *)
LEMMA FreshAlone ==
  ASSUME Counting, TypeOK, CountInv, FreshInHand, NEW q \in Proc, Fresh(q)
  PROVE  /\ th[q].mem \in PA /\ refer_count[th[q].mem] = 1
         /\ nL(th[q].mem) = 0 /\ nT(th[q].mem) = 0
         /\ \A p \in Proc : p # q => th[p].mem # th[q].mem
  <1> DEFINE x == th[q].mem
  <1>1. x \in PA
    BY Zenon DEF TypeOK, Thread, Fresh
  <1>2. refer_count[x] = 1
    BY Zenon DEF FreshInHand, Fresh
  <1>3. nM(x) > 0 /\ \A p \in Proc : p # q /\ th[p].mem = x => nM(x) > 1
    BY Zenon DEF Counting, Referred
  <1> HIDE DEF x
  <1>4. nL(x) = 0 /\ nT(x) = 0 /\ nM(x) = 1
    BY <1>1, <1>2, <1>3, CountAt
  <1> QED
    BY <1>1, <1>2, <1>3, <1>4 DEF x

(* Fresh pages stay fresh while their counts do. *)
LEMMA FreshKept ==
  ASSUME Counting, TypeOK, FreshInHand, NEW pa, CountOnly(pa),
         \A q \in Proc : Fresh(q)' => SameHand(q) /\ Fresh(q) /\ th[q].mem # pa
  PROVE  FreshInHand'
  <1> SUFFICES ASSUME NEW q \in Proc, Fresh(q)' PROVE refer_count'[th'[q].mem] = 1
    BY Zenon DEF FreshInHand, Fresh
  <1>1. th'[q].mem = th[q].mem /\ th[q].mem # pa /\ refer_count[th[q].mem] = 1
    BY Zenon DEF SameHand, FreshInHand, Fresh
  <1>2. th[q].mem \in PA
    BY Zenon DEF TypeOK, Thread, Fresh
  <1> QED
    BY <1>1, <1>2, Zenon DEF CountOnly

(* PTEs that name the same pages, at the same place. *)
LEMMA SameLeafVPage ==
  ASSUME Counting, SameVPage, SameLeaf
  PROVE  SameVPage'
  BY DEF SameVPage, SameLeaf, Space, VPage

(* A step that moves no reference. *)
LEMMA PagesSame ==
  ASSUME Counting, PageInv, UNCHANGED <<refer_count, tabs>>, EveryPageAccounted', SameLeaf,
         NEW p \in Proc, SameMem(p), SameHand(p)
  PROVE  PageInv'
  <1>1. CountInv /\ EveryPageAccounted /\ SameVPage /\ ExecHasNoTrapframe /\ FreshInHand
    BY PageInvParts, Zenon
  <1>2. \A q \in Proc : SameHand(q)
    BY Zenon DEF SameMem
  <1>3. \A x \in PA : nL(x)' = nL(x) /\ nT(x)' = nT(x) /\ nM(x)' = nM(x)
    BY <1>2, Zenon DEF Counting, SameRefs
  <1>4. CountInv'
    BY <1>1, <1>3, Zenon DEF CountInv, CountOK
  <1>5. SameVPage' /\ ExecHasNoTrapframe' /\ FreshInHand'
    BY <1>1, <1>2, SameLeafVPage, Zenon DEF ExecHasNoTrapframe, FreshInHand, SameHand
  <1> QED
    BY <1>4, <1>5, PageInvNext, Zenon

(* kalloc by a thread that keeps the page in hand. *)
LEMMA PagesInHand ==
  ASSUME Counting, TypeOK, PageInv, NEW pa \in PA, kalloc(pa), UNCHANGED tabs, SameLeaf,
         NEW p \in Proc, SameMem(p), th[p].mem = NULL, th'[p].mem = pa
  PROVE  PageInv'
  <1>1. CountInv /\ EveryPageAccounted /\ SameVPage /\ ExecHasNoTrapframe /\ FreshInHand
    BY PageInvParts, Zenon
  <1>2. refer_count[pa] = 0 /\ refer_count'[pa] = 1 /\ CountOnly(pa) /\ EveryPageAccounted'
    BY <1>1, KallocPage, Zenon DEF CountOnly
  <1>3. ASSUME NEW x \in PA
        PROVE  /\ nL(x)' = nL(x) /\ nT(x)' = nT(x)
               /\ nM(x)' = nM(x) + (IF pa = x THEN 1 ELSE 0)
    <2>1. nM(x)' = nM(x) + (IF pa = x THEN 1 ELSE 0) - (IF NULL = x THEN 1 ELSE 0)
      BY Zenon DEF Counting, MemChange
    <2> QED BY <2>1, KmemAssumption DEF Counting, SameRefs, Counts, CountNat
  <1>4. CountInv'
    <2>1. nL(pa) = 0 /\ nT(pa) = 0 /\ nM(pa) = 0
      BY <1>1, <1>2, CountAt
    <2>2. ASSUME NEW x \in PA, x # pa PROVE CountSame(x)
      BY <1>2, <1>3, <2>2 DEF Counting, Counts, CountNat, CountOnly, CountSame
    <2>3. CountOK(pa)'
      BY <1>2, <1>3, <2>1 DEF CountOK
    <2> QED BY <1>1, <2>2, <2>3, CountElsewhere, Zenon
  <1>5. FreshInHand'
    <2>1. \A q \in Proc : Fresh(q) => refer_count[th[q].mem] = 1 /\ th[q].mem \in PA
      BY <1>1, Zenon DEF FreshInHand, Fresh, TypeOK, Thread
    <2>2. \A q \in Proc : q # p /\ Fresh(q)' => Fresh(q) /\ th'[q].mem = th[q].mem
      BY Zenon DEF SameMem, SameHand, Fresh
    <2> QED BY <1>2, <2>1, <2>2, Zenon DEF FreshInHand, CountOnly, Fresh
  <1>6. SameVPage' /\ ExecHasNoTrapframe'
    BY <1>1, SameLeafVPage, Zenon DEF ExecHasNoTrapframe
  <1> QED
    BY <1>2, <1>4, <1>5, <1>6, PageInvNext, Zenon

(* kalloc of a page-table page. *)
LEMMA PagesWalk ==
  ASSUME Counting, TypeOK, PageInv, NEW s \in Space, NEW S \in SUBSET Node, Missing(s, S) # {},
         s \notin Proc => TRAPFRAME \notin S,
         walk_alloc(s, S), SameLeaf, \A q \in Proc : SameHand(q)
  PROVE  PageInv'
  <1>1. CountInv /\ EveryPageAccounted /\ SameVPage /\ ExecHasNoTrapframe /\ FreshInHand
    BY PageInvParts, Zenon
  <1>2. PICK d \in Missing(s, S) : \E pa \in PA : kalloc(pa) /\ tabs' = [tabs EXCEPT ![s][d] = pa]
    BY Zenon DEF walk_alloc
  <1>3. PICK pa \in PA : kalloc(pa) /\ tabs' = [tabs EXCEPT ![s][d] = pa]
    BY <1>2, Zenon
  <1>4. d \in Node /\ tabs[s][d] = NULL /\ d \in S
    BY Zenon DEF Missing
  <1>5. tabs'[s][d] = pa /\ TabOnly(s, d)
    BY <1>3, <1>4, Zenon DEF TypeOK, TabOnly
  <1>6. refer_count[pa] = 0 /\ refer_count'[pa] = 1 /\ CountOnly(pa) /\ EveryPageAccounted'
    BY <1>1, <1>3, KallocPage, Zenon DEF CountOnly
  <1>7. ASSUME NEW x \in PA
        PROVE  /\ nL(x)' = nL(x) /\ nM(x)' = nM(x)
               /\ nT(x)' = nT(x) + (IF pa = x THEN 1 ELSE 0)
    <2>1. nT(x)' = nT(x) + (IF pa = x THEN 1 ELSE 0) - (IF NULL = x THEN 1 ELSE 0)
      BY <1>4, <1>5, Zenon DEF Counting, TabChange
    <2> QED BY <2>1, KmemAssumption DEF Counting, SameRefs, Counts, CountNat
  <1>8. CountInv'
    <2>1. nL(pa) = 0 /\ nT(pa) = 0 /\ nM(pa) = 0
      BY <1>1, <1>6, CountAt
    <2>2. ASSUME NEW x \in PA, x # pa PROVE CountSame(x)
      BY <1>6, <1>7, <2>2 DEF Counting, Counts, CountNat, CountOnly, CountSame
    <2>3. CountOK(pa)'
      BY <1>6, <1>7, <2>1 DEF CountOK
    <2> QED BY <1>1, <2>2, <2>3, CountElsewhere, Zenon
  <1>9. FreshInHand'
    <2>1. \A q \in Proc : Fresh(q)' => Fresh(q) /\ SameHand(q)
      BY Zenon DEF SameHand, Fresh
    <2>2. \A q \in Proc : Fresh(q) => th[q].mem # pa
      BY <1>1, <1>6 DEF FreshInHand, Fresh
    <2> QED BY <1>1, <1>6, <2>1, <2>2, FreshKept, Zenon
  <1>10. ExecHasNoTrapframe'
    <2>1. ASSUME NEW p \in Proc PROVE tabs'[-p][TRAPFRAME] = NULL
      <3>1. -p \in Space /\ -p \notin Proc /\ TRAPFRAME \in Node
        BY ProcAssumption, NodeAssumption DEF Space, Node
      <3> QED BY <1>1, <1>4, <1>5, <3>1, Zenon DEF ExecHasNoTrapframe, TabOnly
    <2> QED BY <2>1, Zenon DEF ExecHasNoTrapframe
  <1> QED
    BY <1>1, <1>6, <1>8, <1>9, <1>10, SameLeafVPage, PageInvNext, Zenon

(* One reference to page pa is given back with kfree. *)
LEMMA PagesFree ==
  ASSUME Counting, TypeOK, PageInv, NEW p \in Proc, freeing[p] = NULL,
         NEW pa \in PA, kfree(p, pa), OneLess(pa), SameVPage', ExecHasNoTrapframe',
         \A q \in Proc : Fresh(q)' => SameHand(q) /\ Fresh(q) /\ th[q].mem # pa
  PROVE  PageInv'
  <1>0. CountInv /\ EveryPageAccounted /\ FreshInHand
    BY PageInvParts, Zenon
  <1>1. refer_count[pa] = nL(pa) + nT(pa) + nM(pa) /\ refer_count[pa] > 0
    BY <1>0, CountAt, Zenon DEF OneLess
  <1>2. refer_count'[pa] = refer_count[pa] - 1 /\ CountOnly(pa) /\ EveryPageAccounted'
    BY <1>0, <1>1, KfreePage, Zenon DEF CountOnly
  <1>3. \A x \in PA : x # pa => CountSame(x)
    BY <1>2, Zenon DEF CountOnly, CountSame, OneLess
  <1>4. CountOK(pa)'
    BY <1>0, <1>1, <1>2, CountAt DEF CountOK, OneLess, Counting, Counts, CountNat
  <1>5. CountInv'
    BY <1>0, <1>3, <1>4, CountElsewhere, Zenon
  <1>6. FreshInHand'
    BY <1>0, <1>2, FreshKept, Zenon
  <1> QED
    BY <1>2, <1>5, <1>6, PageInvNext, Zenon

(* kfree of the page a thread holds, which it then no longer holds. *)
LEMMA PagesFreeMem ==
  ASSUME Counting, TypeOK, PageInv, NEW p \in Proc, freeing[p] = NULL, NEW pa, pa = th[p].mem, pa # NULL,
         kfree(p, pa), th'[p].mem = NULL, SameMem(p), SameLeaf, UNCHANGED tabs
  PROVE  PageInv'
  <1>1. CountInv /\ EveryPageAccounted /\ SameVPage /\ ExecHasNoTrapframe /\ FreshInHand
    BY PageInvParts, Zenon
  <1>2. pa \in PA /\ nM(pa) > 0
    BY Zenon DEF TypeOK, Thread, Counting, Referred
  <1>3. ASSUME NEW x \in PA
        PROVE  /\ nL(x)' = nL(x) /\ nT(x)' = nT(x)
               /\ nM(x)' = nM(x) + (IF NULL = x THEN 1 ELSE 0) - (IF pa = x THEN 1 ELSE 0)
    BY Zenon DEF Counting, MemChange, SameRefs
  <1>4. OneLess(pa)
    BY <1>2, <1>3, KmemAssumption DEF OneLess, Counting, Counts, CountNat
  <1>5. \A q \in Proc : Fresh(q)' => q # p
    BY Zenon DEF Fresh
  <1>6. \A q \in Proc : Fresh(q)' => SameHand(q) /\ Fresh(q)
    BY <1>5, Zenon DEF Fresh, SameMem, SameHand
  <1>7. \A q \in Proc : Fresh(q)' => th[q].mem # pa
    BY <1>1, <1>5, <1>6, FreshAlone, Zenon
  <1>8. SameVPage' /\ ExecHasNoTrapframe'
    BY <1>1, SameLeafVPage, Zenon DEF ExecHasNoTrapframe
  <1> QED
    BY <1>2, <1>4, <1>6, <1>7, <1>8, PagesFree, Zenon

(* kfree of a mapped page whose PTE is cleared. *)
LEMMA PagesFreeLeaf ==
  ASSUME Counting, TypeOK, PageInv, NEW p \in Proc, freeing[p] = NULL,
         NEW s \in Space, NEW v \in VPage, NEW pa, pa = leaf[s][v].pa, pa # NULL,
         kfree(p, pa), leaf'[s][v].pa = NULL, LeafOnly(s, v), UNCHANGED tabs,
         \A q \in Proc : SameHand(q)
  PROVE  PageInv'
  <1>1. CountInv /\ EveryPageAccounted /\ SameVPage /\ ExecHasNoTrapframe /\ FreshInHand
    BY PageInvParts, Zenon
  <1>2. pa \in PA /\ nL(pa) > 0
    BY DEF TypeOK, PTE, Counting, Referred
  <1>3. ASSUME NEW x \in PA
        PROVE  /\ nM(x)' = nM(x) /\ nT(x)' = nT(x)
               /\ nL(x)' = nL(x) + (IF NULL = x THEN 1 ELSE 0) - (IF pa = x THEN 1 ELSE 0)
    BY DEF Counting, LeafChange, SameRefs
  <1>4. OneLess(pa)
    BY <1>2, <1>3, KmemAssumption DEF OneLess, Counting, Counts, CountNat
  <1>5. \A q \in Proc : Fresh(q)' => Fresh(q)
    BY Zenon DEF SameHand, Fresh
  <1>6. \A q \in Proc : Fresh(q) => th[q].mem # pa
    BY <1>1, <1>2, FreshAlone
  <1>7. SameVPage' /\ ExecHasNoTrapframe'
    BY <1>1, SMTT(40) DEF SameVPage, LeafOnly, Space, VPage, ExecHasNoTrapframe
  <1> QED
    BY <1>2, <1>4, <1>5, <1>6, <1>7, PagesFree, Zenon

(* kfree of a page-table page whose slot is cleared. *)
LEMMA PagesFreeTab ==
  ASSUME Counting, TypeOK, PageInv, NEW p \in Proc, freeing[p] = NULL,
         NEW s \in Space, NEW d \in Node, NEW pa, pa = tabs[s][d], pa # NULL,
         kfree(p, pa), tabs'[s][d] = NULL, TabOnly(s, d), SameLeaf,
         \A q \in Proc : SameHand(q)
  PROVE  PageInv'
  <1>1. CountInv /\ EveryPageAccounted /\ SameVPage /\ ExecHasNoTrapframe /\ FreshInHand
    BY PageInvParts, Zenon
  <1>2. pa \in PA /\ nT(pa) > 0
    BY DEF TypeOK, Counting, Referred
  <1>3. ASSUME NEW x \in PA
        PROVE  /\ nM(x)' = nM(x) /\ nL(x)' = nL(x)
               /\ nT(x)' = nT(x) + (IF NULL = x THEN 1 ELSE 0) - (IF pa = x THEN 1 ELSE 0)
    BY DEF Counting, TabChange, SameRefs
  <1>4. OneLess(pa)
    BY <1>2, <1>3, KmemAssumption DEF OneLess, Counting, Counts, CountNat
  <1>5. \A q \in Proc : Fresh(q)' => Fresh(q)
    BY Zenon DEF SameHand, Fresh
  <1>6. \A q \in Proc : Fresh(q) => th[q].mem # pa
    BY <1>1, <1>2, FreshAlone
  <1>7. ExecHasNoTrapframe'
    <2>1. \A q \in Proc : -q \in Space /\ TRAPFRAME \in Node
      BY NodeAssumption, Zenon DEF Space, Node
    <2> QED BY <1>1, <2>1, Zenon DEF ExecHasNoTrapframe, TabOnly
  <1>8. SameVPage'
    BY <1>1, SameLeafVPage, Zenon
  <1> QED
    BY <1>2, <1>4, <1>5, <1>6, <1>7, <1>8, PagesFree, Zenon

(* A page in hand goes into a PTE that names none (uvmalloc), or changes   *)
(* places with the page a PTE names (cow_alloc).                           *)
LEMMA PagesMap ==
  ASSUME Counting, TypeOK, PageInv, UNCHANGED <<kmem, tabs>>,
         NEW p \in Proc, NEW s \in Space, NEW v \in VPage,
         NEW pa, pa = th[p].mem, NEW old, old = leaf[s][v].pa,
         Fresh(p), leaf'[s][v].pa = pa, LeafOnly(s, v),
         SameMem(p), th'[p].mem = old, ~Fresh(p)'
  PROVE  PageInv'
  <1>1. CountInv /\ EveryPageAccounted /\ SameVPage /\ ExecHasNoTrapframe /\ FreshInHand
    BY PageInvParts, Zenon
  <1>2. pa \in PA /\ nL(pa) = 0 /\ nT(pa) = 0
    BY <1>1, FreshAlone, Zenon
  <1>3. \A x : nL(x) \in Nat /\ nT(x) \in Nat /\ nM(x) \in Nat
    BY Zenon DEF Counting, Counts, CountNat
  <1>4. nL(old) > 0 /\ nM(pa) > 0 /\ pa # old
    BY <1>2 DEF Counting, Referred
  <1>5. ASSUME NEW x
        PROVE  /\ nT(x)' = nT(x)
               /\ nL(x)' = nL(x) + (IF pa = x THEN 1 ELSE 0) - (IF old = x THEN 1 ELSE 0)
               /\ nM(x)' = nM(x) + (IF old = x THEN 1 ELSE 0) - (IF pa = x THEN 1 ELSE 0)
    BY DEF Counting, MemChange, LeafChange, SameRefs
  <1>6. refer_count' = refer_count /\ EveryPageAccounted'
    BY <1>1, SameKmem, Zenon DEF kmem
  <1>7. CountInv'
    <2>1. CountOK(pa)'
      BY <1>1, <1>2, <1>3, <1>4, <1>5, <1>6, CountAt, SMTT(40) DEF CountOK
    <2>2. old \in PA => CountOK(old)'
      BY <1>1, <1>3, <1>4, <1>5, <1>6, CountAt, SMTT(40) DEF CountOK
    <2>3. \A x \in PA : x # pa /\ x # old => CountSame(x)
      BY <1>3, <1>5, <1>6 DEF CountSame
    <2> QED BY <1>1, <2>1, <2>2, <2>3, CountElsewhere, Zenon
  <1>8. FreshInHand'
    BY <1>1, <1>6, Zenon DEF FreshInHand, Fresh, SameMem, SameHand
  <1>9. SameVPage'
    <2>1. \A t \in Space, w \in VPage : leaf[t][w].pa # pa
      BY <1>2, SMTT(40) DEF Counting, Referred
    <2> QED BY <1>1, <2>1, SMTT(40) DEF SameVPage, LeafOnly, Space, VPage
  <1> QED
    BY <1>1, <1>6, <1>7, <1>8, <1>9, PageInvNext, Zenon DEF ExecHasNoTrapframe

(* uvmcopy maps the parent's page in the child as well, and counts it. *)
LEMMA PagesShare ==
  ASSUME Counting, TypeOK, PageInv,
         NEW p \in Space, NEW s \in Space, NEW v \in VPage, NEW pa \in PA,
         leaf[p][v].pa = pa, leaf[s][v].pa = NULL, leaf'[s][v].pa = pa, LeafOnly(s, v),
         increase_refer(pa), UNCHANGED tabs, \A q \in Proc : SameHand(q)
  PROVE  PageInv'
  <1>1. CountInv /\ EveryPageAccounted /\ SameVPage /\ ExecHasNoTrapframe /\ FreshInHand
    BY PageInvParts, Zenon
  <1>2. nL(pa) > 0
    BY Zenon DEF Counting, Referred
  <1>3. \A x : nL(x) \in Nat /\ nT(x) \in Nat /\ nM(x) \in Nat
    BY Zenon DEF Counting, Counts, CountNat
  <1>4. ASSUME NEW x \in PA
        PROVE  /\ nT(x)' = nT(x) /\ nM(x)' = nM(x)
               /\ nL(x)' = nL(x) + (IF pa = x THEN 1 ELSE 0)
    <2>1. nL(x)' = nL(x) + (IF pa = x THEN 1 ELSE 0) - (IF NULL = x THEN 1 ELSE 0)
      BY Zenon DEF Counting, LeafChange
    <2> QED BY <1>3, <2>1, KmemAssumption DEF Counting, SameRefs
  <1>5. SameVPage'
    BY <1>1 DEF SameVPage, LeafOnly, Space, VPage
  <1>6. nT(pa) = 0 /\ refer_count[pa] > 0 /\ refer_count[pa] + 1 < REFMOD
    <2>1. nL(pa)' <= 2 * Cardinality(Proc) /\ nM(pa) <= Cardinality(Proc)
      BY <1>1, <1>5, Zenon DEF Counting, CountBound, CountsFit
    <2>2. Cardinality(Proc) \in Nat /\ 3 * Cardinality(Proc) < REFMOD /\ REFMOD \in Nat
      BY ProcAssumption, KmemAssumption DEF Counting, Counts
    <2>3. nT(pa) = 0 /\ refer_count[pa] = nL(pa) + nM(pa)
      BY <1>1, <1>2, <1>3, CountAt
    <2> QED BY <1>2, <1>3, <1>4, <2>1, <2>2, <2>3
  <1>7. refer_count'[pa] = refer_count[pa] + 1 /\ CountOnly(pa) /\ EveryPageAccounted'
    BY <1>1, <1>6, IncreasePage, Zenon DEF CountOnly
  <1>8. CountInv'
    <2>1. CountOK(pa)'
      BY <1>1, <1>4, <1>6, <1>7, CountAt, SMTT(40) DEF CountOK
    <2>2. \A x \in PA : x # pa => CountSame(x)
      BY <1>3, <1>4, <1>7 DEF CountSame, CountOnly
    <2> QED BY <1>1, <2>1, <2>2, CountElsewhere, Zenon
  <1>9. FreshInHand'
    <2>1. \A q \in Proc : Fresh(q)' => Fresh(q) /\ SameHand(q)
      BY Zenon DEF SameHand, Fresh
    <2>2. \A q \in Proc : Fresh(q) => th[q].mem # pa
      BY <1>1, <1>2, FreshAlone
    <2> QED BY <1>1, <1>7, <2>1, <2>2, FreshKept, Zenon
  <1> QED
    BY <1>1, <1>5, <1>7, <1>8, <1>9, PageInvNext DEF ExecHasNoTrapframe

(* exec: tables change places, as o tells, but for the trapframe. *)
LEMMA PagesSwap ==
  ASSUME Counting, TypeOK, PageInv, UNCHANGED kmem,
         NEW o \in [Space -> Space], \A s \in Space : o[o[s]] = s,
         \A s \in Space : leaf'[s] = leaf[o[s]],
         \A s \in Space, d \in Node : tabs'[s][d] = tabs[IF d = TRAPFRAME THEN s ELSE o[s]][d],
         \A q \in Proc : SameHand(q)
  PROVE  PageInv'
  <1>1. CountInv /\ EveryPageAccounted /\ SameVPage /\ ExecHasNoTrapframe /\ FreshInHand
    BY PageInvParts, Zenon
  <1>2. \A x : nL(x)' = nL(x) /\ nT(x)' = nT(x) /\ nM(x)' = nM(x)
    <2>1. Swap /\ SameRefs
      BY Zenon DEF Counting
    <2> QED BY <2>1, Zenon DEF Swap, SameRefs
  <1>3. CountInv' /\ EveryPageAccounted'
    BY <1>1, <1>2, SameKmem, Zenon DEF CountInv, CountOK, kmem
  <1>4. SameVPage'
    <2>1. \A s \in Space : o[s] \in Space /\ \A v \in VPage : leaf'[s][v].pa = leaf[o[s]][v].pa
      BY Zenon
    <2> SUFFICES ASSUME NEW s \in Space, NEW t \in Space, NEW v \in VPage, NEW w \in VPage,
                        leaf'[s][v].pa # NULL, leaf'[s][v].pa = leaf'[t][w].pa
                 PROVE  v = w
      BY DEF SameVPage, Space, VPage
    <2>2. o[s] \in Space /\ o[t] \in Space /\ leaf[o[s]][v].pa # NULL /\ leaf[o[s]][v].pa = leaf[o[t]][w].pa
      BY <2>1, Zenon
    <2> QED BY <1>1, <2>2 DEF SameVPage
  <1>5. ExecHasNoTrapframe'
    <2>1. \A q \in Proc : -q \in Space /\ TRAPFRAME \in Node
      BY NodeAssumption, Zenon DEF Space, Node
    <2> QED BY <1>1, <2>1, Zenon DEF ExecHasNoTrapframe
  <1>6. FreshInHand'
    BY <1>1, Zenon DEF FreshInHand, SameHand, kmem
  <1> QED
    BY <1>3, <1>4, <1>5, <1>6, PageInvNext, Zenon

-----------------------------------------------------------------------------
(* The actions.                                                            *)

(* A step of thread p that touches no page and holds none. *)
LEMMA PagesQuiet ==
  ASSUME Counting, TypeOK, PageInv, UNCHANGED <<kmem, tabs, leaf>>, NEW p \in Proc, NEW r,
         th' = [th EXCEPT ![p] = r], th[p].mem = NULL, r.mem = NULL
  PROVE  PageInv'
  <1>1. SameMem(p) /\ SameHand(p)
    BY Zenon DEF TypeOK, SameMem, SameHand
  <1>2. EveryPageAccounted' /\ SameLeaf
    BY SameKmem, Zenon DEF PageInv, SameLeaf
  <1> QED
    BY <1>1, <1>2, PagesSame, Zenon DEF kmem

(* Only three places in the code have a page in hand. *)
LEMMA MemNull ==
  ASSUME Counting, ThreadInv, NEW p \in Proc
  PROVE  /\ th[p] \in Thread /\ TypeOK
         /\ th[p].pc \notin {"cow_copy", "cow_kfree", "uvmalloc"} => th[p].mem = NULL
         /\ th[p].pc = "uvmalloc" /\ th[p].i >= th[p].n => th[p].mem = NULL
         /\ th[p].pc \in {"cow_copy", "cow_kfree"} => th[p].mem # NULL
  <1>1. Locals(th[p]) /\ th[p] \in Thread /\ TypeOK
    BY Zenon DEF ThreadInv, TypeOK
  <1> QED
    BY <1>1 DEF Locals, Thread

(* Faults, up to the point where cow_alloc takes a page. *)
LEMMA PagesFault ==
  ASSUME Counting, ThreadInv, PageInv, NEW p \in Proc, NEW a,
         Store(p, a) \/ StorePageFault(p, a) \/ Retry(p) \/ is_cowpage(p)
  PROVE  PageInv'
  <1>1. /\ th[p] \in Thread /\ TypeOK
        /\ th[p].pc \notin {"cow_copy", "cow_kfree", "uvmalloc"} => th[p].mem = NULL
    BY MemNull, Zenon
  <1>2. CASE Store(p, a)
    <2>1. SameMem(p) /\ SameHand(p) /\ SameLeaf /\ EveryPageAccounted'
      BY <1>2, SameKmem, Zenon DEF Store, SameMem, SameHand, SameLeaf, PageInv, space
    <2> QED BY <1>2, <2>1, PagesSame, Zenon DEF Store, kmem, space
  <1>3. CASE StorePageFault(p, a)
    <2> DEFINE r == IF a > sz[p] THEN [User EXCEPT !.pc = "exit"]
                    ELSE [User EXCEPT !.pc = "is_cowpage", !.op = "trap", !.i = Page(a)]
    <2>1. r.mem = NULL /\ th' = [th EXCEPT ![p] = r] /\ th[p].mem = NULL
      BY <1>1, <1>3, Zenon DEF StorePageFault, Running, User, Idle
    <2> HIDE DEF r
    <2> QED BY <1>1, <1>3, <2>1, PagesQuiet, Zenon DEF StorePageFault, space
  <1>4. CASE Retry(p)
    <2> DEFINE r == IF Writable(leaf[p][th[p].i]) THEN User ELSE [th[p] EXCEPT !.pc = "is_cowpage"]
    <2>1. r.mem = NULL /\ th' = [th EXCEPT ![p] = r] /\ th[p].mem = NULL
      BY <1>1, <1>4, Zenon DEF Retry, Running, User, Idle, Thread
    <2> HIDE DEF r
    <2> QED BY <1>1, <1>4, <2>1, PagesQuiet, Zenon DEF Retry, space
  <1>5. CASE is_cowpage(p)
    <2> DEFINE r == IF leaf[p][th[p].i].cow THEN [th[p] EXCEPT !.pc = "cow_alloc"]
                    ELSE [User EXCEPT !.pc = "exit"]
    <2>1. r.mem = NULL /\ th' = [th EXCEPT ![p] = r] /\ th[p].mem = NULL
      BY <1>1, <1>5, Zenon DEF is_cowpage, Running, User, Idle, Thread
    <2> HIDE DEF r
    <2> QED BY <1>1, <1>5, <2>1, PagesQuiet, Zenon DEF is_cowpage, space
  <1> QED
    BY <1>2, <1>3, <1>4, <1>5, Zenon

(* cow_alloc and what follows it. *)
LEMMA PagesCow ==
  ASSUME Counting, ThreadInv, PageInv, NEW p \in Proc,
         cow_alloc(p) \/ cow_kalloc(p) \/ cow_copy(p) \/ cow_kfree(p) \/ FinishKfree(p)
  PROVE  PageInv'
  <1>1. /\ th[p] \in Thread /\ TypeOK
        /\ th[p].pc \notin {"cow_copy", "cow_kfree", "uvmalloc"} => th[p].mem = NULL
        /\ th[p].pc \in {"cow_copy", "cow_kfree"} => th[p].mem # NULL
    BY MemNull, Zenon
  <1>2. p \in Space /\ FaultPage(th[p], leaf[p])
    BY Zenon DEF Space, ThreadInv
  <1>3. CASE cow_alloc(p)
    <2> DEFINE v == th[p].i
               e == IF LastUser(leaf[p][v].pa) THEN Reclaim(leaf[p][v]) ELSE [leaf[p][v] EXCEPT !.w = TRUE]
               r == IF LastUser(leaf[p][v].pa) THEN CowDone(th[p]) ELSE [th[p] EXCEPT !.pc = "cow_kalloc"]
    <2>1. v \in VPage /\ th[p].mem = NULL /\ leaf[p][v] \in PTE
      BY <1>1, <1>2, <1>3, Zenon DEF cow_alloc, Running, FaultPage, TypeOK
    <2>2. r.mem = NULL /\ th' = [th EXCEPT ![p] = r]
      BY <1>1, <1>3, <2>1, Zenon DEF cow_alloc, CowDone, Thread
    <2>3. e.pa = leaf[p][v].pa /\ leaf' = [leaf EXCEPT ![p][v] = e]
      BY <1>3, <2>1, Zenon DEF cow_alloc, Reclaim, PTE
    <2> HIDE DEF r, e, v
    <2>4. SameLeaf
      BY <1>1, <1>2, <2>1, <2>3, Zenon DEF SameLeaf, TypeOK
    <2>5. SameMem(p) /\ SameHand(p) /\ EveryPageAccounted'
      BY <1>1, <1>3, <2>1, <2>2, SameKmem, Zenon DEF SameMem, SameHand, TypeOK, cow_alloc, PageInv
    <2> QED BY <1>3, <2>1, <2>4, <2>5, PagesSame, Zenon DEF cow_alloc, kmem
  <1>4. CASE cow_kalloc(p)
    <2>0. th[p].mem = NULL /\ UNCHANGED <<leaf, tabs>>
      BY <1>1, <1>4, Zenon DEF cow_kalloc, Running, space
    <2>1. CASE \E pa \in PA : kalloc(pa) /\ th' = [th EXCEPT ![p].pc = "cow_copy", ![p].mem = pa]
      <3> PICK pa \in PA : kalloc(pa) /\ th' = [th EXCEPT ![p].pc = "cow_copy", ![p].mem = pa]
        BY <2>1, Zenon
      <3>1. SameMem(p) /\ th'[p].mem = pa /\ SameLeaf
        BY <1>1, <2>0, Zenon DEF SameMem, SameHand, TypeOK, Thread, SameLeaf
      <3> QED BY <1>1, <2>0, <3>1, PagesInHand, Zenon
    <2>2. CASE kalloc_fails /\ CowFails(p)
      <3> DEFINE r == IF th[p].op = "trap" THEN [User EXCEPT !.pc = "exit"] ELSE User
      <3>1. r.mem = NULL /\ th' = [th EXCEPT ![p] = r]
        BY <2>2, Zenon DEF CowFails, CopyoutFails, User, Idle
      <3> HIDE DEF r
      <3> QED BY <1>1, <2>0, <2>2, <3>1, PagesQuiet, Zenon DEF kalloc_fails
    <2> QED BY <1>4, <2>1, <2>2, Zenon DEF cow_kalloc
  <1>5. CASE cow_copy(p)
    <2> DEFINE v == th[p].i
    <2>1. v \in VPage /\ th[p].mem # NULL /\ th[p].pc = "cow_copy"
      BY <1>1, <1>2, <1>5, Zenon DEF cow_copy, Running, FaultPage
    <2>2. leaf' = [leaf EXCEPT ![p][v].pa = th[p].mem] /\ UNCHANGED <<kmem, tabs>>
          /\ th' = [th EXCEPT ![p].pc = "cow_kfree", ![p].mem = leaf[p][v].pa]
      BY <1>5, Zenon DEF cow_copy
    <2> HIDE DEF v
    <2>3. leaf'[p][v].pa = th[p].mem /\ LeafOnly(p, v)
      BY <1>1, <1>2, <2>1, <2>2 DEF TypeOK, PTE, LeafOnly
    <2>4. SameMem(p) /\ th'[p].mem = leaf[p][v].pa /\ Fresh(p) /\ ~Fresh(p)'
      BY <1>1, <2>1, <2>2, Zenon DEF SameMem, SameHand, Fresh, TypeOK, Thread
    <2> QED BY <1>1, <1>2, <2>1, <2>2, <2>3, <2>4, PagesMap, Zenon
  <1>6. CASE cow_kfree(p)
    <2>1. th[p].mem # NULL /\ freeing[p] = NULL /\ kfree(p, th[p].mem) /\ UNCHANGED <<leaf, tabs>>
          /\ th' = [th EXCEPT ![p] = CowDone(th[p])]
      BY <1>1, <1>6, Zenon DEF cow_kfree, Running, space
    <2>2. SameMem(p) /\ SameLeaf /\ th'[p].mem = NULL
      BY <1>1, <2>1, Zenon DEF SameMem, SameHand, SameLeaf, CowDone, TypeOK, Thread
    <2> QED BY <1>1, <2>1, <2>2, PagesFreeMem, Zenon
  <1>7. CASE FinishKfree(p)
    <2>1. refer_count' = refer_count /\ EveryPageAccounted'
      BY <1>1, <1>7, PushPage, Zenon DEF FinishKfree, PageInv
    <2>2. SameMem(p) /\ SameHand(p) /\ SameLeaf /\ UNCHANGED tabs
      BY <1>7, Zenon DEF SameMem, SameHand, SameLeaf, FinishKfree, space
    <2> QED BY <2>1, <2>2, PagesSame, Zenon
  <1> QED
    BY <1>3, <1>4, <1>5, <1>6, <1>7, Zenon

(* copyout holds no page in hand. *)
LEMMA PagesCopyout ==
  ASSUME Counting, ThreadInv, PageInv, NEW p \in Proc, NEW dst, NEW len,
         SysCopyout(p, dst, len) \/ copyout(p) \/ CopyoutCow(p)
  PROVE  PageInv'
  <1>1. /\ th[p] \in Thread /\ TypeOK
        /\ th[p].pc \notin {"cow_copy", "cow_kfree", "uvmalloc"} => th[p].mem = NULL
    BY MemNull, Zenon
  <1>2. th[p].mem = NULL /\ UNCHANGED <<kmem, tabs, leaf>>
    BY <1>1, Zenon DEF SysCopyout, copyout, CopyoutCow, Running, space
  <1>3. CopyoutNext(th[p]).mem = NULL
    BY <1>1, <1>2, Zenon DEF CopyoutNext, Reap, User, Idle, Thread
  <1>4. \E r : th' = [th EXCEPT ![p] = r] /\ r.mem = NULL
    <2>1. CASE SysCopyout(p, dst, len)
      <3> DEFINE r == [User EXCEPT !.pc = "copyout", !.op = "read",
                         !.i = Page(dst), !.n = Page(dst + len - 1) + 1]
      <3>1. th' = [th EXCEPT ![p] = r] /\ r.mem = NULL
        BY <2>1, Zenon DEF SysCopyout, User, Idle
      <3> HIDE DEF r
      <3> QED BY <3>1, Zenon
    <2>2. CASE memmove(p)
      BY <1>3, <2>2, Zenon DEF memmove
    <2>3. CASE CopyoutFails(p)
      <3>1. User.mem = NULL
        BY Zenon DEF User, Idle
      <3> QED BY <2>3, <3>1, Zenon DEF CopyoutFails
    <2>4. CASE th' = [th EXCEPT ![p].pc = "cow_alloc"]
      <3> DEFINE r == [th[p] EXCEPT !.pc = "cow_alloc"]
      <3>1. th' = [th EXCEPT ![p] = r] /\ r.mem = NULL
        BY <1>1, <1>2, <2>4, Zenon DEF Thread
      <3> HIDE DEF r
      <3> QED BY <3>1, Zenon
    <2> QED BY <2>1, <2>2, <2>3, <2>4, Zenon DEF copyout, CopyoutCow
  <1> QED
    BY <1>1, <1>2, <1>4, PagesQuiet, Zenon

(* System calls starting, ending, and exit. *)
LEMMA PagesCalls ==
  ASSUME Counting, ThreadInv, PageInv, NEW p \in Proc, NEW a, NEW n,
         \/ fork(p) \/ wait(p, a) \/ Leave(p) \/ exit(p) \/ SbrkGrow(p, n) \/ SbrkShrink(p, n) \/ exec(p)
         \/ freeproc(p) \/ UvmallocDone(p) \/ UvmdeallocDone(p)
  PROVE  PageInv'
  <1>1. /\ th[p] \in Thread /\ TypeOK
        /\ th[p].pc \notin {"cow_copy", "cow_kfree", "uvmalloc"} => th[p].mem = NULL
        /\ th[p].pc = "uvmalloc" /\ th[p].i >= th[p].n => th[p].mem = NULL
    BY MemNull, Zenon
  <1>2. th[p].mem = NULL /\ UNCHANGED <<kmem, tabs, leaf>>
    BY <1>1, Zenon DEF fork, wait, Leave, exit, SbrkGrow, SbrkShrink, exec, freeproc, UvmallocDone,
                UvmdeallocDone, Running, space
  <1>3. User.mem = NULL /\ Idle.mem = NULL
    BY Zenon DEF User, Idle
  <1>4. \E r : th' = [th EXCEPT ![p] = r] /\ r.mem = NULL
    <2>1. CASE fork(p)
      <3> PICK c \in Proc : th' = [th EXCEPT ![p] = [User EXCEPT !.pc = "proc_pagetable",
                                               !.op = "fork", !.np = c]]
        BY <2>1, Zenon DEF fork
      <3>1. [User EXCEPT !.pc = "proc_pagetable", !.op = "fork", !.np = c].mem = NULL
        BY Zenon DEF User, Idle
      <3> QED BY <3>1, Zenon
    <2>2. CASE wait(p, a)
      <3> PICK c \in Proc : th' = [th EXCEPT ![p] =
                   IF a = NULL THEN Reap(c)
                   ELSE [User EXCEPT !.pc = "copyout", !.op = "wait", !.np = c,
                                     !.i = Page(a), !.n = Page(a) + 1]]
        BY <2>2, Zenon DEF wait
      <3>1. Reap(c).mem = NULL /\ [User EXCEPT !.pc = "copyout", !.op = "wait", !.np = c,
                                     !.i = Page(a), !.n = Page(a) + 1].mem = NULL
        BY Zenon DEF User, Idle, Reap
      <3> QED BY <3>1, Zenon
    <2>3. CASE Leave(p)
      <3>1. [User EXCEPT !.pc = "exit"].mem = NULL
        BY Zenon DEF User, Idle
      <3> QED BY <2>3, <3>1, Zenon DEF Leave
    <2>4. CASE exit(p)
      BY <1>3, <2>4, Zenon DEF exit
    <2>5. CASE SbrkGrow(p, n)
      <3> DEFINE r == [User EXCEPT !.pc = "uvmalloc", !.op = "sbrk",
                  !.np = p, !.i = Pages(sz[p]), !.n = Pages(sz[p] + n), !.newsz = sz[p] + n]
      <3>1. r.mem = NULL /\ th' = [th EXCEPT ![p] = r]
        BY <2>5, Zenon DEF SbrkGrow, User, Idle
      <3> HIDE DEF r
      <3> QED BY <3>1, Zenon
    <2>6. CASE SbrkShrink(p, n)
      <3> DEFINE r == [User EXCEPT !.pc = "uvmdealloc", !.op = "shrink",
                  !.np = p, !.i = DeallocFrom(sz[p] + n), !.n = Pages(sz[p]), !.newsz = sz[p] + n]
      <3>1. r.mem = NULL /\ th' = [th EXCEPT ![p] = r]
        BY <2>6, Zenon DEF SbrkShrink, User, Idle
      <3> HIDE DEF r
      <3> QED BY <3>1, Zenon
    <2>7. CASE exec(p)
      <3> DEFINE r == [User EXCEPT !.pc = "proc_pagetable", !.op = "exec",
              !.np = -p, !.n = Len(EXECIMAGE), !.newsz = Len(EXECIMAGE) * PGSIZE]
      <3>1. r.mem = NULL /\ th' = [th EXCEPT ![p] = r]
        BY <2>7, Zenon DEF exec, User, Idle
      <3> HIDE DEF r
      <3> QED BY <3>1, Zenon
    <2>8. CASE freeproc(p) \/ UvmallocDone(p) \/ UvmdeallocDone(p)
      BY <1>3, <2>8, Zenon DEF freeproc, UvmallocDone, UvmdeallocDone
    <2> QED BY <2>1, <2>2, <2>3, <2>4, <2>5, <2>6, <2>7, <2>8, Zenon
  <1> QED
    BY <1>1, <1>2, <1>4, PagesQuiet, Zenon

(* Giving up leaves the thread with no page in hand. *)
LEMMA UndoMem ==
  ASSUME Counting, TypeOK, NEW p \in Proc, Undo(p)
  PROVE  \E r : th' = [th EXCEPT ![p] = r] /\ r.mem = NULL
  <1> DEFINE t == th[p]
             k == IF t.op = "sbrk"
                  THEN [t EXCEPT !.pc = "uvmdealloc", !.i = Pages(sz[p]), !.n = t.i]
                  ELSE [t EXCEPT !.pc = "uvmfree", !.i = 0, !.n = t.i]
             r == [k EXCEPT !.mem = NULL]
  <1>1. th' = [th EXCEPT ![p] = r] /\ t \in Thread
    BY Zenon DEF Undo, TypeOK
  <1>2. r.mem = NULL
    BY <1>1, Zenon DEF Thread
  <1> HIDE DEF r
  <1> QED
    BY <1>1, <1>2, Zenon

(* walk with alloc for a user page, and for the top of a page table, is an *)
(* instance of PagesWalk.                                                  *)
LEMMA NodeSets ==
  /\ \A v \in VPage : NodesOf[v] \in SUBSET Node /\ TRAPFRAME \notin NodesOf[v]
  /\ \A s : TopOf(s) \in SUBSET Node /\ (s \notin Proc => TRAPFRAME \notin TopOf(s))
  BY NodeAssumption, Zenon DEF Node, TopOf

(* proc_pagetable allocates the top of a table. *)
LEMMA PagesProcPagetable ==
  ASSUME Counting, ThreadInv, PageInv, NEW p \in Proc, proc_pagetable(p)
  PROVE  PageInv'
  <1> DEFINE s == th[p].np
  <1>1. /\ th[p] \in Thread /\ TypeOK /\ th[p].mem = NULL /\ th[p].pc = "proc_pagetable"
        /\ Locals(th[p]) /\ leaf' = leaf
    BY MemNull, Zenon DEF proc_pagetable, Running, ThreadInv
  <1>2. s \in Space
    <2>1. th[p].op \in {"fork", "userinit", "exec"}
      BY <1>1, Zenon DEF Locals, PcOf, Thread
    <2> QED BY <2>1, TargetIdle, Zenon
  <1>3. CASE Missing(s, TopOf(s)) # {} /\ walk_alloc(s, TopOf(s)) /\ UNCHANGED th
    <2>1. SameLeaf /\ \A q \in Proc : SameHand(q)
      BY <1>1, <1>3, Zenon DEF SameLeaf, SameHand
    <2> HIDE DEF s
    <2> QED BY <1>1, <1>2, <1>3, <2>1, NodeSets, PagesWalk, Zenon
  <1>4. CASE kalloc_fails /\ Undo(p) /\ UNCHANGED tabs
    BY <1>1, <1>4, UndoMem, PagesQuiet, Zenon DEF kalloc_fails
  <1>5. CASE /\ th' = [th EXCEPT ![p].pc = IF th[p].op = "fork" THEN "uvmcopy" ELSE "uvmalloc"]
             /\ UNCHANGED <<kmem, tabs>>
    <2> DEFINE r == [th[p] EXCEPT !.pc = IF th[p].op = "fork" THEN "uvmcopy" ELSE "uvmalloc"]
    <2>1. th' = [th EXCEPT ![p] = r] /\ r.mem = NULL
      BY <1>1, <1>5, Zenon DEF Thread
    <2> HIDE DEF r
    <2> QED BY <1>1, <1>5, <2>1, PagesQuiet, Zenon
  <1> QED
    BY <1>3, <1>4, <1>5, Zenon DEF proc_pagetable

(* uvmcopy adds one reference to one page. *)
LEMMA PagesUvmcopy ==
  ASSUME Counting, ThreadInv, PageInv, NEW p \in Proc, uvmcopy(p)
  PROVE  PageInv'
  <1> DEFINE s == th[p].np
             v == th[p].i
             e == CowPTE(leaf[p][v])
  <1>1. th[p].pc = "uvmcopy" /\ th[p] \in Thread /\ Locals(th[p]) /\ Target(p, th[p]) /\ TypeOK
        /\ p \in Space /\ v < Pages(sz[p]) /\ leaf[p][v].pa # NULL
    BY Zenon DEF uvmcopy, Running, ThreadInv, TypeOK, Space
  <1>2. th[p].op = "fork" /\ th[p].mem = NULL /\ v \in 0..MAXVP
    BY <1>1, Zenon DEF Locals, PcOf, Thread
  <1>3. v \in VPage
    BY <1>1, <1>2, PagesType, SizeAssumption, SMTT(60) DEF VPage, TypeOK
  <1>4. s \in Space /\ s \in Proc /\ s # p
    BY <1>1, <1>2, SMTT(60) DEF Target, Space, Idle
  <1>5. leaf[p][v] \in PTE /\ e.pa = leaf[p][v].pa /\ e.pa \in PA
    <2>1. leaf[p][v] \in PTE
      BY <1>1, <1>3, Zenon DEF TypeOK
    <2>2. ASSUME NEW d \in PTE PROVE CowPTE(d).pa = d.pa
      BY Zenon DEF PTE, CowPTE
    <2>3. leaf[p][v].pa \in PA
      BY <1>1, <2>1, Zenon DEF PTE
    <2> QED BY <2>1, <2>2, <2>3, Zenon
  <1>6. leaf' = [leaf EXCEPT ![p][v] = e] => SameLeaf
    <2> HIDE DEF e, v
    <2> QED BY <1>1, <1>3, <1>5 DEF SameLeaf, TypeOK
  <1>8. CASE leaf' = [leaf EXCEPT ![p][v] = e] /\ UNCHANGED th /\ ~walk(s, v) /\ walk_alloc(s, NodesOf[v])
    <2>1. Missing(s, NodesOf[v]) # {} /\ NodesOf[v] \in SUBSET Node
      BY <1>3, <1>8, NodeSets, Zenon DEF walk
    <2>2. \A q \in Proc : SameHand(q)
      BY <1>8, Zenon DEF SameHand
    <2> HIDE DEF e, v, s
    <2> QED BY <1>1, <1>4, <1>6, <1>8, <2>1, <2>2, PagesWalk, Zenon
  <1>9. CASE leaf' = [leaf EXCEPT ![p][v] = e] /\ MappagesFails(p, e.pa) /\ UNCHANGED tabs
    <2>1. PICK r : th' = [th EXCEPT ![p] = r] /\ r.mem = NULL
      BY <1>1, <1>9, UndoMem, Zenon DEF MappagesFails
    <2>2. SameMem(p) /\ SameHand(p) /\ EveryPageAccounted' /\ refer_count' = refer_count
      BY <1>1, <1>2, <1>9, <2>1, SameKmem, Zenon
      DEF SameMem, SameHand, TypeOK, PageInv, MappagesFails, kalloc_fails, kmem
    <2> HIDE DEF e, v, s
    <2> QED BY <1>2, <1>6, <1>9, <2>2, PagesSame, Zenon
  <1>10. CASE /\ leaf' = [leaf EXCEPT ![p][v] = e, ![s][v] = e] /\ increase_refer(e.pa)
              /\ th' = [th EXCEPT ![p].i = v + 1] /\ UNCHANGED tabs /\ leaf[s][v].pa = NULL
    <2>1. \A q \in Proc : SameHand(q)
      BY <1>1, <1>10, Zenon DEF TypeOK, Thread, SameHand
    <2> DEFINE pa == e.pa
    <2>2. pa \in PA /\ leaf[p][v].pa = pa /\ increase_refer(pa)
      BY <1>5, <1>10, Zenon
    <2>3. \A t \in Space, w \in VPage : leaf'[t][w] = IF t \in {p, s} /\ w = v THEN e ELSE leaf[t][w]
      <3> HIDE DEF e, v, s
      <3> QED BY <1>1, <1>3, <1>4, <1>10, Zenon DEF TypeOK
    <2>4. leaf'[s][v].pa = pa
          /\ LeafOnly(s, v)
      <3> HIDE DEF e, v, s
      <3> QED BY <1>1, <1>3, <1>4, <1>5, <2>3, Zenon DEF LeafOnly
    <2> HIDE DEF e, v, s, pa
    <2> QED BY <1>1, <1>3, <1>4, <1>10, <2>1, <2>2, <2>4, PagesShare, ZenonT(60)
  <1> QED
    BY <1>8, <1>9, <1>10, Zenon DEF uvmcopy

(* fork returns: neither parent nor child has a page in hand. *)
LEMMA PagesForkReturns ==
  ASSUME Counting, ThreadInv, PageInv, NEW p \in Proc, ForkReturns(p)
  PROVE  PageInv'
  <1> DEFINE c == th[p].np
  <1>1. th[p].pc = "uvmcopy" /\ th[p] \in Thread /\ Locals(th[p]) /\ Target(p, th[p]) /\ TypeOK
    BY Zenon DEF ForkReturns, Running, ThreadInv, TypeOK
  <1>2. th[p].op = "fork" /\ th[p].mem = NULL
    BY <1>1, Zenon DEF Locals, PcOf, Thread
  <1>3. c \in Proc /\ th[c].mem = NULL
    BY <1>1, <1>2, SMTT(60) DEF Target, Idle
  <1>4. User.mem = NULL
    BY Zenon DEF User, Idle
  <1>5. th' = [th EXCEPT ![p] = User, ![c] = User] /\ UNCHANGED <<kmem, leaf, tabs>>
    BY Zenon DEF ForkReturns
  <1> HIDE DEF c
  <1>6. \A q \in Proc : SameHand(q)
    BY <1>1, <1>2, <1>3, <1>4, <1>5, Zenon DEF TypeOK, SameHand
  <1>7. SameMem(p) /\ SameLeaf /\ EveryPageAccounted'
    BY <1>5, <1>6, SameKmem, Zenon DEF SameMem, SameHand, SameLeaf, PageInv
  <1> QED
    BY <1>5, <1>6, <1>7, PagesSame, Zenon DEF kmem

(* uvmunmap gives one reference back. *)
LEMMA PagesUvmunmap ==
  ASSUME Counting, ThreadInv, PageInv, NEW p \in Proc, uvmunmap(p)
  PROVE  PageInv'
  <1> DEFINE s == th[p].np
             v == th[p].i
  <1>1. th[p].pc \in {"uvmfree", "uvmdealloc"} /\ th[p] \in Thread /\ Locals(th[p]) /\ TypeOK
        /\ v < th[p].n /\ freeing[p] = NULL /\ leaf[s][v].pa # NULL
    BY Zenon DEF uvmunmap, ThreadInv, TypeOK
  <1>2. th[p].op \in {"wait", "fork", "exec", "sbrk", "shrink"} /\ v \in VPage
    BY <1>1, SizeAssumption DEF Locals, PcOf, Thread, VPage
  <1>3. s \in Space
    BY <1>2, TargetIdle, Zenon
  <1>4. \A q \in Proc : SameHand(q)
    BY <1>1, Zenon DEF uvmunmap, TypeOK, Thread, SameHand
  <1>5. kfree(p, leaf[s][v].pa) /\ leaf' = [leaf EXCEPT ![s][v] = NoPTE] /\ UNCHANGED tabs
    BY Zenon DEF uvmunmap
  <1> HIDE DEF s, v
  <1>6. leaf'[s][v].pa = NULL /\ LeafOnly(s, v)
    BY <1>1, <1>2, <1>3, <1>5, Zenon DEF TypeOK, NoPTE, LeafOnly
  <1> QED
    BY <1>1, <1>2, <1>3, <1>4, <1>5, <1>6, PagesFreeLeaf, Zenon

(* freewalk gives one page of a table back. *)
LEMMA PagesFreewalk ==
  ASSUME Counting, ThreadInv, PageInv, NEW p \in Proc, freewalk(p)
  PROVE  PageInv'
  <1> DEFINE s == th[p].np
             there == {y \in Node : tabs[s][y] # NULL}
             x == CHOOSE y \in there : TRUE
  <1>1. th[p].pc = "uvmfree" /\ th[p] \in Thread /\ Locals(th[p]) /\ TypeOK /\ freeing[p] = NULL
    BY Zenon DEF freewalk, Running, ThreadInv, TypeOK
  <1>2. th[p].op \in {"wait", "fork", "exec"}
    BY <1>1, Zenon DEF Locals, PcOf, Thread
  <1>3. s \in Space
    BY <1>2, TargetIdle, Zenon
  <1>4. there # {} /\ kfree(p, tabs[s][x]) /\ tabs' = [tabs EXCEPT ![s][x] = NULL] /\ UNCHANGED <<leaf, th>>
    BY Zenon DEF freewalk
  <1>5. x \in there
    BY <1>4, Zenon
  <1>6. x \in Node /\ tabs[s][x] # NULL
    BY <1>5, Zenon
  <1> HIDE DEF s, x
  <1>7. tabs'[s][x] = NULL /\ TabOnly(s, x)
    BY <1>1, <1>3, <1>4, <1>6, Zenon DEF TypeOK, TabOnly
  <1>8. SameLeaf /\ \A q \in Proc : SameHand(q)
    BY <1>4, Zenon DEF SameLeaf, SameHand
  <1> QED
    BY <1>1, <1>3, <1>4, <1>6, <1>7, <1>8, PagesFreeTab, Zenon

(* uvmalloc takes a page and maps it, or gives up. *)
LEMMA PagesUvmalloc ==
  ASSUME Counting, ThreadInv, PageInv, NEW p \in Proc, uvmalloc(p)
  PROVE  PageInv'
  <1> DEFINE t == th[p]
             s == t.np
             v == t.i
  <1>1. t.pc = "uvmalloc" /\ t \in Thread /\ Locals(t) /\ TypeOK /\ v < t.n /\ freeing[p] = NULL
    BY Zenon DEF uvmalloc, Running, ThreadInv, TypeOK
  <1>2. t.op \in {"userinit", "exec", "sbrk"} /\ v \in VPage
    BY <1>1, SizeAssumption DEF Locals, PcOf, Thread, VPage
  <1>3. s \in Space
    BY <1>2, TargetIdle, Zenon
  <1>4. ASSUME t.mem = NULL, NEW pa \in PA, kalloc(pa), th' = [th EXCEPT ![p].mem = pa],
               UNCHANGED <<leaf, tabs>>
        PROVE  PageInv'
    <2>1. SameMem(p) /\ SameLeaf /\ th'[p].mem = pa
      BY <1>1, <1>4, Zenon DEF SameMem, SameHand, SameLeaf, TypeOK, Thread
    <2> QED BY <1>1, <1>4, <2>1, PagesInHand, Zenon
  <1>5. CASE t.mem = NULL /\ kalloc_fails /\ Undo(p) /\ UNCHANGED <<leaf, tabs>>
    BY <1>1, <1>5, UndoMem, PagesQuiet, Zenon DEF kalloc_fails
  <1>6. CASE ~walk(s, v) /\ walk_alloc(s, NodesOf[v]) /\ UNCHANGED <<leaf, th>>
    <2>1. Missing(s, NodesOf[v]) # {} /\ NodesOf[v] \in SUBSET Node /\ TRAPFRAME \notin NodesOf[v]
          /\ SameLeaf /\ \A q \in Proc : SameHand(q)
      BY <1>2, <1>6, NodeSets, Zenon DEF walk, SameLeaf, SameHand
    <2> HIDE DEF s, v
    <2> QED BY <1>1, <1>3, <1>6, <2>1, PagesWalk, Zenon
  <1>7. CASE t.mem # NULL /\ kfree(p, t.mem) /\ Undo(p) /\ UNCHANGED <<leaf, tabs>>
    <2>1. PICK r : th' = [th EXCEPT ![p] = r] /\ r.mem = NULL
      BY <1>1, <1>7, UndoMem, Zenon
    <2>2. SameMem(p) /\ th'[p].mem = NULL /\ SameLeaf
      BY <1>1, <1>7, <2>1, Zenon DEF SameMem, SameHand, TypeOK, SameLeaf
    <2> QED BY <1>1, <1>7, <2>2, PagesFreeMem, Zenon
  <1>8. CASE /\ t.mem # NULL /\ leaf[s][v].pa = NULL
             /\ leaf' = [leaf EXCEPT ![s][v] = NewPTE(t)]
             /\ th' = [th EXCEPT ![p].i = v + 1, ![p].mem = NULL]
             /\ UNCHANGED <<kmem, tabs>>
    <2>1. SameMem(p) /\ th'[p].mem = NULL
      BY <1>1, <1>8, Zenon DEF SameMem, SameHand, TypeOK, Thread
    <2>2. NewPTE(t).pa = t.mem
      BY Zenon DEF NewPTE
    <2>3. leaf'[s][v].pa = th[p].mem
          /\ LeafOnly(s, v)
      <3> HIDE DEF s, v
      <3> QED BY <1>1, <1>2, <1>3, <1>8, <2>2, Zenon DEF TypeOK, LeafOnly
    <2>4. Fresh(p) /\ ~Fresh(p)' /\ th'[p].mem = leaf[s][v].pa /\ UNCHANGED <<kmem, tabs>>
      BY <1>1, <1>8, <2>1, Zenon DEF Fresh
    <2> HIDE DEF s, v, t
    <2> QED BY <1>1, <1>2, <1>3, <2>1, <2>3, <2>4, PagesMap, Zenon
  <1> QED
    BY <1>4, <1>5, <1>6, <1>7, <1>8, Zenon DEF uvmalloc

(* exec swaps two tables. *)
LEMMA PagesExecCommit ==
  ASSUME Counting, ThreadInv, PageInv, NEW p \in Proc, ExecCommit(p)
  PROVE  PageInv'
  <1>1. th[p].mem = NULL /\ TypeOK /\ th[p] \in Thread
    BY MemNull, Zenon DEF ExecCommit, Running
  <1>2. \A q \in Proc : SameHand(q)
    BY <1>1, Zenon DEF ExecCommit, TypeOK, Thread, SameHand
  <1>3. p \in Space /\ -p \in Space /\ -p # p /\ TRAPFRAME \in Node /\ -(-p) = p /\ -p \notin Proc
    BY ProcAssumption, NodeAssumption DEF Space, Node
  <1> DEFINE o == [s \in Space |-> IF s = p THEN -p ELSE IF s = -p THEN p ELSE s]
  <1>4. o \in [Space -> Space] /\ \A s \in Space : o[o[s]] = s
    BY <1>3, Zenon
  <1>5. \A s \in Space : leaf'[s] = leaf[o[s]]
    BY <1>1, <1>3, Zenon DEF ExecCommit, TypeOK
  <1>6. \A s \in Space, d \in Node : tabs'[s][d] = tabs[IF d = TRAPFRAME THEN s ELSE o[s]][d]
    BY <1>1, <1>3, Zenon DEF ExecCommit, OldTable, TypeOK, PageInv, ExecHasNoTrapframe
  <1> HIDE DEF o
  <1> QED
    BY <1>1, <1>2, <1>4, <1>5, <1>6, PagesSwap, Zenon DEF ExecCommit

-----------------------------------------------------------------------------
(* At boot nothing refers to any page, and every page is free. *)
LEMMA PageInit ==
  ASSUME Counting, Init
  PROVE  PageInv
  <1>1. NULL \notin PA
    BY KmemAssumption, Zenon
  <1>2. \A q \in Proc : th[q].mem = NULL
    BY Zenon DEF Init, Idle
  <1>3. \A s \in Space, v \in VPage : leaf[s][v].pa = NULL
    BY Zenon DEF Init, NoPTE
  <1>4. \A s \in Space, x \in Node : tabs[s][x] = NULL
    BY Zenon DEF Init
  <1>5. \A x \in PA : LeafRefs(x) = {} /\ TabRefs(x) = {} /\ MemRefs(x) = {}
    BY <1>1, <1>2, <1>3, <1>4, Zenon DEF LeafRefs, TabRefs, MemRefs
  <1>6. \A x \in PA : nL(x) = 0 /\ nT(x) = 0 /\ nM(x) = 0
    BY <1>5, Zenon DEF Counting, Counts
  <1>0. /\ \A x \in PA : refer_count[x] = 0
        /\ \A q \in Proc : freeing[q] = NULL
        /\ freelist = PA
    BY Zenon DEF Init
  <1>7. CountInv
    BY <1>0, <1>6 DEF CountInv, CountOK
  <1>8. EveryPageAccounted
    BY <1>0, <1>1 DEF EveryPageAccounted
  <1>9. SameVPage /\ FreshInHand
    BY <1>2, <1>3, Zenon DEF SameVPage, FreshInHand
  <1>10. ExecHasNoTrapframe
    BY <1>4, NodeAssumption, Zenon DEF ExecHasNoTrapframe, Space, Node
  <1> QED
    BY <1>7, <1>8, <1>9, <1>10, Zenon DEF Counting, CountInvIs, PageInv

(* Every step of the kernel and of user code keeps the pages accounted for. *)
LEMMA PageNext ==
  ASSUME Counting, ThreadInv, PageInv, [Next]_vars
  PROVE  PageInv'
  <1>1. CASE UNCHANGED vars
    <2>1. SameLeaf /\ EveryPageAccounted' /\ initproc \in Proc
      BY <1>1, SameKmem, ProcAssumption, Zenon DEF SameLeaf, vars, space, PageInv
    <2>2. SameMem(initproc) /\ SameHand(initproc) /\ UNCHANGED <<refer_count, tabs>>
      BY <1>1, Zenon DEF SameMem, SameHand, vars, space, kmem
    <2> QED BY <2>1, <2>2, PagesSame, Zenon
  <1>2. ASSUME NEW p \in Proc, Kernel(p) PROVE PageInv'
    BY <1>2, PagesFault, PagesCow, PagesCopyout, PagesCalls, PagesProcPagetable, PagesUvmcopy,
       PagesForkReturns, PagesUvmunmap, PagesFreewalk, PagesUvmalloc, PagesExecCommit, SMTT(40)
    DEF Kernel
  <1>3. ASSUME NEW p \in Proc, UserCode(p) PROVE PageInv'
    BY <1>3, PagesFault, PagesCopyout, PagesCalls, Zenon DEF UserCode
  <1> QED
    BY <1>1, <1>2, <1>3, Zenon DEF Next

-----------------------------------------------------------------------------
(* What the counts say about who refers to a page.                         *)

(* A page that is free, or that kfree is about to free, has count 0. *)
LEMMA FreePageCount ==
  ASSUME Counting, PageInv, NEW x \in PA, x \in freelist \/ \E p \in Proc : freeing[p] = x
  PROVE  Unreferred(x)
  <1>1. refer_count[x] = 0
    <2>1. CountInv /\ EveryPageAccounted
      BY PageInvParts, Zenon
    <2>2. refer_count[x] \in Nat
      BY <2>1, CountAt
    <2>3. refer_count[x] > 0 => x \notin freelist /\ {p \in Proc : freeing[p] = x} = {}
      BY <2>1, Zenon DEF EveryPageAccounted
    <2>4. ~(refer_count[x] > 0)
      BY <2>3, Zenon
    <2> QED BY <2>2, <2>4
  <1>2. nL(x) = 0 /\ nM(x) = 0
    BY <1>1, CountAt, PageInvParts
  <1>3. /\ \A s \in Space, v \in VPage : leaf[s][v].pa = x => nL(x) > 0
        /\ \A q \in Proc : th[q].mem = x => nM(x) > 0
    BY Zenon DEF Counting, Referred
  <1>4. ~(nL(x) > 0) /\ ~(nM(x) > 0)
    BY <1>2
  <1> QED
    BY <1>3, <1>4, Zenon DEF Unreferred

(* A page with count 1 that is mapped is mapped by one table. *)
LEMMA OneTable ==
  ASSUME Counting, TypeOK, PageInv, NEW s \in Space, NEW t \in Space, NEW v \in VPage,
         leaf[s][v].pa # NULL, refer_count[leaf[s][v].pa] = 1, leaf[t][v].pa = leaf[s][v].pa
  PROVE  t = s
  <1>1. PICK x : x = leaf[s][v].pa
    OBVIOUS
  <1>2. x \in PA
    BY <1>1 DEF TypeOK, PTE
  <1>3. nL(x) \in Nat /\ nT(x) \in Nat /\ nM(x) \in Nat /\ 1 = nL(x) + nT(x) + nM(x)
    BY <1>1, <1>2, CountAt, PageInvParts, Zenon
  <1>4. s # t => nL(x) > 1
    BY <1>1, Zenon DEF Counting, Referred
  <1>5. ~(nL(x) > 1)
    BY <1>3
  <1> QED
    BY <1>4, <1>5, Zenon

(* The references that the counts leave room for. *)
LEMMA RefsAreSole ==
  ASSUME Counting, ThreadInv, PageInv
  PROVE  SoleRefs
  <1>1. TypeOK /\ CountInv /\ SameVPage /\ FreshInHand
    BY PageInvParts, Zenon DEF ThreadInv
  <1>2. ASSUME NEW x \in freelist PROVE Unreferred(x)
    <2>1. x \in PA
      BY <1>1, Zenon DEF TypeOK
    <2> QED BY <2>1, FreePageCount, Zenon
  <1>3. ASSUME NEW p \in Proc, freeing[p] # NULL PROVE Unreferred(freeing[p])
    <2>1. freeing[p] \in PA
      BY <1>1, <1>3, Zenon DEF TypeOK
    <2> QED BY <2>1, FreePageCount, Zenon
  <1>4. ASSUME NEW p \in Proc, th[p].pc \in {"cow_copy", "uvmalloc"}, th[p].mem # NULL
        PROVE  /\ \A s \in Space, v \in VPage : leaf[s][v].pa # th[p].mem
               /\ \A q \in Proc : q # p => th[q].mem # th[p].mem
    <2>1. Fresh(p)
      BY <1>4, Zenon DEF Fresh
    <2>2. /\ nL(th[p].mem) = 0
          /\ \A q \in Proc : q # p => th[q].mem # th[p].mem
      BY <1>1, <2>1, FreshAlone, Zenon
    <2>3. \A s \in Space, v \in VPage : leaf[s][v].pa = th[p].mem => nL(th[p].mem) > 0
      BY Zenon DEF Counting, Referred
    <2>4. ~(nL(th[p].mem) > 0)
      BY <2>2
    <2> QED BY <2>2, <2>3, <2>4, Zenon
  <1> QED
    BY <1>1, <1>2, <1>3, <1>4, OneTable, Zenon DEF SoleRefs
=============================================================================
