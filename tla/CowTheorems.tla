----------------------------- MODULE CowTheorems -----------------------------
(***************************************************************************)
(* The theorems about Cow, for every number of processes and pages and     *)
(* every page-table shape: the reference counts are exact and every page   *)
(* is accounted for; sizes and page tables agree, so that no panic of vm.c *)
(* is reached; and copy-on-write does not show, where copyout is served.   *)
(*                                                                         *)
(* The argument about the counts is arithmetic: a step adds or removes     *)
(* single references, so the numbers of references of each kind to a page  *)
(* change by at most one, and so does refer_count.                         *)
(***************************************************************************)
EXTENDS CowThread, CowPages, CowPrivate, FiniteSetTheorems, FunctionTheorems

-----------------------------------------------------------------------------
(* Counting.                                                               *)

(* There are finitely many places a page can be referred to from, and      *)
(* twice as many page tables as processes.                                 *)
LEMMA FiniteRefs ==
  /\ IsFiniteSet(Proc) /\ IsFiniteSet(Space) /\ Cardinality(Proc) \in Nat
  /\ Cardinality(Space) <= 2 * Cardinality(Proc) /\ Cardinality(Space) \in Nat
  /\ IsFiniteSet(Space \X VPage) /\ IsFiniteSet(Space \X Node)
  <1>1. IsFiniteSet(Proc) /\ Cardinality(Proc) \in Nat
    BY ProcAssumption, FS_CardinalityType, Zenon
  <1>2. IsFiniteSet({-p : p \in Proc}) /\ Cardinality({-p : p \in Proc}) <= Cardinality(Proc)
    <2> DEFINE f == [p \in Proc |-> -p]
    <2>1. f \in Surjection(Proc, {-p : p \in Proc})
      BY Zenon DEF Surjection
    <2> QED BY <1>1, <2>1, FS_Surjection, Zenon
  <1>3. IsFiniteSet(Space) /\ Cardinality(Space) \in Nat
        /\ Cardinality(Space) <= 2 * Cardinality(Proc)
    <2> DEFINE N == {-p : p \in Proc}
    <2>1. /\ IsFiniteSet(Proc \cup N)
          /\ Cardinality(Proc \cup N) = Cardinality(Proc) + Cardinality(N) - Cardinality(Proc \cap N)
      BY <1>1, <1>2, FS_Union, Zenon
    <2>2. Cardinality(Proc \cap N) \in Nat /\ Cardinality(N) \in Nat
      BY <1>1, <1>2, FS_Intersection, FS_CardinalityType, Zenon
    <2>3. Cardinality(Proc \cup N) \in Nat
      BY <2>1, FS_CardinalityType, Zenon
    <2> QED BY <1>1, <1>2, <2>1, <2>2, <2>3, SMTT(40) DEF Space
  <1>4. IsFiniteSet(VPage)
    BY FS_Interval, SizeAssumption DEF VPage
  <1>5. IsFiniteSet(Node)
    <2> DEFINE f == [v \in VPage |-> NodesOf[v]]
               U == {NodesOf[v] : v \in VPage}
    <2>1. f \in Surjection(VPage, U)
      BY Zenon DEF Surjection
    <2>2. IsFiniteSet(U)
      BY <1>4, <2>1, FS_Surjection, Zenon
    <2>3. IsFiniteSet(UNION U)
      BY <2>2, NodeAssumption, FS_UNION, Zenon
    <2> QED BY <2>3, NodeAssumption, FS_Union, Zenon DEF Node
  <1> QED
    BY <1>1, <1>3, <1>4, <1>5, FS_Product, Zenon

(* The numbers of references are natural numbers, zero for no reference. *)
LEMMA CountsOf ==
  ASSUME NEW x
  PROVE  /\ IsFiniteSet(LeafRefs(x)) /\ IsFiniteSet(TabRefs(x)) /\ IsFiniteSet(MemRefs(x))
         /\ nL(x) \in Nat /\ nT(x) \in Nat /\ nM(x) \in Nat
         /\ nL(x) = 0 <=> LeafRefs(x) = {}
         /\ nT(x) = 0 <=> TabRefs(x) = {}
         /\ nM(x) = 0 <=> MemRefs(x) = {}
  <1>1. LeafRefs(x) \in SUBSET (Space \X VPage) /\ TabRefs(x) \in SUBSET (Space \X Node)
        /\ MemRefs(x) \in SUBSET Proc
    BY Zenon DEF LeafRefs, TabRefs, MemRefs
  <1>2. IsFiniteSet(LeafRefs(x)) /\ IsFiniteSet(TabRefs(x)) /\ IsFiniteSet(MemRefs(x))
    BY <1>1, FiniteRefs, FS_Subset, Zenon
  <1> QED
    BY <1>2, FS_CardinalityType, FS_EmptySet, Zenon DEF nL, nT, nM

(* The number of elements when one element e of a set may come or go. *)
LEMMA OneElement ==
  ASSUME NEW S, NEW T, IsFiniteSet(S), NEW e,
         \A r : r # e => (r \in T <=> r \in S)
  PROVE  Cardinality(T) = Cardinality(S) + (IF e \in T THEN 1 ELSE 0) - (IF e \in S THEN 1 ELSE 0)
  <1>1. Cardinality(S) \in Nat
    BY FS_CardinalityType, Zenon
  <1>2. CASE e \in T
    <2>1. T = S \cup {e}
      BY <1>2, Zenon
    <2> QED BY <1>1, <1>2, <2>1, FS_AddElement, SMTT(40)
  <1>3. CASE e \notin T
    <2>1. T = S \ {e}
      BY <1>3, Zenon
    <2> QED BY <1>1, <1>3, <2>1, FS_RemoveElement, SMTT(60)
  <1> QED
    BY <1>2, <1>3, Zenon

(* One PTE changes: v of space s. *)
LEMMA LeafChanges ==
  ASSUME NEW s \in Space, NEW v \in VPage, LeafOnly(s, v), NEW x
  PROVE  nL(x)' = nL(x) + (IF leaf'[s][v].pa = x THEN 1 ELSE 0)
                        - (IF leaf[s][v].pa = x THEN 1 ELSE 0)
  <1>1. \A r : r # <<s, v>> => (r \in LeafRefs(x)' <=> r \in LeafRefs(x))
    BY DEF LeafRefs, LeafOnly, Space, VPage
  <1>2. <<s, v>> \in LeafRefs(x)' <=> leaf'[s][v].pa = x
    BY Zenon DEF LeafRefs, Space, VPage
  <1>3. <<s, v>> \in LeafRefs(x) <=> leaf[s][v].pa = x
    BY Zenon DEF LeafRefs
  <1>4. IsFiniteSet(LeafRefs(x))
    BY CountsOf, Zenon
  <1>5. nL(x)' = nL(x) + (IF <<s, v>> \in LeafRefs(x)' THEN 1 ELSE 0)
                       - (IF <<s, v>> \in LeafRefs(x) THEN 1 ELSE 0)
    BY <1>1, <1>4, OneElement, SMTT(40) DEF nL
  <1> QED
    BY <1>2, <1>3, <1>5, Zenon

(* One page-table slot changes: node d of space s. *)
LEMMA TabChanges ==
  ASSUME NEW s \in Space, NEW d \in Node, TabOnly(s, d), NEW x
  PROVE  nT(x)' = nT(x) + (IF tabs'[s][d] = x THEN 1 ELSE 0)
                        - (IF tabs[s][d] = x THEN 1 ELSE 0)
  <1>1. \A r : r # <<s, d>> => (r \in TabRefs(x)' <=> r \in TabRefs(x))
    BY DEF TabRefs, TabOnly, Space, Node, VPage
  <1>2. <<s, d>> \in TabRefs(x)' <=> tabs'[s][d] = x
    BY Zenon DEF TabRefs, Space, Node, VPage
  <1>3. <<s, d>> \in TabRefs(x) <=> tabs[s][d] = x
    BY Zenon DEF TabRefs
  <1>4. IsFiniteSet(TabRefs(x))
    BY CountsOf, Zenon
  <1>5. nT(x)' = nT(x) + (IF <<s, d>> \in TabRefs(x)' THEN 1 ELSE 0)
                       - (IF <<s, d>> \in TabRefs(x) THEN 1 ELSE 0)
    BY <1>1, <1>4, OneElement DEF nT
  <1> QED
    BY <1>2, <1>3, <1>5, Zenon

(* One thread changes the page it holds. *)
LEMMA MemChanges ==
  ASSUME NEW p \in Proc, SameMem(p), NEW x
  PROVE  nM(x)' = nM(x) + (IF th'[p].mem = x THEN 1 ELSE 0)
                        - (IF th[p].mem = x THEN 1 ELSE 0)
  <1>1. \A r : r # p => (r \in MemRefs(x)' <=> r \in MemRefs(x))
    BY Zenon DEF MemRefs, SameMem, SameHand
  <1>2. (p \in MemRefs(x)' <=> th'[p].mem = x) /\ (p \in MemRefs(x) <=> th[p].mem = x)
    BY Zenon DEF MemRefs
  <1>4. IsFiniteSet(MemRefs(x))
    BY CountsOf, Zenon
  <1>5. nM(x)' = nM(x) + (IF p \in MemRefs(x)' THEN 1 ELSE 0)
                       - (IF p \in MemRefs(x) THEN 1 ELSE 0)
    BY <1>1, <1>4, OneElement, Zenon DEF nM
  <1> QED
    BY <1>2, <1>5, Zenon

(* What does not change does not change the numbers. *)
LEMMA RefsSame ==
  ASSUME NEW x
  PROVE  /\ SameLeaf => nL(x)' = nL(x)
         /\ UNCHANGED tabs => nT(x)' = nT(x)
         /\ (\A q \in Proc : SameHand(q)) => nM(x)' = nM(x)
  <1>1. SameLeaf => LeafRefs(x)' = LeafRefs(x)
    BY Zenon DEF LeafRefs, SameLeaf, Space, VPage
  <1>2. UNCHANGED tabs => TabRefs(x)' = TabRefs(x)
    BY Zenon DEF TabRefs, Space, Node, VPage
  <1>3. (\A q \in Proc : SameHand(q)) => MemRefs(x)' = MemRefs(x)
    BY Zenon DEF MemRefs, SameHand
  <1> QED
    BY <1>1, <1>2, <1>3, Zenon DEF nL, nT, nM

(* A place that refers to a page counts; two threads that hold it, or two  *)
(* tables that map it, count twice.                                        *)
LEMMA ReferredCounts ==
  ASSUME NEW x
  PROVE  /\ \A s \in Space, v \in VPage : leaf[s][v].pa = x => nL(x) > 0
         /\ \A s \in Space, d \in Node : tabs[s][d] = x => nT(x) > 0
         /\ \A p \in Proc : th[p].mem = x => nM(x) > 0
         /\ \A p, q \in Proc : p # q /\ th[p].mem = x /\ th[q].mem = x => nM(x) > 1
         /\ \A s, t \in Space, v \in VPage :
              s # t /\ leaf[s][v].pa = x /\ leaf[t][v].pa = x => nL(x) > 1
  <1>1. \A s \in Space, v \in VPage : leaf[s][v].pa = x => <<s, v>> \in LeafRefs(x)
    BY Zenon DEF LeafRefs
  <1>2. \A s \in Space, d \in Node : tabs[s][d] = x => <<s, d>> \in TabRefs(x)
    BY Zenon DEF TabRefs
  <1>3. \A p \in Proc : th[p].mem = x => p \in MemRefs(x)
    BY Zenon DEF MemRefs
  <1>4. ASSUME NEW p \in Proc, NEW q \in Proc, p # q, th[p].mem = x, th[q].mem = x
        PROVE  nM(x) > 1
    <2>1. p \in MemRefs(x) /\ q \in MemRefs(x)
      BY <1>3, <1>4, Zenon
    <2>2. nM(x) # 1
      BY <1>4, <2>1, CountsOf, FS_Singleton, SMTT(40) DEF nM
    <2> QED BY <2>1, <2>2, CountsOf, SMTT(40)
  <1>5. /\ LeafRefs(x) # {} => nL(x) > 0
        /\ TabRefs(x) # {} => nT(x) > 0
        /\ MemRefs(x) # {} => nM(x) > 0
    BY CountsOf
  <1>6. ASSUME NEW s \in Space, NEW t \in Space, NEW v \in VPage, s # t,
               leaf[s][v].pa = x, leaf[t][v].pa = x
        PROVE  nL(x) > 1
    <2>1. <<s, v>> \in LeafRefs(x) /\ <<t, v>> \in LeafRefs(x) /\ <<s, v>> # <<t, v>>
      BY <1>1, <1>6
    <2>2. nL(x) # 1
      BY <2>1, CountsOf, FS_Singleton DEF nL
    <2> QED BY <2>1, <2>2, CountsOf
  <1> QED
    BY <1>1, <1>2, <1>3, <1>4, <1>5, <1>6, Zenon

(* CountInv says what RefcountExact and TablesAreNotShared say. *)
LEMMA CountInvMeans == CountInv <=> RefcountExact /\ TablesAreNotShared
  <1>1. \A x \in PA : (nT(x) > 0 => nT(x) = 1 /\ nL(x) = 0 /\ nM(x) = 0)
          <=> (TabRefs(x) # {} => Cardinality(TabRefs(x)) = 1 /\ LeafRefs(x) = {} /\ MemRefs(x) = {})
    <2> SUFFICES ASSUME NEW x \in PA
                 PROVE (nT(x) > 0 => nT(x) = 1 /\ nL(x) = 0 /\ nM(x) = 0)
          <=> (TabRefs(x) # {} => nT(x) = 1 /\ LeafRefs(x) = {} /\ MemRefs(x) = {})
      BY Zenon DEF nT
    <2>1. nT(x) > 0 <=> TabRefs(x) # {}
      BY CountsOf
    <2> QED BY <2>1, CountsOf, Zenon
  <1> QED
    BY <1>1, Zenon DEF CountInv, CountOK, RefcountExact, TablesAreNotShared, nL, nT, nM

(* A page is mapped at most once in each page table. *)
LEMMA LeafBound ==
  ASSUME NEW S \in SUBSET (Space \X VPage), \A a, b \in S : a[2] = b[2]
  PROVE  Cardinality(S) <= 2 * Cardinality(Proc)
  <1> DEFINE g == [r \in S |-> r[1]]
  <1>1. g \in Injection(S, Space)
    <2>1. g \in [S -> Space]
      OBVIOUS
    <2>2. ASSUME NEW a \in S, NEW b \in S, g[a] = g[b] PROVE a = b
      <3>1. a = <<a[1], a[2]>> /\ b = <<b[1], b[2]>> /\ a[1] = b[1]
        BY <2>2
      <3>2. a[2] = b[2]
        OBVIOUS
      <3> QED BY <3>1, <3>2, Zenon
    <2> HIDE DEF g
    <2> QED BY <2>1, <2>2, Fun_IsInj, Zenon
  <1>2. IsFiniteSet(S) /\ Cardinality(S) <= Cardinality(Space)
    BY <1>1, FiniteRefs, FS_Injection, Zenon
  <1>3. Cardinality(S) \in Nat
    BY <1>2, FS_CardinalityType, Zenon
  <1> QED
    BY <1>2, <1>3, FiniteRefs, SMTT(40)

(* No page has more references than the processes can make. *)
LEMMA CountBounded == SameVPage => CountsFit
  <1> SUFFICES ASSUME SameVPage, NEW x \in PA
               PROVE  nL(x) <= 2 * Cardinality(Proc) /\ nM(x) <= Cardinality(Proc)
    BY Zenon DEF CountsFit
  <1>1. LeafRefs(x) \in SUBSET (Space \X VPage) /\ \A a, b \in LeafRefs(x) : a[2] = b[2]
    BY KmemAssumption DEF LeafRefs, SameVPage
  <1>2. MemRefs(x) \in SUBSET Proc
    BY Zenon DEF MemRefs
  <1> QED
    BY <1>1, <1>2, LeafBound, FiniteRefs, FS_Subset, Zenon DEF nL, nM

(* Two sets that a map g matches one to one have as many elements. *)
LEMMA Matched ==
  ASSUME NEW U, NEW S \in SUBSET U, NEW T \in SUBSET U, IsFiniteSet(S), NEW g \in [U -> U],
         \A r \in U : g[g[r]] = r,
         \A r \in U : r \in T <=> g[r] \in S
  PROVE  Cardinality(T) = Cardinality(S)
  <1> DEFINE h == [r \in S |-> g[r]]
  <1>1. h \in [S -> T]
    OBVIOUS
  <1>2. \A a, b \in S : h[a] = h[b] => a = b
    <2>1. \A a \in S : g[h[a]] = a
      OBVIOUS
    <2> QED BY <2>1, Zenon
  <1>3. \A t \in T : \E a \in S : h[a] = t
    <2>1. \A t \in T : g[t] \in S /\ h[g[t]] = t
      OBVIOUS
    <2> QED BY <2>1, Zenon
  <1> HIDE DEF h
  <1>4. h \in Bijection(S, T)
    BY <1>1, <1>2, <1>3, Fun_IsBij, Zenon
  <1>5. ExistsBijection(S, T)
    BY <1>4, Zenon DEF ExistsBijection
  <1> QED
    BY <1>5, FS_Bijection, Zenon

(* Page tables that change places, as f tells, hold the same references. *)
LEMMA SwapLeaf ==
  ASSUME NEW f \in [Space -> Space], \A s \in Space : f[f[s]] = s,
         \A s \in Space : leaf'[s] = leaf[f[s]], NEW x
  PROVE  nL(x)' = nL(x)
  <1> DEFINE U == Space \X VPage
             S == LeafRefs(x)
             T == {r \in U : leaf'[r[1]][r[2]].pa = x}
             g == [r \in U |-> <<f[r[1]], r[2]>>]
  <1>1. S \in SUBSET U /\ T \in SUBSET U /\ IsFiniteSet(S)
    <2>1. S \in SUBSET U /\ T \in SUBSET U
      BY Zenon DEF LeafRefs
    <2>2. IsFiniteSet(LeafRefs(x)) /\ IsFiniteSet(TabRefs(x))
      BY CountsOf, Zenon
    <2> QED BY <2>1, <2>2, Zenon
  <1>2. g \in [U -> U] /\ \A r \in U : g[g[r]] = r
    OBVIOUS
  <1>3. \A r \in U : r \in T <=> g[r] \in S
    BY Zenon DEF LeafRefs
  <1>4. LeafRefs(x)' = T
    BY Zenon DEF LeafRefs, Space, VPage
  <1> HIDE DEF U, S, T, g
  <1>5. Cardinality(T) = Cardinality(S)
    BY <1>1, <1>2, <1>3, Matched, SMTT(40)
  <1> QED
    BY <1>4, <1>5, Zenon DEF nL, S

(* The same for page-table pages, when node TRAPFRAME stays. *)
LEMMA SwapTab ==
  ASSUME NEW f \in [Space -> Space], \A s \in Space : f[f[s]] = s,
         \A s \in Space, d \in Node : tabs'[s][d] = tabs[IF d = TRAPFRAME THEN s ELSE f[s]][d],
         NEW x
  PROVE  nT(x)' = nT(x)
  <1> DEFINE U == Space \X Node
             S == TabRefs(x)
             T == {r \in U : tabs'[r[1]][r[2]] = x}
             g == [r \in U |-> <<IF r[2] = TRAPFRAME THEN r[1] ELSE f[r[1]], r[2]>>]
  <1>1. S \in SUBSET U /\ T \in SUBSET U /\ IsFiniteSet(S)
    <2>1. S \in SUBSET U /\ T \in SUBSET U
      BY Zenon DEF TabRefs
    <2>2. IsFiniteSet(LeafRefs(x)) /\ IsFiniteSet(TabRefs(x))
      BY CountsOf, Zenon
    <2> QED BY <2>1, <2>2, Zenon
  <1>2. g \in [U -> U] /\ \A r \in U : g[g[r]] = r
    OBVIOUS
  <1>3. \A r \in U : r \in T <=> g[r] \in S
    <2>1. ASSUME NEW s \in Space, NEW d \in Node PROVE <<s, d>> \in T <=> g[<<s, d>>] \in S
      <3>1. <<s, d>> \in T <=> tabs'[s][d] = x
        OBVIOUS
      <3>2. g[<<s, d>>] = <<IF d = TRAPFRAME THEN s ELSE f[s], d>>
        BY Zenon
      <3>3. <<IF d = TRAPFRAME THEN s ELSE f[s], d>> \in S
              <=> tabs[IF d = TRAPFRAME THEN s ELSE f[s]][d] = x
        BY Zenon DEF TabRefs
      <3> QED BY <3>1, <3>2, <3>3, SMTT(60)
    <2>2. \A r \in U : r = <<r[1], r[2]>> /\ r[1] \in Space /\ r[2] \in Node
      OBVIOUS
    <2> HIDE DEF U, T, S, g
    <2> QED BY <2>1, <2>2, SMTT(40)
  <1>4. TabRefs(x)' = T
    BY Zenon DEF TabRefs, Space, Node, VPage
  <1> HIDE DEF U, S, T, g
  <1>5. Cardinality(T) = Cardinality(S)
    BY <1>1, <1>2, <1>3, Matched, SMTT(40)
  <1> QED
    BY <1>4, <1>5, Zenon DEF nT, S

-----------------------------------------------------------------------------
(* All of it, for this step and for the state after it. *)

(* Every number is a natural number. *)
LEMMA CountNatHolds == CountNat
  BY CountsOf, Zenon DEF CountNat

(* CountInv, in the words of the properties. *)
LEMMA CountInvHolds == CountInvIs
  BY CountInvMeans, Zenon DEF CountInvIs

(* The numbers of a page are bounded. *)
LEMMA CountBoundHolds == CountBound
  BY CountBounded, Zenon DEF CountBound

(* The facts about counting hold of every step. *)
LEMMA CountingHolds == Counting
  <1>1. CountNat' /\ CountInvIs' /\ CountBound'
    BY CountNatHolds, CountInvHolds, CountBoundHolds, PTL
  <1>2. Counts
    BY <1>1, CountNatHolds, CountsOf, FiniteRefs, Zenon DEF Counts
  <1>3. LeafChange /\ TabChange
    BY LeafChanges, TabChanges, Zenon DEF LeafChange, TabChange
  <1>4. MemChange /\ SameRefs
    BY MemChanges, RefsSame, Zenon DEF MemChange, SameRefs
  <1>5. Referred
    BY ReferredCounts, Zenon DEF Referred
  <1>6. Swap
    BY SwapLeaf, SwapTab, Zenon DEF Swap
  <1> QED
    BY <1>1, <1>2, <1>3, <1>4, <1>5, <1>6, CountInvHolds, CountBoundHolds, Zenon DEF Counting

-----------------------------------------------------------------------------
(* Results.                                                                *)

(* The pages stay accounted for in every reachable state. *)
THEOREM PageInvariant == Spec => []PageInv
  <1>1. Init => PageInv
    BY CountingHolds, PageInit
  <1>2. ThreadInv /\ PageInv /\ [Next]_vars => PageInv'
    BY CountingHolds, PageNext, SMTT(40)
  <1> QED
    BY <1>1, <1>2, ThreadInvariant, PTL DEF Spec

(* refer_count is exact, for any number of processes that fits the width   *)
(* of the counter: kalloc, kfree and increase_refer are called once for    *)
(* each reference made or dropped, whatever the interleaving and whichever *)
(* allocation fails.                                                       *)
THEOREM RefcountsAreExact == Spec => []RefcountExact
  <1>1. PageInv => RefcountExact
    BY SMTT(40) DEF PageInv
  <1> QED
    BY <1>1, PageInvariant, PTL

(* No page is lost or freed twice. *)
THEOREM NoPageIsLost == Spec => []EveryPageAccounted
  <1>1. PageInv => EveryPageAccounted
    BY SMTT(40) DEF PageInv
  <1> QED
    BY <1>1, PageInvariant, PTL

(* No page of a page table is mapped, shared or in hand. *)
THEOREM TablesStayPrivate == Spec => []TablesAreNotShared
  <1>1. PageInv => TablesAreNotShared
    BY DEF PageInv
  <1> QED
    BY <1>1, PageInvariant, PTL

(* p->sz and the page table agree: a page is mapped exactly when it is     *)
(* below the size, or where the loop of a call that builds, shrinks or     *)
(* frees the address space says.                                           *)
THEOREM SizesAgree == Spec => []SizeInv
  BY SizeInit, SizeNext, ThreadInvariant, PTL DEF Spec

(* No panic of vm.c is reached: uvmcopy finds every page below p->sz,      *)
(* mappages never remaps, uvmunmap finds what it unmaps, and freewalk      *)
(* meets no leaf, whichever allocation fails and wherever fork, exec and   *)
(* sbrk give up.                                                           *)
THEOREM PanicsUnreachable == Spec => []NoVmPanic
  <1>1. ThreadInv /\ SizeInv => NoVmPanic
    BY SizesNoPanic
  <1> QED
    BY <1>1, SizesAgree, ThreadInvariant, PTL

(* The counts are exact, so cow_alloc may conclude from a count of one     *)
(* that nobody else maps the page.                                         *)
THEOREM CountsMeanSole == Spec => []SoleRefs
  <1>1. ThreadInv /\ PageInv => SoleRefs
    BY CountingHolds, RefsAreSole
  <1> QED
    BY <1>1, ThreadInvariant, PageInvariant, PTL

(* What holds while copyout is served: a writable page is mapped once, but *)
(* for the page cow_alloc is copying and those of a killed process.        *)
THEOREM ViewInvariant == Spec /\ []CopyoutServed => []ViewInv
  <1>1. Init => ViewInv
    BY PrivateInit
  <1>2. ThreadInv /\ SizeInv /\ SoleRefs /\ CopyoutServed /\ ViewInv /\ [Next]_vars => ViewInv'
    BY PrivateNext
  <1> QED
    BY <1>1, <1>2, ThreadInvariant, SizesAgree, CountsMeanSole, PTL DEF Spec

(* A page that a running program can store to is mapped nowhere else, as   *)
(* long as copyout finds memory for the copies it needs and is given no    *)
(* page that is read-only for another reason than copy-on-write.           *)
THEOREM WritablePagesArePrivate == Spec /\ []CopyoutServed => []WritableIsPrivate
  <1>1. ThreadInv /\ SoleRefs /\ ViewInv => WritableIsPrivate
    BY ViewPrivate
  <1> QED
    BY <1>1, ThreadInvariant, CountsMeanSole, ViewInvariant, PTL

(* Under the same condition sharing pages is invisible: copy-on-write fork *)
(* implements a fork that copies every page.                               *)
THEOREM SharingIsInvisible == Spec /\ []CopyoutServed => PrivateMemory
  <1>1. Init => PM!Init
    BY PrivateInit
  <1>2. ThreadInv /\ SizeInv /\ SoleRefs /\ ViewInv /\ CopyoutServed /\ [Next]_vars => [PM!Next]_View
    BY PrivateNext
  <1> QED
    BY <1>1, <1>2, ThreadInvariant, SizesAgree, CountsMeanSole, ViewInvariant, PTL
    DEF Spec, PrivateMemory, PM!Spec

(* Programs that never have the kernel write to their memory need no such  *)
(* condition: with fork, stores, sbrk, exec, exit and wait(0) alone,       *)
(* copy-on-write is invisible whatever allocation fails.                   *)
THEOREM InvisibleWithoutCopyout ==
  ASSUME CopyoutArgs = {}, WaitAddrs = {}
  PROVE  Spec => PrivateMemory /\ []WritableIsPrivate
  <1>1. ThreadInv /\ NoCopyout /\ [Next]_vars => NoCopyout'
    BY NoCopyoutNext
  <1>2. ThreadInv /\ NoCopyout => CopyoutServed
    BY NoCopyoutServed
  <1>3. Spec => []CopyoutServed
    BY <1>1, <1>2, NoCopyoutInit, ThreadInvariant, PTL DEF Spec
  <1> QED
    BY <1>3, SharingIsInvisible, WritablePagesArePrivate, PTL
=============================================================================
