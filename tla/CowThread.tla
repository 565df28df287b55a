----------------------------- MODULE CowThread ------------------------------
(***************************************************************************)
(* ThreadInv of CowInv is an invariant: one lemma for each action, first   *)
(* for the steps of one thread (faults, cow_alloc, copyout and the start   *)
(* of the system calls), then for those that build or free page tables.    *)
(* Then: without calls that fill user memory no thread enters copyout.     *)
(***************************************************************************)
EXTENDS CowSizes

-----------------------------------------------------------------------------
(* Facts about single threads: the step of one thread that changes neither *)
(* states nor parents leaves every other thread as it was, and the thread  *)
(* works on the space it did, or on its own, or on a zombie child of its.  *)
LEMMA ThreadLocal ==
  ASSUME ThreadInv, NEW p \in Proc, NEW r \in Thread,
         th[p].pc # "none", r.pc # "none",
         th' = [th EXCEPT ![p] = r],
         UNCHANGED <<state, parent>>,
         Locals(r),
         r.op = "userinit" => r.np = p,
         r.op \in {"sbrk", "shrink"} => r.np = p,
         r.op = "exec" => r.np = -p,
         r.op = "fork" => th[p].op = "fork" /\ r.np = th[p].np,
         r.op = "wait" => r.np \in Proc /\ state[r.np] = "ZOMBIE" /\ parent[r.np] = p
  PROVE  /\ th' \in [Proc -> Thread]
         /\ th'[p] = r
         /\ \A q \in Proc : q # p => th'[q] = th[q]
         /\ \A q \in Proc : Locals(th[q])' /\ Target(q, th[q])'
         /\ ForksApart' /\ DeadIsIdle'
  <1>1. th \in [Proc -> Thread]
    BY Zenon DEF ThreadInv, TypeOK
  <1>2. th'[p] = r /\ \A q \in Proc : q # p => th'[q] = th[q]
    BY <1>1, Zenon
  <1>3. th' \in [Proc -> Thread]
    BY <1>1, Zenon
  <1>4. \A q \in Proc : Locals(th[q])'
    BY <1>2 DEF ThreadInv, Locals, VPage
  <1>5. th[p] # Idle
    BY DEF Idle
  <1>6. ASSUME NEW q \in Proc PROVE Target(q, th[q])'
    <2>1. th[q].op = "fork" => th[q].np # p
      BY <1>5 DEF ThreadInv, Target
    <2>2. CASE q = p
      <3>1. r.op = "fork" => r.np \in Proc /\ r.np # p /\ state[r.np] = "USED" /\ th[r.np] = Idle
        BY <1>5 DEF ThreadInv, Target
      <3> QED BY <1>2, <2>2, <3>1, Zenon DEF Target
    <2>3. CASE q # p
      BY <1>2, <2>1, <2>3 DEF ThreadInv, Target
    <2> QED BY <2>2, <2>3, Zenon
  <1>7. ForksApart'
    BY <1>2 DEF ThreadInv, ForksApart
  <1>8. DeadIsIdle'
    BY <1>2, <1>5, Zenon DEF ThreadInv, DeadIsIdle
  <1> QED
    BY <1>2, <1>3, <1>4, <1>6, <1>7, <1>8, Zenon

(* The same for a step that does not change any page table, the rest of    *)
(* the type being preserved.                                               *)
LEMMA ThreadOnly ==
  ASSUME ThreadInv, NEW p \in Proc, NEW r \in Thread,
         th[p].pc # "none", r.pc # "none",
         th' = [th EXCEPT ![p] = r],
         UNCHANGED <<state, parent, leaf>>,
         Locals(r), FaultPage(r, leaf[p]),
         r.op = "userinit" => r.np = p,
         r.op \in {"sbrk", "shrink"} => r.np = p,
         r.op = "exec" => r.np = -p,
         r.op = "fork" => th[p].op = "fork" /\ r.np = th[p].np,
         r.op = "wait" => r.np \in Proc /\ state[r.np] = "ZOMBIE" /\ parent[r.np] = p,
         freelist' \subseteq PA, refer_count' \in [PA -> 0..(REFMOD - 1)],
         freeing' \in [Proc -> PA \cup {NULL}], content' \in [PA -> Val],
         tabs' \in [Space -> [Node -> PA \cup {NULL}]],
         sz' \in [Proc -> 0..(MAXVP * PGSIZE)], wait_lock' \in Proc \cup {NULL}
  PROVE  ThreadInv'
  <1>1. /\ th' \in [Proc -> Thread]
        /\ th'[p] = r
        /\ \A q \in Proc : q # p => th'[q] = th[q]
        /\ \A q \in Proc : Locals(th[q])' /\ Target(q, th[q])'
        /\ ForksApart' /\ DeadIsIdle'
    BY ThreadLocal, Zenon
  <1>2. TypeOK'
    BY <1>1, Zenon DEF ThreadInv, TypeOK
  <1>3. \A q \in Proc : FaultPage(th[q], leaf[q])'
    BY <1>1, Zenon DEF ThreadInv, FaultPage, VPage
  <1>4. CowIsValid'
    BY Zenon DEF ThreadInv, CowIsValid, VPage, Space
  <1> QED
    BY <1>1, <1>2, <1>3, <1>4, Zenon DEF ThreadInv

(* The types of what kalloc, kfree and increase_refer change. *)
LEMMA KmemTypes ==
  ASSUME TypeOK, NEW p \in Proc
  PROVE  /\ \A pa \in PA : kalloc(pa) =>
              /\ freelist' \subseteq PA /\ refer_count' \in [PA -> 0..(REFMOD - 1)]
              /\ freeing' \in [Proc -> PA \cup {NULL}]
         /\ \A pa \in PA : kfree(p, pa) \/ increase_refer(pa) =>
              /\ freelist' \subseteq PA /\ refer_count' \in [PA -> 0..(REFMOD - 1)]
              /\ freeing' \in [Proc -> PA \cup {NULL}]
         /\ kfree_push(p) \/ kalloc_fails \/ UNCHANGED kmem =>
              /\ freelist' \subseteq PA /\ refer_count' \in [PA -> 0..(REFMOD - 1)]
              /\ freeing' \in [Proc -> PA \cup {NULL}]
  <1>0. REFMOD \in Nat /\ REFMOD > 1
    BY KmemAssumption
  <1>1. \A n \in Nat : n % REFMOD \in 0..(REFMOD - 1)
    BY <1>0
  <1>2. ASSUME NEW pa \in PA, kalloc(pa)
        PROVE  /\ freelist' \subseteq PA /\ refer_count' \in [PA -> 0..(REFMOD - 1)]
               /\ freeing' \in [Proc -> PA \cup {NULL}]
    BY <1>0, <1>2 DEF TypeOK, kalloc
  <1>3. ASSUME NEW pa \in PA, kfree(p, pa)
        PROVE  /\ freelist' \subseteq PA /\ refer_count' \in [PA -> 0..(REFMOD - 1)]
               /\ freeing' \in [Proc -> PA \cup {NULL}]
    <2>1. (refer_count[pa] + REFMOD - 1) % REFMOD \in 0..(REFMOD - 1)
      BY <1>0, <1>1 DEF TypeOK
    <2> QED BY <1>3, <2>1, Zenon DEF TypeOK, kfree
  <1>4. ASSUME NEW pa \in PA, increase_refer(pa)
        PROVE  /\ freelist' \subseteq PA /\ refer_count' \in [PA -> 0..(REFMOD - 1)]
               /\ freeing' \in [Proc -> PA \cup {NULL}]
    <2>1. (refer_count[pa] + 1) % REFMOD \in 0..(REFMOD - 1)
      BY <1>0, <1>1 DEF TypeOK
    <2> QED BY <1>4, <2>1, Zenon DEF TypeOK, increase_refer
  <1>5. kfree_push(p) \/ kalloc_fails \/ UNCHANGED kmem =>
              /\ freelist' \subseteq PA /\ refer_count' \in [PA -> 0..(REFMOD - 1)]
              /\ freeing' \in [Proc -> PA \cup {NULL}]
    BY Zenon DEF TypeOK, kfree_push, kalloc_fails, kmem
  <1> QED
    BY <1>2, <1>3, <1>4, <1>5, Zenon

(* The thread of a process in user code, about to start a call. *)
LEMMA UserThread ==
  User \in Thread /\ Idle \in Thread
  BY SizeType DEF User, Idle, Thread

(* The thread and the kmem of a step that changes nothing else. *)
LEMMA ThreadSame ==
  ASSUME ThreadInv, UNCHANGED <<th, state, parent, leaf, sz, wait_lock>>,
         freelist' \subseteq PA, refer_count' \in [PA -> 0..(REFMOD - 1)],
         freeing' \in [Proc -> PA \cup {NULL}], content' \in [PA -> Val],
         tabs' \in [Space -> [Node -> PA \cup {NULL}]]
  PROVE  ThreadInv'
  <1>1. TypeOK'
    BY Zenon DEF ThreadInv, TypeOK
  <1> QED
    BY <1>1 DEF ThreadInv, Locals, FaultPage, Target, ForksApart, DeadIsIdle,
                CowIsValid, VPage, Space

(* A step that changes page tables: only tables of processes without a     *)
(* thread, or its own.                                                     *)
LEMMA ThreadLeaf ==
  ASSUME ThreadInv, NEW p \in Proc, NEW r \in Thread,
         th[p].pc # "none", r.pc # "none",
         th' = [th EXCEPT ![p] = r],
         UNCHANGED <<state, parent, wait_lock>>,
         leaf' \in [Space -> [VPage -> PTE]],
         \A q \in Proc : q = p \/ leaf'[q] = leaf[q] \/ th[q].pc = "none",
         Locals(r), FaultPage(r, leaf'[p]), CowIsValid',
         r.op = "userinit" => r.np = p,
         r.op \in {"sbrk", "shrink"} => r.np = p,
         r.op = "exec" => r.np = -p,
         r.op = "fork" => th[p].op = "fork" /\ r.np = th[p].np,
         r.op = "wait" => r.np \in Proc /\ state[r.np] = "ZOMBIE" /\ parent[r.np] = p,
         freelist' \subseteq PA, refer_count' \in [PA -> 0..(REFMOD - 1)],
         freeing' \in [Proc -> PA \cup {NULL}], content' \in [PA -> Val],
         tabs' \in [Space -> [Node -> PA \cup {NULL}]],
         sz' \in [Proc -> 0..(MAXVP * PGSIZE)]
  PROVE  ThreadInv'
  <1>1. /\ th' \in [Proc -> Thread]
        /\ th'[p] = r
        /\ \A q \in Proc : q # p => th'[q] = th[q]
        /\ \A q \in Proc : Locals(th[q])' /\ Target(q, th[q])'
        /\ ForksApart' /\ DeadIsIdle'
    BY ThreadLocal, Zenon
  <1>2. TypeOK'
    BY <1>1, Zenon DEF ThreadInv, TypeOK
  <1>3. \A q \in Proc : FaultPage(th[q], leaf[q])'
    BY <1>1, SMTT(60) DEF ThreadInv, FaultPage, VPage
  <1> QED
    BY <1>1, <1>2, <1>3, Zenon DEF ThreadInv

(* is_cowpage sends the fault to cow_alloc or kills the process. *)
LEMMA ThreadIsCow ==
  ASSUME ThreadInv, NEW p \in Proc, is_cowpage(p)
  PROVE  ThreadInv'
  <1> DEFINE r == IF leaf[p][th[p].i].cow THEN [th[p] EXCEPT !.pc = "cow_alloc"]
                  ELSE [User EXCEPT !.pc = "exit"]
  <1>1. th[p].pc = "is_cowpage" /\ th[p] \in Thread /\ Locals(th[p]) /\ Target(p, th[p])
    BY Zenon DEF is_cowpage, Running, ThreadInv, TypeOK
  <1>2. th[p].op = "trap" /\ th[p].i \in VPage /\ th[p].mem = NULL
    BY <1>1, Zenon DEF Locals, PcOf, Thread
  <1>3. r \in Thread
    BY <1>1, UserThread, Zenon DEF Thread
  <1>4. Locals(r) /\ r.op \in {"trap", "none"} /\ r.pc # "none"
    BY <1>1, <1>2, ZenonT(60) DEF Locals, PcOf, Thread, User, Idle
  <1>5. FaultPage(r, leaf[p])
    BY <1>1, <1>2, Zenon DEF FaultPage, Thread, User, Idle, ThreadInv, CowIsValid, Space
  <1>6. th' = [th EXCEPT ![p] = r]
    BY Zenon DEF is_cowpage
  <1> HIDE DEF r
  <1> QED
    BY <1>1, <1>3, <1>4, <1>5, <1>6, ThreadOnly, Zenon DEF is_cowpage, kmem, space, procs, ThreadInv, TypeOK

(* A store touches no kernel state. *)
LEMMA ThreadStore ==
  ASSUME ThreadInv, NEW p \in Proc, NEW a \in StoreAddrs, Store(p, a)
  PROVE  ThreadInv'
  <1>1. content' \in [PA -> Val]
    BY Zenon DEF Store, ThreadInv, TypeOK, Val
  <1> QED
    BY <1>1, ThreadSame, Zenon DEF Store, ThreadInv, TypeOK, kmem, space, procs

(* A store page fault starts at the page of its address. *)
LEMMA ThreadStorePageFault ==
  ASSUME ThreadInv, NEW p \in Proc, NEW a \in StoreAddrs, StorePageFault(p, a)
  PROVE  ThreadInv'
  <1> DEFINE r == IF a > sz[p] THEN [User EXCEPT !.pc = "exit"]
                  ELSE [User EXCEPT !.pc = "is_cowpage", !.op = "trap", !.i = Page(a)]
  <1>1. th[p].pc = "user" /\ th[p] \in Thread
    BY Zenon DEF StorePageFault, Running, ThreadInv, TypeOK
  <1>2. Page(a) \in VPage /\ Page(a) \in Nat
    BY PageType, InputAssumption, SizeAssumption DEF VPage
  <1>3. r \in Thread
    BY <1>2, UserThread, Zenon DEF Thread
  <1>4. Locals(r) /\ r.op \in {"trap", "none"} /\ r.pc # "none"
    BY <1>2, Zenon DEF Locals, PcOf, User, Idle
  <1>5. FaultPage(r, leaf[p])
    BY Zenon DEF FaultPage, User, Idle
  <1>6. th' = [th EXCEPT ![p] = r]
    BY Zenon DEF StorePageFault
  <1> HIDE DEF r
  <1> QED
    BY <1>1, <1>3, <1>4, <1>5, <1>6, ThreadOnly, Zenon DEF StorePageFault, kmem, space, procs, ThreadInv, TypeOK

(* The faulting store is executed again. *)
LEMMA ThreadRetry ==
  ASSUME ThreadInv, NEW p \in Proc, Retry(p)
  PROVE  ThreadInv'
  <1> DEFINE r == IF Writable(leaf[p][th[p].i]) THEN User
                  ELSE [th[p] EXCEPT !.pc = "is_cowpage"]
  <1>1. th[p].pc = "retry" /\ th[p] \in Thread /\ Locals(th[p])
    BY Zenon DEF Retry, Running, ThreadInv, TypeOK
  <1>2. th[p].op = "trap" /\ th[p].i \in VPage /\ th[p].mem = NULL
    BY <1>1, Zenon DEF Locals, PcOf, Thread
  <1>3. r \in Thread
    BY <1>1, UserThread DEF Thread
  <1>4. Locals(r) /\ r.op \in {"trap", "none"} /\ r.pc # "none"
    BY <1>1, <1>2, Zenon DEF Locals, PcOf, Thread, User, Idle
  <1>5. FaultPage(r, leaf[p])
    BY <1>1, Zenon DEF FaultPage, User, Idle, Thread
  <1>6. th' = [th EXCEPT ![p] = r]
    BY Zenon DEF Retry
  <1>7. content' \in [PA -> Val]
    BY Zenon DEF Retry, ThreadInv, TypeOK, Val
  <1> HIDE DEF r
  <1> QED
    BY <1>1, <1>3, <1>4, <1>5, <1>6, <1>7, ThreadOnly, Zenon DEF Retry, kmem, space, procs, ThreadInv, TypeOK

(* cow_alloc changes the flags of the page at fault, nothing else. *)
LEMMA ThreadCowAlloc ==
  ASSUME ThreadInv, NEW p \in Proc, cow_alloc(p)
  PROVE  ThreadInv'
  <1> DEFINE last == LastUser(leaf[p][th[p].i].pa)
             r == IF last THEN CowDone(th[p]) ELSE [th[p] EXCEPT !.pc = "cow_kalloc"]
             e == IF last THEN Reclaim(leaf[p][th[p].i]) ELSE [leaf[p][th[p].i] EXCEPT !.w = TRUE]
  <1>1. th[p].pc = "cow_alloc" /\ th[p] \in Thread /\ Locals(th[p]) /\ Target(p, th[p])
        /\ FaultPage(th[p], leaf[p])
    BY Zenon DEF cow_alloc, Running, ThreadInv, TypeOK
  <1>2. th[p].op \in {"trap", "read", "wait"} /\ th[p].i \in VPage /\ th[p].mem = NULL
    BY <1>1, Zenon DEF Locals, PcOf, Thread, FaultPage
  <1>3. r \in Thread
    BY <1>1, ZenonT(60) DEF Thread, CowDone
  <1>4. Locals(r) /\ r.op = th[p].op /\ r.np = th[p].np /\ r.pc # "none" /\ r.i = th[p].i
    BY <1>1, <1>2, Zenon DEF Locals, PcOf, Thread, CowDone
  <1>5. leaf[p][th[p].i] \in PTE /\ leaf[p][th[p].i].pa # NULL /\ p \in Space
    BY <1>1, <1>2, Zenon DEF ThreadInv, TypeOK, FaultPage, Space
  <1>6. e \in PTE /\ e.pa = leaf[p][th[p].i].pa
    BY <1>5, Zenon DEF PTE, Reclaim
  <1>7. leaf' = [leaf EXCEPT ![p] = [leaf[p] EXCEPT ![th[p].i] = e]] /\ th' = [th EXCEPT ![p] = r]
    BY Zenon DEF cow_alloc
  <1> HIDE DEF r, e, last
  <1>8. leaf' \in [Space -> [VPage -> PTE]] /\ leaf'[p][th[p].i] = e
        /\ \A q \in Proc : q = p \/ leaf'[q] = leaf[q]
    BY <1>2, <1>5, <1>6, <1>7, Zenon DEF ThreadInv, TypeOK, Space
  <1>9. CowIsValid'
    BY <1>2, <1>5, <1>6, <1>7, Zenon DEF ThreadInv, TypeOK, CowIsValid, VPage, Space
  <1>10. FaultPage(r, leaf'[p])
    BY <1>2, <1>4, <1>5, <1>6, <1>8, Zenon DEF FaultPage
  <1>11. r.op = "wait" => r.np \in Proc /\ state[r.np] = "ZOMBIE" /\ parent[r.np] = p
    BY <1>1, <1>4, Zenon DEF Target
  <1> QED
    BY <1>1, <1>2, <1>3, <1>4, <1>7, <1>8, <1>9, <1>10, <1>11, ThreadLeaf, ZenonT(60)
    DEF cow_alloc, kmem, procs, ThreadInv, TypeOK

(* cow_kalloc takes a page, or kills the process, or makes copyout fail. *)
LEMMA ThreadCowKalloc ==
  ASSUME ThreadInv, NEW p \in Proc, cow_kalloc(p)
  PROVE  ThreadInv'
  <1>1. th[p].pc = "cow_kalloc" /\ th[p] \in Thread /\ Locals(th[p]) /\ Target(p, th[p])
        /\ FaultPage(th[p], leaf[p]) /\ TypeOK /\ NULL \notin PA
    BY KmemAssumption, Zenon DEF cow_kalloc, Running, ThreadInv, TypeOK
  <1>2. th[p].op \in {"trap", "read", "wait"}
    BY <1>1, Zenon DEF Locals, PcOf, Thread
  <1>3. CASE \E pa \in PA : kalloc(pa) /\ th' = [th EXCEPT ![p].pc = "cow_copy", ![p].mem = pa]
                            /\ UNCHANGED wait_lock
    <2> PICK pa \in PA : kalloc(pa) /\ th' = [th EXCEPT ![p].pc = "cow_copy", ![p].mem = pa]
                         /\ UNCHANGED wait_lock
      BY <1>3, Zenon
    <2> DEFINE r == [th[p] EXCEPT !.pc = "cow_copy", !.mem = pa]
    <2>1. r \in Thread
      BY <1>1, Zenon DEF Thread
    <2>2. Locals(r) /\ r.op = th[p].op /\ r.np = th[p].np /\ r.pc # "none" /\ FaultPage(r, leaf[p])
      BY <1>1, <1>2, Zenon DEF Locals, PcOf, Thread, FaultPage
    <2>3. th' = [th EXCEPT ![p] = r]
      BY <1>1, Zenon DEF TypeOK
    <2>4. r.op = "wait" => r.np \in Proc /\ state[r.np] = "ZOMBIE" /\ parent[r.np] = p
      BY <1>1, <2>2, Zenon DEF Target
    <2> HIDE DEF r
    <2> QED
      BY <1>1, <1>2, <2>1, <2>2, <2>3, <2>4, ThreadOnly, KmemTypes, Zenon
      DEF cow_kalloc, space, procs, TypeOK
  <1>4. CASE kalloc_fails /\ CowFails(p)
    <2> DEFINE r == IF th[p].op = "trap" THEN [User EXCEPT !.pc = "exit"] ELSE User
    <2>1. r \in Thread
      BY UserThread, Zenon DEF Thread
    <2>2. Locals(r) /\ r.op = "none" /\ r.pc # "none" /\ FaultPage(r, leaf[p])
      BY Zenon DEF Locals, PcOf, User, Idle, FaultPage
    <2>3. th' = [th EXCEPT ![p] = r] /\ wait_lock' \in Proc \cup {NULL}
      BY <1>1, <1>4, Zenon DEF CowFails, CopyoutFails, TypeOK
    <2> HIDE DEF r
    <2> QED
      BY <1>1, <1>4, <2>1, <2>2, <2>3, ThreadOnly, KmemTypes, Zenon
      DEF cow_kalloc, space, TypeOK
  <1> QED
    BY <1>3, <1>4, Zenon DEF cow_kalloc

(* cow_copy maps the new page where the shared one was. *)
LEMMA ThreadCowCopy ==
  ASSUME ThreadInv, NEW p \in Proc, cow_copy(p)
  PROVE  ThreadInv'
  <1> DEFINE v == th[p].i
             r == [th[p] EXCEPT !.pc = "cow_kfree", !.mem = leaf[p][v].pa]
             e == [leaf[p][v] EXCEPT !.pa = th[p].mem]
  <1>1. th[p].pc = "cow_copy" /\ th[p] \in Thread /\ Locals(th[p]) /\ Target(p, th[p])
        /\ FaultPage(th[p], leaf[p]) /\ TypeOK /\ NULL \notin PA /\ p \in Space
    BY KmemAssumption, Zenon DEF cow_copy, Running, ThreadInv, TypeOK, Space
  <1>2. th[p].op \in {"trap", "read", "wait"} /\ v \in VPage /\ th[p].mem \in PA
    BY <1>1, Zenon DEF Locals, PcOf, Thread, FaultPage
  <1>3. leaf[p][v] \in PTE /\ leaf[p][v].pa \in PA
    BY <1>1, <1>2 DEF TypeOK, FaultPage, PTE
  <1>4. r \in Thread
    BY <1>1, <1>3, Zenon DEF Thread
  <1>5. Locals(r) /\ r.op = th[p].op /\ r.np = th[p].np /\ r.pc # "none" /\ r.i = v
    BY <1>1, <1>2, <1>3, Zenon DEF Locals, PcOf, Thread
  <1>6. e \in PTE /\ e.pa # NULL
    BY <1>1, <1>2, <1>3, Zenon DEF PTE
  <1>7. leaf' = [leaf EXCEPT ![p] = [leaf[p] EXCEPT ![v] = e]] /\ th' = [th EXCEPT ![p] = r]
    BY <1>1, Zenon DEF cow_copy, TypeOK
  <1>8. content' \in [PA -> Val]
    BY <1>1, <1>2, <1>3, Zenon DEF cow_copy, CopyPage, TypeOK
  <1> HIDE DEF r, e, v
  <1>9. leaf' \in [Space -> [VPage -> PTE]] /\ leaf'[p][v] = e
        /\ \A q \in Proc : q = p \/ leaf'[q] = leaf[q]
    <2>1. [leaf[p] EXCEPT ![v] = e] \in [VPage -> PTE] /\ [leaf[p] EXCEPT ![v] = e][v] = e
      BY <1>1, <1>2, <1>6, Zenon DEF TypeOK
    <2>2. p \in Space /\ \A q \in Proc : q \in Space
      BY Zenon DEF Space
    <2> QED BY <1>1, <1>7, <2>1, <2>2, Zenon DEF TypeOK
  <1>10. CowIsValid'
    BY <1>1, <1>2, <1>6, <1>7, Zenon DEF ThreadInv, TypeOK, CowIsValid, VPage, Space
  <1>11. FaultPage(r, leaf'[p])
    BY <1>2, <1>5, <1>6, <1>9, Zenon DEF FaultPage
  <1>12. r.op = "wait" => r.np \in Proc /\ state[r.np] = "ZOMBIE" /\ parent[r.np] = p
    BY <1>1, <1>5, Zenon DEF Target
  <1> QED
    BY <1>1, <1>2, <1>4, <1>5, <1>7, <1>8, <1>9, <1>10, <1>11, <1>12, ThreadLeaf, Zenon
    DEF cow_copy, kmem, procs, TypeOK

(* cow_kfree gives the shared page back. *)
LEMMA ThreadCowKfree ==
  ASSUME ThreadInv, NEW p \in Proc, cow_kfree(p)
  PROVE  ThreadInv'
  <1> DEFINE r == CowDone(th[p])
  <1>1. th[p].pc = "cow_kfree" /\ th[p] \in Thread /\ Locals(th[p]) /\ Target(p, th[p])
        /\ FaultPage(th[p], leaf[p]) /\ TypeOK
    BY Zenon DEF cow_kfree, Running, ThreadInv, TypeOK
  <1>2. th[p].op \in {"trap", "read", "wait"} /\ th[p].mem \in PA /\ th[p].i \in VPage
    BY <1>1, Zenon DEF Locals, PcOf, Thread, FaultPage
  <1>3. r \in Thread
    BY <1>1, ZenonT(60) DEF Thread, CowDone
  <1>4. Locals(r) /\ r.op = th[p].op /\ r.np = th[p].np /\ r.pc # "none" /\ FaultPage(r, leaf[p])
    BY <1>1, <1>2, Zenon DEF Locals, PcOf, Thread, CowDone, FaultPage
  <1>5. th' = [th EXCEPT ![p] = r]
    BY Zenon DEF cow_kfree
  <1>6. r.op = "wait" => r.np \in Proc /\ state[r.np] = "ZOMBIE" /\ parent[r.np] = p
    BY <1>1, <1>4, Zenon DEF Target
  <1> HIDE DEF r
  <1> QED
    BY <1>1, <1>2, <1>3, <1>4, <1>5, <1>6, ThreadOnly, KmemTypes, Zenon
    DEF cow_kfree, space, procs, TypeOK

(* The second half of kfree touches no thread. *)
LEMMA ThreadFinishKfree ==
  ASSUME ThreadInv, NEW p \in Proc, FinishKfree(p)
  PROVE  ThreadInv'
  <1>1. TypeOK
    BY Zenon DEF ThreadInv
  <1>2. content' \in [PA -> Val]
    BY <1>1, Zenon DEF FinishKfree, TypeOK, Val, Junk
  <1> QED
    BY <1>1, <1>2, ThreadSame, KmemTypes, Zenon DEF FinishKfree, TypeOK, space, procs

(* A system call that copies out starts at the page of its buffer. *)
LEMMA ThreadSysCopyout ==
  ASSUME ThreadInv, NEW p \in Proc, NEW dst \in Nat, NEW len \in Nat \ {0}, SysCopyout(p, dst, len)
  PROVE  ThreadInv'
  <1> DEFINE r == [User EXCEPT !.pc = "copyout", !.op = "read",
                     !.i = Page(dst), !.n = Page(dst + len - 1) + 1]
  <1>1. th[p].pc = "user" /\ th[p] \in Thread
    BY Zenon DEF SysCopyout, Running, ThreadInv, TypeOK
  <1>2. Page(dst) \in Nat /\ Page(dst + len - 1) + 1 \in Nat
    BY SizeAssumption, Z3 DEF Page
  <1>3. r \in Thread
    BY <1>2, UserThread, Zenon DEF Thread
  <1>4. Locals(r) /\ r.op = "read" /\ r.pc # "none" /\ FaultPage(r, leaf[p])
    BY Zenon DEF Locals, PcOf, User, Idle, FaultPage
  <1>5. th' = [th EXCEPT ![p] = r]
    BY Zenon DEF SysCopyout
  <1> HIDE DEF r
  <1> QED
    BY <1>1, <1>3, <1>4, <1>5, ThreadOnly, Zenon DEF SysCopyout, kmem, space, procs, ThreadInv, TypeOK

(* A process calls exit. *)
LEMMA ThreadLeave ==
  ASSUME ThreadInv, NEW p \in Proc, Leave(p)
  PROVE  ThreadInv'
  <1> DEFINE r == [User EXCEPT !.pc = "exit"]
  <1>1. th[p].pc = "user" /\ th[p] \in Thread
    BY Zenon DEF Leave, Running, ThreadInv, TypeOK
  <1>3. r \in Thread
    BY UserThread, Zenon DEF Thread
  <1>4. Locals(r) /\ r.op = "none" /\ r.pc # "none" /\ FaultPage(r, leaf[p])
    BY Zenon DEF Locals, PcOf, User, Idle, FaultPage
  <1>5. th' = [th EXCEPT ![p] = r]
    BY Zenon DEF Leave
  <1> HIDE DEF r
  <1> QED
    BY <1>1, <1>3, <1>4, <1>5, ThreadOnly, Zenon DEF Leave, kmem, space, procs, ThreadInv, TypeOK

(* The thread that wait becomes once it frees its child. *)
LEMMA ReapThread ==
  ASSUME TypeOK, NEW c \in Proc, NEW table
  PROVE  /\ Reap(c) \in Thread /\ Locals(Reap(c)) /\ FaultPage(Reap(c), table)
         /\ Reap(c).op = "wait" /\ Reap(c).np = c /\ Reap(c).pc # "none"
  <1>1. Pages(sz[c]) \in 0..MAXVP /\ MAXVP \in Nat
    BY PagesType, SizeAssumption, Zenon DEF TypeOK
  <1>0. Pages(sz[c]) \in Nat
    BY <1>1
  <1>2. Reap(c) \in Thread
    BY <1>0, UserThread, Zenon DEF Reap, Thread, Space
  <1>3. /\ Reap(c).pc = "uvmfree" /\ Reap(c).op = "wait" /\ Reap(c).np = c
        /\ Reap(c).n = Pages(sz[c]) /\ Reap(c).mem = NULL
    BY Zenon DEF Reap, User, Idle
  <1> QED
    BY <1>1, <1>2, <1>3, Zenon DEF Locals, PcOf, FaultPage

(* memmove goes on to the next page, to the caller, or to freeproc. *)
LEMMA ThreadMemmove ==
  ASSUME ThreadInv, NEW p \in Proc, th[p].pc \in {"copyout", "memmove"}, th[p].i \in VPage,
         leaf[p][th[p].i].pa # NULL,
         memmove(p), UNCHANGED <<kmem, space, state, parent>>
  PROVE  ThreadInv'
  <1> DEFINE r == CopyoutNext(th[p])
  <1>1. th[p] \in Thread /\ Locals(th[p]) /\ Target(p, th[p]) /\ TypeOK
    BY Zenon DEF ThreadInv, TypeOK
  <1>2. th[p].op \in {"read", "wait"} /\ th[p].mem = NULL
    BY <1>1, Zenon DEF Locals, PcOf, Thread
  <1>3. leaf[p][th[p].i].pa \in PA
    BY <1>1 DEF TypeOK, PTE, Space
  <1>4. content' \in [PA -> Val]
    BY <1>1, <1>3, Zenon DEF memmove, TypeOK, Val
  <1>5. th' = [th EXCEPT ![p] = r]
    BY Zenon DEF memmove
  <1>6. CASE th[p].i + 1 < th[p].n
    <2>1. r = [th[p] EXCEPT !.pc = "copyout", !.i = th[p].i + 1]
      BY <1>6, Zenon DEF CopyoutNext
    <2>2. r \in Thread
      <3>1. th[p].i + 1 \in Nat
        BY <1>1 DEF Thread
      <3> QED BY <1>1, <2>1, <3>1, ZenonT(60) DEF Thread
    <2>3. Locals(r) /\ r.op = th[p].op /\ r.np = th[p].np /\ r.pc # "none" /\ FaultPage(r, leaf[p])
      BY <1>1, <1>2, <2>1, Zenon DEF Locals, PcOf, Thread, FaultPage
    <2>4. r.op = "wait" => r.np \in Proc /\ state[r.np] = "ZOMBIE" /\ parent[r.np] = p
      BY <1>1, <2>3, Zenon DEF Target
    <2> HIDE DEF r
    <2> QED
      BY <1>1, <1>2, <1>4, <1>5, <2>2, <2>3, <2>4, ThreadOnly, Zenon DEF memmove, kmem, space, TypeOK
  <1>7. CASE ~(th[p].i + 1 < th[p].n) /\ th[p].op = "wait"
    <2>1. r = Reap(th[p].np) /\ th[p].np \in Proc /\ state[th[p].np] = "ZOMBIE" /\ parent[th[p].np] = p
      BY <1>1, <1>7, Zenon DEF CopyoutNext, Target
    <2>2. /\ r \in Thread /\ Locals(r) /\ FaultPage(r, leaf[p])
          /\ r.op = "wait" /\ r.np = th[p].np /\ r.pc # "none"
      BY <1>1, <2>1, ReapThread, Zenon
    <2> HIDE DEF r
    <2> QED
      BY <1>1, <1>4, <1>5, <2>1, <2>2, ThreadOnly, Zenon DEF memmove, kmem, space, TypeOK
  <1>8. CASE ~(th[p].i + 1 < th[p].n) /\ th[p].op # "wait"
    <2>1. r = User
      BY <1>8, Zenon DEF CopyoutNext
    <2>2. /\ r \in Thread /\ Locals(r) /\ FaultPage(r, leaf[p]) /\ r.op = "none" /\ r.pc # "none"
      BY <2>1, UserThread, Zenon DEF Locals, PcOf, User, Idle, FaultPage
    <2> HIDE DEF r
    <2> QED
      BY <1>1, <1>4, <1>5, <2>2, ThreadOnly, Zenon DEF memmove, kmem, space, TypeOK
  <1> QED
    BY <1>6, <1>7, <1>8, Zenon

(* copyout on one page. *)
LEMMA ThreadCopyout ==
  ASSUME ThreadInv, NEW p \in Proc, copyout(p)
  PROVE  ThreadInv'
  <1>1. th[p].pc = "copyout" /\ th[p] \in Thread /\ Locals(th[p]) /\ Target(p, th[p]) /\ TypeOK
    BY Zenon DEF copyout, Running, ThreadInv, TypeOK
  <1>2. th[p].op \in {"read", "wait"} /\ th[p].mem = NULL
    BY <1>1, Zenon DEF Locals, PcOf, Thread
  <1>3. CASE CopyoutFails(p) /\ UNCHANGED content
    <2>1. User \in Thread /\ Locals(User) /\ FaultPage(User, leaf[p]) /\ User.op = "none" /\ User.pc # "none"
      BY UserThread, Zenon DEF Locals, PcOf, User, Idle, FaultPage
    <2> QED
      BY <1>1, <1>3, <2>1, ThreadOnly, Zenon DEF copyout, CopyoutFails, kmem, space, TypeOK
  <1>4. CASE /\ th[p].i \in VPage /\ leaf[p][th[p].i].pa # NULL
             /\ th' = [th EXCEPT ![p].pc = "cow_alloc"] /\ UNCHANGED <<content, wait_lock>>
    <2> DEFINE r == [th[p] EXCEPT !.pc = "cow_alloc"]
    <2>1. r \in Thread
      BY <1>1, Zenon DEF Thread
    <2>2. Locals(r) /\ r.op = th[p].op /\ r.np = th[p].np /\ r.pc # "none" /\ FaultPage(r, leaf[p])
      BY <1>1, <1>2, <1>4, Zenon DEF Locals, PcOf, Thread, FaultPage
    <2>3. th' = [th EXCEPT ![p] = r]
      BY <1>4, Zenon
    <2>4. r.op = "wait" => r.np \in Proc /\ state[r.np] = "ZOMBIE" /\ parent[r.np] = p
      BY <1>1, <2>2, Zenon DEF Target
    <2> HIDE DEF r
    <2> QED
      BY <1>1, <1>2, <1>4, <2>1, <2>2, <2>3, <2>4, ThreadOnly, Zenon DEF copyout, kmem, space, TypeOK
  <1>5. CASE th[p].i \in VPage /\ leaf[p][th[p].i].pa # NULL /\ memmove(p)
    BY <1>1, <1>5, ThreadMemmove, Zenon DEF copyout
  <1> QED
    BY <1>3, <1>4, <1>5, Zenon DEF copyout

(* copyout on a page that cow_alloc has made private. *)
LEMMA ThreadCopyoutCow ==
  ASSUME ThreadInv, NEW p \in Proc, CopyoutCow(p)
  PROVE  ThreadInv'
  <1>1. th[p].pc = "memmove" /\ FaultPage(th[p], leaf[p])
    BY Zenon DEF CopyoutCow, Running, ThreadInv
  <1> QED
    BY <1>1, ThreadMemmove, Zenon DEF CopyoutCow, FaultPage

(* wait finds a zombie child. *)
LEMMA ThreadWait ==
  ASSUME ThreadInv, NEW p \in Proc, NEW a \in WaitAddrs \cup {NULL}, wait(p, a)
  PROVE  ThreadInv'
  <1>1. th[p].pc = "user" /\ th[p] \in Thread /\ TypeOK
    BY Zenon DEF wait, Running, ThreadInv, TypeOK
  <1>2. PICK c \in Proc :
          /\ parent[c] = p /\ state[c] = "ZOMBIE"
          /\ th' = [th EXCEPT ![p] =
                      IF a = NULL THEN Reap(c)
                      ELSE [User EXCEPT !.pc = "copyout", !.op = "wait", !.np = c,
                                        !.i = Page(a), !.n = Page(a) + 1]]
    BY Zenon DEF wait
  <1> DEFINE r == IF a = NULL THEN Reap(c)
                  ELSE [User EXCEPT !.pc = "copyout", !.op = "wait", !.np = c,
                                    !.i = Page(a), !.n = Page(a) + 1]
  <1>3. a # NULL => Page(a) \in VPage /\ Page(a) \in Nat
    BY PageType, InputAssumption, SizeAssumption DEF VPage
  <1>4. r \in Thread
    <2>1. CASE a = NULL
      BY <1>1, <2>1, ReapThread, Zenon
    <2>2. CASE a # NULL
      <3>1. Page(a) \in Nat /\ Page(a) + 1 \in Nat
        BY <1>3, <2>2
      <3> QED BY <2>2, <3>1, UserThread, Zenon DEF Thread, Space
    <2> QED BY <2>1, <2>2, Zenon
  <1>5. Locals(r) /\ r.op = "wait" /\ r.np = c /\ r.pc # "none" /\ FaultPage(r, leaf[p])
    <2>1. CASE a = NULL
      BY <1>1, <2>1, ReapThread, Zenon
    <2>2. CASE a # NULL
      BY <2>2, Zenon DEF Locals, PcOf, User, Idle, FaultPage
    <2> QED BY <2>1, <2>2, Zenon
  <1>6. th' = [th EXCEPT ![p] = r]
    BY <1>2, Zenon
  <1> HIDE DEF r
  <1> QED
    BY <1>1, <1>2, <1>4, <1>5, <1>6, ThreadOnly, Zenon DEF wait, kmem, space, TypeOK

(* sbrk grows. *)
LEMMA ThreadSbrkGrow ==
  ASSUME ThreadInv, NEW p \in Proc, NEW n \in Int, SbrkGrow(p, n)
  PROVE  ThreadInv'
  <1> DEFINE new == sz[p] + n
             r == [User EXCEPT !.pc = "uvmalloc", !.op = "sbrk",
                     !.np = p, !.i = Pages(sz[p]), !.n = Pages(new), !.newsz = new]
  <1>1. th[p].pc = "user" /\ th[p] \in Thread /\ TypeOK /\ p \in Space
    BY Zenon DEF SbrkGrow, Running, ThreadInv, TypeOK, Space
  <1>2. new \in 0..(MAXVP * PGSIZE)
    BY <1>1, SizeType DEF SbrkGrow, TypeOK
  <1>3. Pages(sz[p]) \in 0..MAXVP /\ Pages(new) \in 0..MAXVP /\ MAXVP \in Nat
    BY <1>1, <1>2, PagesType, SizeAssumption, Zenon DEF TypeOK
  <1> HIDE DEF new
  <1>4. /\ r.pc = "uvmalloc" /\ r.op = "sbrk" /\ r.np = p /\ r.i = Pages(sz[p])
        /\ r.n = Pages(new) /\ r.newsz = new /\ r.mem = NULL
    BY Zenon DEF User, Idle
  <1>5. th' = [th EXCEPT ![p] = r]
    BY Zenon DEF SbrkGrow, new
  <1>8. Pages(sz[p]) \in Nat /\ Pages(new) \in Nat
    BY <1>3
  <1>6. r \in Thread
    BY <1>1, <1>2, <1>3, <1>8, UserThread, Zenon DEF Thread
  <1> HIDE DEF r
  <1>7. Locals(r) /\ r.op = "sbrk" /\ r.np = p /\ r.pc # "none" /\ FaultPage(r, leaf[p])
    BY <1>3, <1>4, Zenon DEF Locals, PcOf, FaultPage
  <1> QED
    BY <1>1, <1>5, <1>6, <1>7, ThreadOnly, Zenon DEF SbrkGrow, kmem, space, procs, TypeOK

(* sbrk shrinks. *)
LEMMA ThreadSbrkShrink ==
  ASSUME ThreadInv, NEW p \in Proc, NEW n \in Int, SbrkShrink(p, n)
  PROVE  ThreadInv'
  <1> DEFINE new == sz[p] + n
             r == [User EXCEPT !.pc = "uvmdealloc", !.op = "shrink",
                     !.np = p, !.i = DeallocFrom(new), !.n = Pages(sz[p]), !.newsz = new]
  <1>1. th[p].pc = "user" /\ th[p] \in Thread /\ TypeOK /\ p \in Space
    BY Zenon DEF SbrkShrink, Running, ThreadInv, TypeOK, Space
  <1>2. new \in 0..(MAXVP * PGSIZE)
    BY <1>1, SizeType DEF SbrkShrink, TypeOK
  <1>3. Pages(sz[p]) \in 0..MAXVP /\ DeallocFrom(new) \in 0..MAXVP /\ MAXVP \in Nat
    BY <1>1, <1>2, PagesType, SizeAssumption, Zenon DEF TypeOK, DeallocFrom
  <1> HIDE DEF new
  <1>4. /\ r.pc = "uvmdealloc" /\ r.op = "shrink" /\ r.np = p /\ r.i = DeallocFrom(new)
        /\ r.n = Pages(sz[p]) /\ r.newsz = new /\ r.mem = NULL
    BY Zenon DEF User, Idle
  <1>5. th' = [th EXCEPT ![p] = r]
    BY Zenon DEF SbrkShrink, new
  <1>8. Pages(sz[p]) \in Nat /\ DeallocFrom(new) \in Nat
    BY <1>3
  <1>6. r \in Thread
    BY <1>1, <1>2, <1>3, <1>8, UserThread, Zenon DEF Thread
  <1> HIDE DEF r
  <1>7. Locals(r) /\ r.op = "shrink" /\ r.np = p /\ r.pc # "none" /\ FaultPage(r, leaf[p])
    BY <1>3, <1>4, Zenon DEF Locals, PcOf, FaultPage
  <1> QED
    BY <1>1, <1>5, <1>6, <1>7, ThreadOnly, Zenon DEF SbrkShrink, kmem, space, procs, TypeOK

(* exec starts. *)
LEMMA ThreadExec ==
  ASSUME ThreadInv, NEW p \in Proc, exec(p)
  PROVE  ThreadInv'
  <1> DEFINE k == Len(EXECIMAGE)
             r == [User EXCEPT !.pc = "proc_pagetable", !.op = "exec",
                     !.np = -p, !.n = k, !.newsz = k * PGSIZE]
  <1>1. th[p].pc = "user" /\ th[p] \in Thread /\ TypeOK /\ -p \in Space
    BY Zenon DEF exec, Running, ThreadInv, TypeOK, Space
  <1>2. k \in 0..MAXVP /\ MAXVP \in Nat /\ PGSIZE \in Nat
    BY InputAssumption, SizeAssumption
  <1> HIDE DEF k
  <1>3. k * PGSIZE \in 0..(MAXVP * PGSIZE)
    <2>1. k * PGSIZE \in Nat /\ MAXVP * PGSIZE \in Nat
      BY <1>2, Z3
    <2>2. k * PGSIZE <= MAXVP * PGSIZE
      BY <1>2, Z3
    <2> QED BY <2>1, <2>2
  <1>4. /\ r.pc = "proc_pagetable" /\ r.op = "exec" /\ r.np = -p /\ r.i = 0
        /\ r.n = k /\ r.newsz = k * PGSIZE /\ r.mem = NULL
    BY Zenon DEF User, Idle
  <1>5. th' = [th EXCEPT ![p] = r]
    BY Zenon DEF exec, k
  <1>8. k \in Nat
    BY <1>2
  <1>6. r \in Thread
    BY <1>1, <1>2, <1>3, <1>8, UserThread, Zenon DEF Thread
  <1> HIDE DEF r
  <1>7. Locals(r) /\ r.op = "exec" /\ r.np = -p /\ r.pc # "none" /\ FaultPage(r, leaf[p])
    BY <1>2, <1>4 DEF Locals, PcOf, FaultPage
  <1> QED
    BY <1>1, <1>5, <1>6, <1>7, ThreadOnly, Zenon DEF exec, kmem, space, procs, TypeOK

-----------------------------------------------------------------------------
(* The steps that build, copy and free page tables.                        *)

(* A page table that gains one page-table page keeps its type. *)
LEMMA WalkAlloc ==
  ASSUME TypeOK, NEW p \in Proc, NEW s \in Space, NEW S \in SUBSET Node, Missing(s, S) # {},
         walk_alloc(s, S)
  PROVE  /\ tabs' \in [Space -> [Node -> PA \cup {NULL}]]
         /\ freelist' \subseteq PA /\ refer_count' \in [PA -> 0..(REFMOD - 1)]
         /\ freeing' \in [Proc -> PA \cup {NULL}]
  <1>1. PICK pa \in PA : kalloc(pa) /\ tabs' = [tabs EXCEPT ![s][CHOOSE x \in Missing(s, S) : TRUE] = pa]
    BY Zenon DEF walk_alloc
  <1>2. (CHOOSE x \in Missing(s, S) : TRUE) \in Node
    BY Zenon DEF Missing
  <1> QED
    BY <1>1, <1>2, KmemTypes, Zenon DEF TypeOK

(* The thread that Undo leaves behind. *)
LEMMA UndoThread ==
  ASSUME ThreadInv, NEW p \in Proc, th[p].op \in {"fork", "exec", "sbrk"}, th[p].i \in 0..MAXVP,
         Undo(p)
  PROVE  \E r \in Thread :
           /\ th' = [th EXCEPT ![p] = r]
           /\ Locals(r) /\ r.pc \in {"uvmfree", "uvmdealloc"}
           /\ r.op = th[p].op /\ r.np = th[p].np /\ r.mem = NULL
           /\ \A table : FaultPage(r, table)
  <1> DEFINE k == IF th[p].op = "sbrk"
                  THEN [th[p] EXCEPT !.pc = "uvmdealloc", !.i = Pages(sz[p]), !.n = th[p].i]
                  ELSE [th[p] EXCEPT !.pc = "uvmfree", !.i = 0, !.n = th[p].i]
             r == [k EXCEPT !.mem = NULL]
  <1>1. th[p] \in Thread /\ Locals(th[p]) /\ sz[p] \in 0..(MAXVP * PGSIZE)
    BY Zenon DEF ThreadInv, TypeOK
  <1>2. Pages(sz[p]) \in Nat
    BY <1>1, PagesType, SizeAssumption
  <1>3. k \in Thread
    BY <1>1, <1>2, ZenonT(60) DEF Thread
  <1>4. r \in Thread
    BY <1>3 DEF Thread
  <1>5. th' = [th EXCEPT ![p] = r]
    BY Zenon DEF Undo
  <1>6. /\ r.pc = IF th[p].op = "sbrk" THEN "uvmdealloc" ELSE "uvmfree"
        /\ r.op = th[p].op /\ r.np = th[p].np /\ r.mem = NULL /\ r.n = th[p].i
    BY <1>1, Zenon DEF Thread
  <1> HIDE DEF r
  <1>7. Locals(r)
    BY <1>6, Zenon DEF Locals, PcOf
  <1>8. \A table : FaultPage(r, table)
    BY <1>6, Zenon DEF FaultPage
  <1> QED
    BY <1>4, <1>5, <1>6, <1>7, <1>8, Zenon

(* A call gives up: fork, exec and sbrk undo what they did. *)
LEMMA ThreadUndo ==
  ASSUME ThreadInv, NEW p \in Proc, th[p].op \in {"fork", "exec", "sbrk"}, th[p].i \in 0..MAXVP,
         Undo(p), UNCHANGED <<state, parent, wait_lock, leaf, tabs, sz, content>>,
         freelist' \subseteq PA, refer_count' \in [PA -> 0..(REFMOD - 1)],
         freeing' \in [Proc -> PA \cup {NULL}]
  PROVE  ThreadInv'
  <1>1. PICK r \in Thread :
           /\ th' = [th EXCEPT ![p] = r]
           /\ Locals(r) /\ r.pc \in {"uvmfree", "uvmdealloc"}
           /\ r.op = th[p].op /\ r.np = th[p].np /\ r.mem = NULL
           /\ \A table : FaultPage(r, table)
    BY UndoThread, Zenon
  <1>2. th[p].pc # "none" /\ Target(p, th[p]) /\ TypeOK
    BY Zenon DEF ThreadInv, Locals, PcOf
  <1> QED
    BY <1>1, <1>2, ThreadOnly, ZenonT(60) DEF TypeOK, Target

(* proc_pagetable allocates a page, gives up, or is complete. *)
LEMMA ThreadProcPagetable ==
  ASSUME ThreadInv, NEW p \in Proc, proc_pagetable(p)
  PROVE  ThreadInv'
  <1>1. th[p].pc = "proc_pagetable" /\ th[p] \in Thread /\ Locals(th[p]) /\ Target(p, th[p]) /\ TypeOK
    BY Zenon DEF proc_pagetable, Running, ThreadInv, TypeOK
  <1>2. th[p].op \in {"fork", "userinit", "exec"} /\ th[p].mem = NULL /\ th[p].i \in 0..MAXVP
    BY <1>1, Zenon DEF Locals, PcOf, Thread
  <1>3. th[p].np \in Space
    BY <1>2, TargetIdle, Zenon
  <1>4. CASE Missing(th[p].np, TopOf(th[p].np)) # {} /\ walk_alloc(th[p].np, TopOf(th[p].np)) /\ UNCHANGED th
    <2>1. TopOf(th[p].np) \in SUBSET Node
      BY Zenon DEF TopOf, Node
    <2> QED
      BY <1>1, <1>3, <1>4, <2>1, WalkAlloc, ThreadSame, Zenon DEF proc_pagetable, procs, TypeOK
  <1>5. CASE th[p].op # "userinit" /\ kalloc_fails /\ Undo(p) /\ UNCHANGED tabs
    BY <1>1, <1>2, <1>5, ThreadUndo, KmemTypes, Zenon DEF proc_pagetable, procs
  <1>6. CASE /\ th' = [th EXCEPT ![p].pc = IF th[p].op = "fork" THEN "uvmcopy" ELSE "uvmalloc"]
             /\ UNCHANGED <<kmem, tabs>>
    <2> DEFINE r == [th[p] EXCEPT !.pc = IF th[p].op = "fork" THEN "uvmcopy" ELSE "uvmalloc"]
    <2>1. r \in Thread
      BY <1>1, Zenon DEF Thread
    <2>2. Locals(r) /\ r.op = th[p].op /\ r.np = th[p].np /\ r.pc # "none" /\ FaultPage(r, leaf[p])
      BY <1>1, <1>2, Zenon DEF Locals, PcOf, Thread, FaultPage
    <2>3. th' = [th EXCEPT ![p] = r]
      BY <1>6, Zenon
    <2> HIDE DEF r
    <2> QED
      BY <1>1, <1>2, <1>6, <2>1, <2>2, <2>3, ThreadOnly, Zenon DEF proc_pagetable, procs, kmem, TypeOK, Target
  <1> QED
    BY <1>4, <1>5, <1>6, Zenon DEF proc_pagetable

(* uvmcopy on one page. *)
LEMMA ThreadUvmcopy ==
  ASSUME ThreadInv, NEW p \in Proc, uvmcopy(p)
  PROVE  ThreadInv'
  <1> DEFINE s == th[p].np
             v == th[p].i
             e == CowPTE(leaf[p][v])
  <1>1. th[p].pc = "uvmcopy" /\ th[p] \in Thread /\ Locals(th[p]) /\ Target(p, th[p]) /\ TypeOK
        /\ p \in Space /\ v < Pages(sz[p]) /\ leaf[p][v].pa # NULL
    BY Zenon DEF uvmcopy, Running, ThreadInv, TypeOK, Space
  <1>2. th[p].op = "fork" /\ th[p].mem = NULL /\ v \in 0..MAXVP
    BY <1>1, Zenon DEF Locals, PcOf, Thread
  <1>3. v \in VPage /\ v + 1 \in 0..MAXVP /\ v + 1 \in Nat
    BY <1>1, <1>2, PagesType, SizeAssumption, SMTT(60) DEF VPage, TypeOK
  <1>4. s \in Space /\ s \in Proc /\ s # p /\ th[s] = Idle
    BY <1>1, <1>2 DEF Target, Space, Idle
  <1>5. leaf[p][v] \in PTE /\ e \in PTE /\ e.pa = leaf[p][v].pa /\ e.pa \in PA
    <2>1. leaf[p][v] \in PTE
      BY <1>1, <1>3, Zenon DEF TypeOK
    <2>2. ASSUME NEW d \in PTE PROVE CowPTE(d) \in PTE /\ CowPTE(d).pa = d.pa
      BY Zenon DEF PTE, CowPTE
    <2>3. leaf[p][v].pa \in PA
      BY <1>1, <2>1, Zenon DEF PTE
    <2> QED BY <2>1, <2>2, <2>3, Zenon
  <1>6. NodesOf[v] \in SUBSET Node
    BY <1>3, Zenon DEF Node
  <1>7. th[s].pc = "none"
    BY <1>4 DEF Idle
  <1>8. CASE leaf' = [leaf EXCEPT ![p][v] = e] /\ UNCHANGED th /\ ~walk(s, v) /\ walk_alloc(s, NodesOf[v])
    <2>1. leaf' \in [Space -> [VPage -> PTE]] /\ \A q \in Proc : q = p \/ leaf'[q] = leaf[q]
      BY <1>1, <1>3, <1>5, <1>8, Zenon DEF TypeOK, Space
    <2>2. CowIsValid'
      BY <1>1, <1>3, <1>5, <1>8, ZenonT(60) DEF ThreadInv, TypeOK, CowIsValid, VPage, Space
    <2>3. th' = [th EXCEPT ![p] = th[p]]
      BY <1>1, <1>8, Zenon DEF TypeOK
    <2>4. FaultPage(th[p], leaf'[p])
      BY <1>1, Zenon DEF FaultPage
    <2>5. Missing(s, NodesOf[v]) # {}
      BY <1>8, Zenon DEF walk
    <2> QED
      BY <1>1, <1>2, <1>4, <1>6, <1>8, <2>1, <2>2, <2>3, <2>4, <2>5, ThreadLeaf, WalkAlloc, ZenonT(60)
      DEF uvmcopy, procs, TypeOK
  <1>9. CASE leaf' = [leaf EXCEPT ![p][v] = e] /\ MappagesFails(p, e.pa) /\ UNCHANGED tabs
    <2>1. leaf' \in [Space -> [VPage -> PTE]] /\ \A q \in Proc : q = p \/ leaf'[q] = leaf[q]
      BY <1>1, <1>3, <1>5, <1>9, Zenon DEF TypeOK, Space
    <2>2. CowIsValid'
      BY <1>1, <1>3, <1>5, <1>9, ZenonT(60) DEF ThreadInv, TypeOK, CowIsValid, VPage, Space
    <2>3. PICK r \in Thread :
           /\ th' = [th EXCEPT ![p] = r]
           /\ Locals(r) /\ r.pc \in {"uvmfree", "uvmdealloc"}
           /\ r.op = th[p].op /\ r.np = th[p].np /\ r.mem = NULL
           /\ \A table : FaultPage(r, table)
      BY <1>2, <1>9, UndoThread, Zenon DEF MappagesFails
    <2> QED
      BY <1>1, <1>2, <1>9, <2>1, <2>2, <2>3, ThreadLeaf, KmemTypes, ZenonT(60)
      DEF uvmcopy, procs, TypeOK, MappagesFails
  <1>10. CASE /\ leaf' = [leaf EXCEPT ![p][v] = e, ![s][v] = e] /\ increase_refer(e.pa)
              /\ th' = [th EXCEPT ![p].i = v + 1] /\ UNCHANGED tabs
    <2> DEFINE r == [th[p] EXCEPT !.i = v + 1]
    <2>1. leaf' \in [Space -> [VPage -> PTE]] /\ \A q \in Proc : q = p \/ q = s \/ leaf'[q] = leaf[q]
      BY <1>1, <1>3, <1>4, <1>5, <1>10, Zenon DEF TypeOK, Space
    <2>2. CowIsValid'
      <3>1. \A t \in Space, w \in VPage : leaf'[t][w] = IF t \in {p, s} /\ w = v THEN e ELSE leaf[t][w]
        BY <1>1, <1>3, <1>4, <1>10, Zenon DEF TypeOK
      <3> QED BY <1>1, <1>5, <3>1, SMTT(40) DEF ThreadInv, CowIsValid, VPage, Space
    <2>3. th' = [th EXCEPT ![p] = r]
      BY <1>10, Zenon
    <2>4. r \in Thread
      BY <1>1, <1>3, Zenon DEF Thread
    <2>5. Locals(r) /\ r.op = th[p].op /\ r.np = th[p].np /\ r.pc # "none" /\ FaultPage(r, leaf'[p])
      BY <1>1, <1>2, <1>3, Zenon DEF Locals, PcOf, Thread, FaultPage
    <2> HIDE DEF r
    <2> QED
      BY <1>1, <1>2, <1>5, <1>7, <1>10, <2>1, <2>2, <2>3, <2>4, <2>5, ThreadLeaf, KmemTypes, ZenonT(60)
      DEF uvmcopy, procs, TypeOK
  <1> QED
    BY <1>8, <1>9, <1>10, Zenon DEF uvmcopy

(* uvmunmap on one page. *)
LEMMA ThreadUvmunmap ==
  ASSUME ThreadInv, NEW p \in Proc, uvmunmap(p)
  PROVE  ThreadInv'
  <1> DEFINE s == th[p].np
             v == th[p].i
             r == [th[p] EXCEPT !.i = v + 1]
  <1>1. th[p].pc \in {"uvmfree", "uvmdealloc"} /\ th[p] \in Thread /\ Locals(th[p]) /\ Target(p, th[p])
        /\ TypeOK /\ v < th[p].n /\ leaf[s][v].pa # NULL
    BY Zenon DEF uvmunmap, ThreadInv, TypeOK
  <1>2. th[p].op \in {"fork", "wait", "exec", "sbrk", "shrink"} /\ th[p].n \in 0..MAXVP /\ th[p].mem = NULL
    BY <1>1, Zenon DEF Locals, PcOf, Thread
  <1>3. v \in VPage /\ v + 1 \in Nat
    BY <1>1, <1>2, SizeAssumption, SMTT(40) DEF VPage, Thread
  <1>4. s \in Space /\ \A q \in Proc : q # p /\ th[q].pc # "none" => s # q
    BY <1>2, TargetIdle, Zenon
  <1>5. leaf[s][v].pa \in PA /\ NoPTE \in PTE
    BY <1>1, <1>3, <1>4, SMTT(40) DEF TypeOK, PTE, NoPTE
  <1>6. leaf' = [leaf EXCEPT ![s][v] = NoPTE] /\ kfree(p, leaf[s][v].pa)
        /\ th' = [th EXCEPT ![p] = r]
    BY Zenon DEF uvmunmap
  <1>7. leaf' \in [Space -> [VPage -> PTE]] /\ \A q \in Proc : q = s \/ leaf'[q] = leaf[q]
    BY <1>1, <1>3, <1>4, <1>5, <1>6, Zenon DEF TypeOK, Space
  <1>8. CowIsValid'
    <2>1. \A t \in Space, w \in VPage : leaf'[t][w] = IF t = s /\ w = v THEN NoPTE ELSE leaf[t][w]
      BY <1>1, <1>3, <1>4, <1>6, Zenon DEF TypeOK
    <2> QED BY <2>1 DEF ThreadInv, CowIsValid, VPage, Space, NoPTE
  <1>9. r \in Thread
    BY <1>1, <1>3, Zenon DEF Thread
  <1>10. Locals(r) /\ r.op = th[p].op /\ r.np = th[p].np /\ r.pc # "none" /\ FaultPage(r, leaf'[p])
    BY <1>1, <1>2, Zenon DEF Locals, PcOf, Thread, FaultPage
  <1> HIDE DEF r
  <1>11. \A q \in Proc : q = p \/ leaf'[q] = leaf[q] \/ th[q].pc = "none"
    BY <1>4, <1>7, Zenon
  <1>12. /\ r.op \in {"sbrk", "shrink"} => r.np = p
         /\ r.op = "exec" => r.np = -p
         /\ r.op = "wait" => r.np \in Proc /\ state[r.np] = "ZOMBIE" /\ parent[r.np] = p
    BY <1>1, <1>10, Zenon DEF Target
  <1>13. /\ freelist' \subseteq PA /\ refer_count' \in [PA -> 0..(REFMOD - 1)]
         /\ freeing' \in [Proc -> PA \cup {NULL}]
    BY <1>1, <1>5, <1>6, KmemTypes, Zenon
  <1> QED
    BY <1>1, <1>2, <1>6, <1>7, <1>8, <1>9, <1>10, <1>11, <1>12, <1>13, ThreadLeaf, ZenonT(60)
    DEF uvmunmap, procs, TypeOK

(* freewalk frees one page of a table. *)
LEMMA ThreadFreewalk ==
  ASSUME ThreadInv, NEW p \in Proc, freewalk(p)
  PROVE  ThreadInv'
  <1> DEFINE s == th[p].np
             there == {x \in Node : tabs[s][x] # NULL}
             x == CHOOSE y \in there : TRUE
  <1>1. th[p].pc = "uvmfree" /\ th[p] \in Thread /\ Locals(th[p]) /\ TypeOK
    BY Zenon DEF freewalk, Running, ThreadInv, TypeOK
  <1>2. th[p].op \in {"fork", "wait", "exec"}
    BY <1>1, Zenon DEF Locals, PcOf, Thread
  <1>3. s \in Space
    BY <1>2, TargetIdle, Zenon
  <1>4. x \in there
    BY Zenon DEF freewalk
  <1>6. kfree(p, tabs[s][x]) /\ tabs' = [tabs EXCEPT ![s][x] = NULL]
    BY Zenon DEF freewalk
  <1> HIDE DEF x
  <1>5. x \in Node /\ tabs[s][x] \in PA
    BY <1>1, <1>3, <1>4, SMTT(40) DEF TypeOK
  <1> HIDE DEF there
  <1>7. tabs' \in [Space -> [Node -> PA \cup {NULL}]]
    BY <1>1, <1>3, <1>5, <1>6, Zenon DEF TypeOK
  <1> QED
    BY <1>1, <1>5, <1>6, <1>7, ThreadSame, KmemTypes, Zenon DEF freewalk, procs, TypeOK

(* uvmalloc: a page, a page-table page, the mapping, or no memory. *)
LEMMA ThreadUvmalloc ==
  ASSUME ThreadInv, NEW p \in Proc, uvmalloc(p)
  PROVE  ThreadInv'
  <1> DEFINE t == th[p]
             s == t.np
  <1>1. t.pc = "uvmalloc" /\ t \in Thread /\ Locals(t) /\ Target(p, t) /\ TypeOK /\ t.i < t.n
        /\ UNCHANGED <<sz, procs>> /\ NULL \notin PA
    BY KmemAssumption, Zenon DEF uvmalloc, Running, ThreadInv, TypeOK
  <1>2. t.op \in {"userinit", "exec", "sbrk"} /\ t.i \in 0..MAXVP /\ t.n \in 0..MAXVP
    BY <1>1, Zenon DEF Locals, PcOf, Thread
  <1>3. t.i \in VPage /\ t.i + 1 \in 0..MAXVP /\ t.i + 1 \in Nat
    BY <1>1, <1>2, SizeAssumption, SMTT(40) DEF VPage
  <1>4. s \in Space /\ \A q \in Proc : q # p /\ th[q].pc # "none" => s # q
    BY <1>2, TargetIdle, Zenon
  <1>5. CASE \E pa \in PA :
               /\ kalloc(pa)
               /\ content' = [content EXCEPT ![pa] = IF t.op = "sbrk" THEN Zero ELSE Image]
               /\ th' = [th EXCEPT ![p].mem = pa]
               /\ UNCHANGED <<leaf, tabs>>
    <2> PICK pa \in PA :
               /\ kalloc(pa)
               /\ content' = [content EXCEPT ![pa] = IF t.op = "sbrk" THEN Zero ELSE Image]
               /\ th' = [th EXCEPT ![p].mem = pa]
               /\ UNCHANGED <<leaf, tabs>>
      BY <1>5, Zenon
    <2> DEFINE r == [th[p] EXCEPT !.mem = pa]
    <2>1. r \in Thread
      BY <1>1, Zenon DEF Thread
    <2>2. Locals(r) /\ r.op = t.op /\ r.np = t.np /\ r.pc # "none" /\ FaultPage(r, leaf[p])
      BY <1>1, <1>2, Zenon DEF Locals, PcOf, Thread, FaultPage
    <2>3. th' = [th EXCEPT ![p] = r]
      OBVIOUS
    <2>4. content' \in [PA -> Val]
      BY <1>1, Zenon DEF TypeOK, Val, Zero, Image
    <2> HIDE DEF r
    <2> QED
      BY <1>1, <1>2, <2>1, <2>2, <2>3, <2>4, ThreadOnly, KmemTypes, Zenon DEF procs, TypeOK, Target
  <1>6. CASE t.op # "userinit" /\ kalloc_fails /\ Undo(p) /\ UNCHANGED <<content, leaf, tabs>>
    BY <1>1, <1>2, <1>6, ThreadUndo, KmemTypes, Zenon DEF procs
  <1>7. CASE /\ ~walk(s, t.i) /\ walk_alloc(s, NodesOf[t.i]) /\ UNCHANGED <<content, leaf, th>>
    <2>1. NodesOf[t.i] \in SUBSET Node /\ Missing(s, NodesOf[t.i]) # {}
      BY <1>3, <1>7, Zenon DEF Node, walk
    <2> QED
      BY <1>1, <1>4, <1>7, <2>1, WalkAlloc, ThreadSame, Zenon DEF procs, TypeOK
  <1>8. CASE /\ t.mem # NULL /\ t.op # "userinit" /\ kfree(p, t.mem) /\ Undo(p)
             /\ UNCHANGED <<content, leaf, tabs>>
    <2>1. t.mem \in PA
      BY <1>1, <1>8, Zenon DEF Thread
    <2> QED
      BY <1>1, <1>2, <1>8, <2>1, ThreadUndo, KmemTypes, Zenon DEF procs
  <1>9. CASE /\ t.mem # NULL /\ leaf' = [leaf EXCEPT ![s][t.i] = NewPTE(t)]
             /\ th' = [th EXCEPT ![p].i = t.i + 1, ![p].mem = NULL]
             /\ UNCHANGED <<kmem, content, tabs>>
    <2> DEFINE r == [th[p] EXCEPT !.i = t.i + 1, !.mem = NULL]
               e == NewPTE(t)
    <2>1. r \in Thread
      BY <1>1, <1>3, Zenon DEF Thread
    <2>2. Locals(r) /\ r.op = t.op /\ r.np = t.np /\ r.pc # "none" /\ FaultPage(r, leaf'[p])
      BY <1>1, <1>2, <1>3, Zenon DEF Locals, PcOf, Thread, FaultPage
    <2>3. th' = [th EXCEPT ![p] = r]
      BY <1>1, <1>9, Zenon DEF TypeOK
    <2>4. e \in PTE /\ ~e.cow
      BY <1>1, <1>9, Zenon DEF PTE, NewPTE, Thread
    <2>5. leaf' = [leaf EXCEPT ![s][t.i] = e]
      BY <1>9, Zenon
    <2> HIDE DEF r, e
    <2>6. leaf' \in [Space -> [VPage -> PTE]] /\ \A q \in Proc : q = s \/ leaf'[q] = leaf[q]
      BY <1>1, <1>3, <1>4, <2>4, <2>5, Zenon DEF TypeOK, Space
    <2>7. CowIsValid'
      <3>1. \A u \in Space, w \in VPage : leaf'[u][w] = IF u = s /\ w = t.i THEN e ELSE leaf[u][w]
        BY <1>1, <1>3, <1>4, <2>5, Zenon DEF TypeOK
      <3> QED BY <2>4, <3>1, SMTT(40) DEF ThreadInv, CowIsValid, VPage, Space
    <2>8. \A q \in Proc : q = p \/ leaf'[q] = leaf[q] \/ th[q].pc = "none"
      BY <1>4, <2>6, Zenon
    <2> QED
      BY <1>1, <1>2, <1>9, <2>1, <2>2, <2>3, <2>6, <2>7, <2>8, ThreadLeaf, ZenonT(60)
      DEF procs, kmem, TypeOK, Target
  <1> QED
    BY <1>5, <1>6, <1>7, <1>8, <1>9, Zenon DEF uvmalloc

(* uvmdealloc is complete. *)
LEMMA ThreadUvmdeallocDone ==
  ASSUME ThreadInv, NEW p \in Proc, UvmdeallocDone(p)
  PROVE  ThreadInv'
  <1>1. th[p].pc = "uvmdealloc" /\ th[p] \in Thread /\ TypeOK
    BY Zenon DEF UvmdeallocDone, Running, ThreadInv, TypeOK
  <1>2. User \in Thread /\ Locals(User) /\ FaultPage(User, leaf[p]) /\ User.op = "none" /\ User.pc # "none"
    BY UserThread, Zenon DEF Locals, PcOf, User, Idle, FaultPage
  <1>3. th[p].newsz \in 0..(MAXVP * PGSIZE)
    BY <1>1, Zenon DEF Thread
  <1>4. sz' \in [Proc -> 0..(MAXVP * PGSIZE)]
    BY <1>1, <1>3, Zenon DEF UvmdeallocDone, TypeOK
  <1> QED
    BY <1>1, <1>2, <1>4, ThreadOnly, Zenon DEF UvmdeallocDone, kmem, procs, TypeOK

(* exec swaps the tables. *)
LEMMA ThreadExecCommit ==
  ASSUME ThreadInv, NEW p \in Proc, ExecCommit(p)
  PROVE  ThreadInv'
  <1> DEFINE r == [th[p] EXCEPT !.pc = "uvmfree", !.i = 0, !.n = OldPages(p)]
  <1>1. th[p].pc = "uvmalloc" /\ th[p] \in Thread /\ Locals(th[p]) /\ Target(p, th[p]) /\ TypeOK
        /\ th[p].op = "exec" /\ p \in Space /\ th[p].i >= th[p].n
    BY Zenon DEF ExecCommit, Running, ThreadInv, TypeOK, Space
  <1>2. th[p].np = -p /\ -p \in Space /\ -p \notin Proc /\ -p # p
    BY <1>1, TargetIdle, Zenon DEF Target
  <1>3. OldPages(p) \in 0..MAXVP /\ OldPages(p) \in Nat
    BY <1>1, PagesType, SizeAssumption, SMTT(40) DEF OldPages, TypeOK
  <1>4. TRAPFRAME \in Node
    BY NodeAssumption, Zenon DEF Node
  <1>5. tabs' \in [Space -> [Node -> PA \cup {NULL}]]
    BY <1>1, <1>2, <1>4, ZenonT(60) DEF ExecCommit, OldTable, TypeOK
  <1>6. leaf' \in [Space -> [VPage -> PTE]] /\ \A q \in Proc : q = p \/ leaf'[q] = leaf[q]
    BY <1>1, <1>2, Zenon DEF ExecCommit, TypeOK, Space
  <1>7. CowIsValid'
    <2>1. \A s \in Space : leaf'[s] = IF s = p THEN leaf[-p] ELSE IF s = -p THEN leaf[p] ELSE leaf[s]
      BY <1>1, <1>2, Zenon DEF ExecCommit, TypeOK
    <2>2. CowIsValid
      BY Zenon DEF ThreadInv
    <2> SUFFICES ASSUME NEW s \in Space PROVE \A v \in VPage : leaf'[s][v].cow => leaf'[s][v].pa # NULL
      BY Zenon DEF CowIsValid, VPage, Space
    <2> QED BY <1>1, <1>2, <2>1, <2>2, SMTT(40) DEF CowIsValid
  <1>8. sz' \in [Proc -> 0..(MAXVP * PGSIZE)]
    <2>1. th[p].newsz \in 0..(MAXVP * PGSIZE)
      BY <1>1, Zenon DEF Thread
    <2> QED BY <1>1, <2>1, Zenon DEF ExecCommit, TypeOK
  <1>9. th' = [th EXCEPT ![p] = r]
    BY Zenon DEF ExecCommit
  <1>10. r \in Thread
    BY <1>1, <1>3, Zenon DEF Thread
  <1>0. th[p].mem = NULL
    BY <1>1 DEF Locals, Thread
  <1>11. Locals(r) /\ r.op = "exec" /\ r.np = -p /\ r.pc # "none"
    BY <1>0, <1>1, <1>2, <1>3, Zenon DEF Locals, PcOf, Thread
  <1>12. FaultPage(r, leaf'[p])
    BY <1>1, Zenon DEF Thread, FaultPage
  <1> HIDE DEF r
  <1> QED
    BY <1>1, <1>5, <1>6, <1>7, <1>8, <1>9, <1>10, <1>11, <1>12, ThreadLeaf, ZenonT(60)
    DEF ExecCommit, kmem, procs, TypeOK

(* fork takes a slot. *)
LEMMA ThreadFork ==
  ASSUME ThreadInv, NEW p \in Proc, fork(p)
  PROVE  ThreadInv'
  <1>1. th[p].pc = "user" /\ TypeOK /\ th[p] # Idle
    BY DEF fork, Running, ThreadInv, TypeOK, Idle
  <1>2. PICK c \in Proc :
          /\ state[c] = "UNUSED" /\ state' = [state EXCEPT ![c] = "USED"]
          /\ th' = [th EXCEPT ![p] = [User EXCEPT !.pc = "proc_pagetable", !.op = "fork", !.np = c]]
    BY Zenon DEF fork
  <1> DEFINE r == [User EXCEPT !.pc = "proc_pagetable", !.op = "fork", !.np = c]
  <1>3. th[c] = Idle /\ c # p
    BY <1>1, <1>2, Zenon DEF ThreadInv, DeadIsIdle
  <1>4. r \in Thread
    BY UserThread, Zenon DEF Thread, Space
  <1>5. r.op = "fork" /\ r.np = c /\ r.pc = "proc_pagetable" /\ r.i = 0 /\ r.n = 0 /\ r.mem = NULL
    BY Zenon DEF User, Idle
  <1>6. th' = [th EXCEPT ![p] = r]
    BY <1>2, Zenon
  <1> HIDE DEF r
  <1>7. Locals(r) /\ FaultPage(r, leaf[p])
    BY <1>5, SizeAssumption, SMTT(40) DEF Locals, PcOf, FaultPage
  <1>8. th'[p] = r /\ \A q \in Proc : q # p => th'[q] = th[q]
    BY <1>1, <1>6, Zenon DEF TypeOK
  <1>9. state'[c] = "USED" /\ \A q \in Proc : q # c => state'[q] = state[q]
    BY <1>1, <1>2, Zenon DEF TypeOK
  <1>10. UNCHANGED <<kmem, content, space, parent, wait_lock>>
    BY Zenon DEF fork
  <1>11. TypeOK'
    BY <1>1, <1>2, <1>4, <1>6, <1>10, Zenon DEF TypeOK, kmem, space
  <1>12. \A q \in Proc : Locals(th[q])' /\ FaultPage(th[q], leaf[q])'
    BY <1>7, <1>8, <1>10, SMTT(40) DEF ThreadInv, Locals, FaultPage, VPage, space
  <1>13. ASSUME NEW q \in Proc PROVE Target(q, th[q])'
    <2>1. CASE q = p
      BY <1>3, <1>5, <1>8, <1>9, <2>1, Zenon DEF Target
    <2>2. CASE q # p
      <3>1. Target(q, th[q]) /\ th'[q] = th[q]
        BY <1>8, <2>2, Zenon DEF ThreadInv
      <3> QED BY <1>1, <1>2, <1>8, <1>9, <1>10, <3>1, ZenonT(60) DEF Target
    <2> QED BY <2>1, <2>2, Zenon
  <1>14. ForksApart'
    BY <1>2, <1>5, <1>8, SMTT(40) DEF ThreadInv, ForksApart, Target
  <1>15. DeadIsIdle'
    BY <1>1, <1>8, <1>9, Zenon DEF ThreadInv, DeadIsIdle
  <1>16. CowIsValid'
    BY <1>10, Zenon DEF ThreadInv, CowIsValid, VPage, Space, space
  <1> QED
    BY <1>11, <1>12, <1>13, <1>14, <1>15, <1>16, Zenon DEF ThreadInv

(* fork lets the child run. *)
LEMMA ThreadForkReturns ==
  ASSUME ThreadInv, NEW p \in Proc, ForkReturns(p)
  PROVE  ThreadInv'
  <1> DEFINE c == th[p].np
  <1>1. th[p].pc = "uvmcopy" /\ th[p] \in Thread /\ Locals(th[p]) /\ Target(p, th[p]) /\ TypeOK /\ th[p] # Idle
    BY DEF ForkReturns, Running, ThreadInv, TypeOK, Idle
  <1>2. th[p].op = "fork"
    BY <1>1, Zenon DEF Locals, PcOf, Thread
  <1>3. c \in Proc /\ c # p /\ state[c] = "USED" /\ th[c] = Idle
    BY <1>1, <1>2, Zenon DEF Target
  <1>4. User \in Thread /\ Locals(User) /\ \A table : FaultPage(User, table)
    BY UserThread, Zenon DEF Locals, PcOf, User, Idle, FaultPage
  <1>5. User.op = "none" /\ User # Idle
    BY Zenon DEF User, Idle
  <1>6. th'[p] = User /\ th'[c] = User /\ \A q \in Proc : q \notin {p, c} => th'[q] = th[q]
    BY <1>1, <1>3, Zenon DEF ForkReturns, TypeOK
  <1>7. state'[c] = "RUNNABLE" /\ \A q \in Proc : q # c => state'[q] = state[q] /\ parent'[q] = parent[q]
    BY <1>1, <1>3, Zenon DEF ForkReturns, TypeOK
  <1>8. UNCHANGED <<kmem, content, leaf, tabs, wait_lock>>
    BY Zenon DEF ForkReturns
  <1>9. TypeOK'
    BY <1>1, <1>3, <1>4, <1>8, Zenon DEF ForkReturns, TypeOK, kmem
  <1> HIDE DEF c
  <1>10. \A q \in Proc : Locals(th[q])' /\ FaultPage(th[q], leaf[q])'
    BY <1>4, <1>6, <1>8, SMTT(40) DEF ThreadInv, Locals, FaultPage, VPage
  <1>11. ASSUME NEW q \in Proc PROVE Target(q, th[q])'
    <2>1. CASE q \in {p, c}
      BY <1>5, <1>6, <2>1, Zenon DEF Target
    <2>2. CASE q \notin {p, c}
      <3>1. Target(q, th[q]) /\ th'[q] = th[q] /\ (th[q].op = "fork" => th[q].np # c)
        BY <1>2, <1>6, <2>2, Zenon DEF ThreadInv, ForksApart, c
      <3> QED BY <1>1, <1>3, <1>6, <1>7, <3>1, Zenon DEF Target
    <2> QED BY <2>1, <2>2, Zenon
  <1>12. ForksApart'
    BY <1>5, <1>6, Zenon DEF ThreadInv, ForksApart
  <1>13. DeadIsIdle'
    BY <1>1, <1>6, <1>7, Zenon DEF ThreadInv, DeadIsIdle
  <1>14. CowIsValid'
    BY <1>8, Zenon DEF ThreadInv, CowIsValid, VPage, Space
  <1> QED
    BY <1>9, <1>10, <1>11, <1>12, <1>13, <1>14, Zenon DEF ThreadInv

(* exit leaves a zombie without a thread. *)
LEMMA ThreadExit ==
  ASSUME ThreadInv, NEW p \in Proc, exit(p)
  PROVE  ThreadInv'
  <1>1. th[p].pc = "exit" /\ TypeOK /\ th[p] # Idle /\ initproc \in Proc
    BY ProcAssumption, SMTT(40) DEF exit, Running, ThreadInv, TypeOK, Idle
  <1>2. Idle \in Thread /\ Locals(Idle) /\ (\A table : FaultPage(Idle, table)) /\ Idle.op = "none"
    BY UserThread, Zenon DEF Locals, PcOf, Idle, FaultPage
  <1>3. th'[p] = Idle /\ \A q \in Proc : q # p => th'[q] = th[q]
    BY <1>1, Zenon DEF exit, TypeOK
  <1>4. state'[p] = "ZOMBIE" /\ \A q \in Proc : q # p => state'[q] = state[q]
    BY <1>1, Zenon DEF exit, TypeOK
  <1>5. \A q \in Proc : parent'[q] = IF parent[q] = p THEN initproc ELSE parent[q]
    BY <1>1, Zenon DEF exit, reparent
  <1>6. UNCHANGED <<kmem, content, space, wait_lock>>
    BY Zenon DEF exit
  <1>7. parent' \in [Proc -> Proc \cup {NULL}]
    BY <1>1, Zenon DEF exit, reparent, TypeOK
  <1>8. TypeOK'
    BY <1>1, <1>2, <1>6, <1>7, Zenon DEF exit, TypeOK, kmem, space
  <1>9. \A q \in Proc : Locals(th[q])' /\ FaultPage(th[q], leaf[q])'
    BY <1>2, <1>3, <1>6, SMTT(40) DEF ThreadInv, Locals, FaultPage, VPage, space
  <1>10. ASSUME NEW q \in Proc PROVE Target(q, th[q])'
    <2>1. CASE q = p
      BY <1>2, <1>3, <2>1, Zenon DEF Target
    <2>2. CASE q # p
      <3>1. Target(q, th[q]) /\ th'[q] = th[q] /\ state[p] # "ZOMBIE"
        BY <1>1, <1>3, <2>2, Zenon DEF ThreadInv, DeadIsIdle
      <3> QED BY <1>1, <1>3, <1>4, <1>5, <2>2, <3>1, ZenonT(60) DEF Target
    <2> QED BY <2>1, <2>2, Zenon
  <1>11. ForksApart'
    BY <1>2, <1>3, Zenon DEF ThreadInv, ForksApart
  <1>12. DeadIsIdle'
    BY <1>3, <1>4, Zenon DEF ThreadInv, DeadIsIdle
  <1>13. CowIsValid'
    BY <1>6, Zenon DEF ThreadInv, CowIsValid, VPage, Space, space
  <1> QED
    BY <1>8, <1>9, <1>10, <1>11, <1>12, <1>13, Zenon DEF ThreadInv

(* freeproc gives the slot back; no other thread works on it. *)
LEMMA ThreadFreeproc ==
  ASSUME ThreadInv, NEW p \in Proc, freeproc(p)
  PROVE  ThreadInv'
  <1> DEFINE s == th[p].np
  <1>1. th[p].pc = "uvmfree" /\ th[p] \in Thread /\ Locals(th[p]) /\ Target(p, th[p]) /\ TypeOK /\ th[p] # Idle
    BY DEF freeproc, Running, ThreadInv, TypeOK, Idle
  <1>2. th[p].op \in {"fork", "wait", "exec"}
    BY <1>1, Zenon DEF Locals, PcOf, Thread
  <1>3. s \in Proc => s # p /\ th[s] = Idle
    <2>1. th[p].op = "exec" => s \notin Proc
      BY <1>1, <1>2, TargetIdle, Zenon DEF Target
    <2> QED BY <1>1, <1>2, <2>1, Zenon DEF Target, ThreadInv, DeadIsIdle
  <1>4. User \in Thread /\ Locals(User) /\ (\A table : FaultPage(User, table)) /\ User.op = "none"
    BY UserThread, Zenon DEF Locals, PcOf, User, Idle, FaultPage
  <1>5. th'[p] = User /\ \A q \in Proc : q # p => th'[q] = th[q]
    BY <1>1, Zenon DEF freeproc, TypeOK
  <1>6. \A q \in Proc : q # s => state'[q] = state[q] /\ parent'[q] = parent[q]
    BY <1>1, Zenon DEF freeproc, TypeOK
  <1>7. UNCHANGED <<kmem, content, leaf, tabs>>
    BY Zenon DEF freeproc
  <1>8. /\ state' \in [Proc -> {"UNUSED", "USED", "RUNNABLE", "ZOMBIE"}]
        /\ parent' \in [Proc -> Proc \cup {NULL}]
        /\ sz' \in [Proc -> 0..(MAXVP * PGSIZE)]
        /\ wait_lock' \in Proc \cup {NULL}
        /\ th' \in [Proc -> Thread]
    <2>1. 0 \in 0..(MAXVP * PGSIZE)
      BY SizeType, SMTT(40)
    <2>2. CASE s \in Proc
      BY <1>1, <1>4, <2>1, <2>2, ZenonT(60) DEF freeproc, TypeOK
    <2>3. CASE s \notin Proc
      BY <1>1, <1>4, <2>3, Zenon DEF freeproc, TypeOK
    <2> QED BY <2>2, <2>3, Zenon
  <1>9. TypeOK'
    BY <1>1, <1>7, <1>8, Zenon DEF TypeOK, kmem
  <1> HIDE DEF s
  <1>10. \A q \in Proc : Locals(th[q])' /\ FaultPage(th[q], leaf[q])'
    BY <1>4, <1>5, <1>7, SMTT(40) DEF ThreadInv, Locals, FaultPage, VPage
  <1>11. ASSUME NEW q \in Proc, q # p, th[q].op \in {"fork", "wait"} PROVE th[q].np # s
    <2>1. Target(q, th[q]) /\ ForksApart
      BY Zenon DEF ThreadInv
    <2>2. Target(p, th[p]) /\ (th[p].op = "exec" => s \notin Proc)
      BY <1>1, <1>2, TargetIdle, Zenon DEF Target, s
    <2> QED BY <1>2, <1>11, <2>1, <2>2, Zenon DEF Target, ForksApart, s
  <1>12. ASSUME NEW q \in Proc PROVE Target(q, th[q])'
    <2>1. CASE q = p
      BY <1>4, <1>5, <2>1, Zenon DEF Target
    <2>2. CASE q # p
      <3>1. Target(q, th[q]) /\ th'[q] = th[q]
        BY <1>5, <2>2, Zenon DEF ThreadInv
      <3> QED BY <1>1, <1>5, <1>6, <1>11, <2>2, <3>1, ZenonT(60) DEF Target
    <2> QED BY <2>1, <2>2, Zenon
  <1>13. ForksApart'
    BY <1>4, <1>5, Zenon DEF ThreadInv, ForksApart
  <1>14. DeadIsIdle'
    BY <1>1, <1>3, <1>5, <1>6, Zenon DEF ThreadInv, DeadIsIdle
  <1>15. CowIsValid'
    BY <1>7, Zenon DEF ThreadInv, CowIsValid, VPage, Space
  <1> QED
    BY <1>9, <1>10, <1>12, <1>13, <1>14, <1>15, Zenon DEF ThreadInv

(* uvmalloc is complete, for sbrk or for the first process. *)
LEMMA ThreadUvmallocDone ==
  ASSUME ThreadInv, NEW p \in Proc, UvmallocDone(p)
  PROVE  ThreadInv'
  <1>1. th[p].pc = "uvmalloc" /\ th[p] \in Thread /\ TypeOK /\ th[p] # Idle
    BY DEF UvmallocDone, Running, ThreadInv, TypeOK, Idle
  <1>2. User \in Thread /\ Locals(User) /\ (\A table : FaultPage(User, table)) /\ User.op = "none"
    BY UserThread, Zenon DEF Locals, PcOf, User, Idle, FaultPage
  <1>3. th'[p] = User /\ \A q \in Proc : q # p => th'[q] = th[q]
    BY <1>1, Zenon DEF UvmallocDone, TypeOK
  <1>4. state'[p] = "RUNNABLE" /\ \A q \in Proc : q # p => state'[q] = state[q]
    BY <1>1, Zenon DEF UvmallocDone, TypeOK
  <1>5. UNCHANGED <<kmem, content, leaf, tabs, parent, wait_lock>>
    BY Zenon DEF UvmallocDone
  <1>6. sz' \in [Proc -> 0..(MAXVP * PGSIZE)]
    <2>1. th[p].newsz \in 0..(MAXVP * PGSIZE)
      BY <1>1, Zenon DEF Thread
    <2> QED BY <1>1, <2>1, Zenon DEF UvmallocDone, TypeOK
  <1>7. TypeOK'
    BY <1>1, <1>2, <1>5, <1>6, Zenon DEF UvmallocDone, TypeOK, kmem
  <1>8. \A q \in Proc : Locals(th[q])' /\ FaultPage(th[q], leaf[q])'
    BY <1>2, <1>3, <1>5, SMTT(40) DEF ThreadInv, Locals, FaultPage, VPage
  <1>9. ASSUME NEW q \in Proc PROVE Target(q, th[q])'
    <2>1. CASE q = p
      BY <1>2, <1>3, <2>1, Zenon DEF Target
    <2>2. CASE q # p
      <3>1. Target(q, th[q]) /\ th'[q] = th[q] /\ state[p] # "ZOMBIE"
        BY <1>1, <1>3, <2>2, Zenon DEF ThreadInv, DeadIsIdle
      <3> QED BY <1>1, <1>3, <1>4, <1>5, <2>2, <3>1, Zenon DEF Target
    <2> QED BY <2>1, <2>2, Zenon
  <1>10. ForksApart'
    BY <1>2, <1>3, Zenon DEF ThreadInv, ForksApart
  <1>11. DeadIsIdle'
    BY <1>3, <1>4, Zenon DEF ThreadInv, DeadIsIdle
  <1>12. CowIsValid'
    BY <1>5, Zenon DEF ThreadInv, CowIsValid, VPage, Space
  <1> QED
    BY <1>7, <1>8, <1>9, <1>10, <1>11, <1>12, Zenon DEF ThreadInv

-----------------------------------------------------------------------------

(* The kernel boots into a state that satisfies the invariant. *)
LEMMA ThreadInit == Init => ThreadInv
  <1> SUFFICES ASSUME Init PROVE ThreadInv
    OBVIOUS
  <1> DEFINE r == [Idle EXCEPT !.pc = "proc_pagetable", !.op = "userinit",
                               !.np = initproc, !.n = 1, !.newsz = PGSIZE]
  <1>1. initproc \in Proc /\ PGSIZE \in 0..(MAXVP * PGSIZE) /\ 1 \in 0..MAXVP /\ 0 \in 0..MAXVP
    <2>1. MAXVP >= 1 /\ PGSIZE \in Nat /\ MAXVP \in Nat
      BY SizeAssumption
    <2>2. MAXVP * PGSIZE >= PGSIZE
      BY <2>1, Z3
    <2> QED BY <2>1, <2>2, SizeType, ProcAssumption, SMTT(40)
  <1>2. r \in Thread /\ Idle \in Thread
    BY <1>1, UserThread, ZenonT(60) DEF Thread, Space
  <1>3. r.pc = "proc_pagetable" /\ r.op = "userinit" /\ r.np = initproc /\ r.i = 0 /\ r.n = 1 /\ r.mem = NULL
    BY Zenon DEF Idle
  <1>4. th \in [Proc -> Thread] /\ th[initproc] = r /\ \A q \in Proc : q # initproc => th[q] = Idle
    BY <1>1, <1>2, Zenon DEF Init
  <1> HIDE DEF r
  <1>5. Locals(r) /\ Locals(Idle) /\ \A table : FaultPage(r, table) /\ FaultPage(Idle, table)
    BY <1>1, <1>3, Zenon DEF Locals, PcOf, FaultPage, Idle
  <1>6. NoPTE \in PTE /\ ~NoPTE.cow
    BY Zenon DEF NoPTE, PTE
  <1>7. leaf \in [Space -> [VPage -> PTE]] /\ CowIsValid
    BY <1>6, Zenon DEF Init, CowIsValid
  <1>8. refer_count \in [PA -> 0..(REFMOD - 1)] /\ content \in [PA -> Val]
    <2>1. 0 \in 0..(REFMOD - 1) /\ Junk \in Val
      BY KmemAssumption DEF Val
    <2> QED BY <2>1, Zenon DEF Init
  <1>9. TypeOK
    <2>1. freelist \subseteq PA /\ freeing \in [Proc -> PA \cup {NULL}] /\ wait_lock \in Proc \cup {NULL}
      BY Zenon DEF Init
    <2>2. tabs \in [Space -> [Node -> PA \cup {NULL}]] /\ parent \in [Proc -> Proc \cup {NULL}]
      BY Zenon DEF Init
    <2>3. state \in [Proc -> {"UNUSED", "USED", "RUNNABLE", "ZOMBIE"}]
      BY Zenon DEF Init
    <2>4. sz \in [Proc -> 0..(MAXVP * PGSIZE)]
      <3>1. 0 \in 0..(MAXVP * PGSIZE)
        BY SizeType
      <3> QED BY <3>1, Zenon DEF Init
    <2> QED BY <1>4, <1>7, <1>8, <2>1, <2>2, <2>3, <2>4, Zenon DEF TypeOK
  <1>10. \A q \in Proc : Target(q, th[q])
    BY <1>3, <1>4 DEF Target, Idle
  <1>11. ForksApart /\ DeadIsIdle
    BY <1>1, <1>3, <1>4, Zenon DEF ForksApart, DeadIsIdle, Init, Idle
  <1> QED
    BY <1>4, <1>5, <1>7, <1>9, <1>10, <1>11, Zenon DEF ThreadInv

(* Every step of the kernel and of user code preserves it. *)
LEMMA ThreadNext == ThreadInv /\ [Next]_vars => ThreadInv'
  <1> SUFFICES ASSUME ThreadInv, [Next]_vars PROVE ThreadInv'
    OBVIOUS
  <1>1. CASE UNCHANGED vars
    <2>1. TypeOK
      BY Zenon DEF ThreadInv
    <2> QED
      BY <1>1, <2>1, ThreadSame, Zenon DEF vars, kmem, space, procs, TypeOK
  <1>2. ASSUME NEW p \in Proc, Kernel(p) PROVE ThreadInv'
    BY <1>2, ThreadRetry, ThreadIsCow, ThreadCowAlloc, ThreadCowKalloc, ThreadCowCopy,
       ThreadCowKfree, ThreadFinishKfree, ThreadCopyout, ThreadCopyoutCow,
       ThreadProcPagetable, ThreadUvmcopy, ThreadForkReturns, ThreadExit, ThreadUvmunmap,
       ThreadFreewalk, ThreadFreeproc, ThreadUvmalloc, ThreadUvmallocDone,
       ThreadUvmdeallocDone, ThreadExecCommit, SMTT(40)
    DEF Kernel
  <1>3. ASSUME NEW p \in Proc, UserCode(p) PROVE ThreadInv'
    <2>1. \A b \in CopyoutArgs : b[1] \in Nat /\ b[2] \in Nat \ {0}
      BY InputAssumption, Zenon
    <2>2. \A n \in SbrkArgs : n \in Int
      BY InputAssumption, Zenon
    <2> QED
      BY <1>3, <2>1, <2>2, ThreadStore, ThreadStorePageFault, ThreadSysCopyout, ThreadWait,
         ThreadSbrkGrow, ThreadSbrkShrink, ThreadFork, ThreadLeave, ThreadExec, SMTT(40)
      DEF UserCode
  <1> QED
    BY <1>1, <1>2, <1>3, Zenon DEF Next

(* Every thread is where its call may be, with locals that make sense, and *)
(* works on a page table that no other running thread works on.            *)
THEOREM ThreadInvariant == Spec => []ThreadInv
  BY ThreadInit, ThreadNext, PTL DEF Spec

(* Every variable keeps its type. *)
THEOREM TypeCorrect == Spec => []TypeOK
  <1>1. ThreadInv => TypeOK
    BY Zenon DEF ThreadInv
  <1> QED
    BY <1>1, ThreadInvariant, PTL

-----------------------------------------------------------------------------
(* Programs that never have the kernel write to their memory.              *)

(* A step in which only thread p moves, and it does not enter copyout. *)
StaysOut(p) == \A q \in Proc : th'[q] # th[q] => q = p /\ NotInCopyout(th'[q])

(* The places a thread that serves read, or wait's copyout, would be at. *)
LEMMA OutOfCopyout ==
  ASSUME ThreadInv, NoCopyout, NEW p \in Proc
  PROVE  /\ th \in [Proc -> Thread] /\ th[p] \in Thread
         /\ th[p].op # "read" /\ th[p].pc \notin {"copyout", "memmove"}
         /\ th[p].pc # "uvmfree" => th[p].op # "wait"
  <1>1. th \in [Proc -> Thread] /\ th[p] \in Thread /\ Locals(th[p])
    BY Zenon DEF ThreadInv, TypeOK
  <1>2. th[p].op # "read" /\ (th[p].op = "wait" => th[p].pc = "uvmfree")
    BY Zenon DEF NoCopyout, NotInCopyout
  <1>3. th[p].pc \in PcOf(th[p].op) /\ th[p].op \in {"none", "trap", "wait", "fork", "userinit", "sbrk", "shrink", "exec"}
    BY <1>1, <1>2, SMTT(40) DEF Locals, Thread
  <1>4. th[p].pc \notin {"copyout", "memmove"}
    BY <1>2, <1>3 DEF PcOf
  <1> QED
    BY <1>1, <1>2, <1>4, Zenon

(* Faults and cow_alloc. *)
LEMMA FaultsStayOut ==
  ASSUME ThreadInv, NoCopyout, NEW p \in Proc,
         \/ Retry(p) \/ is_cowpage(p) \/ cow_alloc(p) \/ cow_kalloc(p) \/ cow_copy(p)
         \/ cow_kfree(p) \/ \E a \in StoreAddrs : StorePageFault(p, a)
  PROVE  StaysOut(p)
  <1>1. th \in [Proc -> Thread] /\ th[p] \in Thread /\ th[p].op # "read"
        /\ (th[p].pc # "uvmfree" => th[p].op # "wait")
    BY OutOfCopyout, Zenon
  <1>2. CASE Retry(p)
    BY <1>1, <1>2, SMTT(40) DEF Retry, Running, User, Idle, StaysOut, NotInCopyout, Thread
  <1>3. CASE is_cowpage(p)
    BY <1>1, <1>3, SMTT(40) DEF is_cowpage, Running, User, Idle, StaysOut, NotInCopyout, Thread
  <1>4. CASE cow_alloc(p)
    BY <1>1, <1>4, SMTT(40) DEF cow_alloc, CowDone, Running, StaysOut, NotInCopyout, Thread
  <1>5. CASE cow_kalloc(p)
    <2>1. th[p].op # "wait"
      BY <1>1, <1>5, SMTT(40) DEF cow_kalloc, Running
    <2>2. ASSUME NEW pa, th' = [th EXCEPT ![p].pc = "cow_copy", ![p].mem = pa] PROVE StaysOut(p)
      BY <1>1, <2>1, <2>2, SMTT(40) DEF StaysOut, NotInCopyout, Thread
    <2>3. CASE th' = [th EXCEPT ![p] = [User EXCEPT !.pc = "exit"]]
      BY <1>1, <2>3, SMTT(40) DEF StaysOut, NotInCopyout, User, Idle
    <2>4. CASE th' = [th EXCEPT ![p] = User]
      BY <1>1, <2>4, SMTT(40) DEF StaysOut, NotInCopyout, User, Idle
    <2> QED
      BY <1>5, <2>2, <2>3, <2>4, Zenon DEF cow_kalloc, CowFails, CopyoutFails
  <1>6. CASE cow_copy(p)
    BY <1>1, <1>6, SMTT(40) DEF cow_copy, Running, StaysOut, NotInCopyout, Thread
  <1>7. CASE cow_kfree(p)
    BY <1>1, <1>7, SMTT(40) DEF cow_kfree, CowDone, Running, StaysOut, NotInCopyout, Thread
  <1>8. ASSUME NEW a \in StoreAddrs, StorePageFault(p, a) PROVE StaysOut(p)
    BY <1>1, <1>8, ZenonT(30) DEF StorePageFault, Running, User, Idle, StaysOut, NotInCopyout, Thread
  <1> QED
    BY <1>2, <1>3, <1>4, <1>5, <1>6, <1>7, <1>8, Zenon

(* The loops that build and free page tables. *)
LEMMA LoopsStayOut ==
  ASSUME ThreadInv, NoCopyout, NEW p \in Proc,
         \/ proc_pagetable(p) \/ uvmcopy(p) \/ uvmalloc(p) \/ uvmunmap(p) \/ freewalk(p)
         \/ freeproc(p) \/ UvmallocDone(p) \/ UvmdeallocDone(p) \/ ExecCommit(p)
  PROVE  StaysOut(p)
  <1>1. th \in [Proc -> Thread] /\ th[p] \in Thread /\ th[p].op # "read"
        /\ (th[p].pc # "uvmfree" => th[p].op # "wait")
    BY OutOfCopyout, Zenon
  <1>2. Undo(p) /\ th[p].pc # "uvmfree" => StaysOut(p)
    BY <1>1 DEF Undo, StaysOut, NotInCopyout, Thread
  <1>3. CASE UNCHANGED th
    BY <1>3, Zenon DEF StaysOut
  <1>4. CASE proc_pagetable(p)
    <2>1. ASSUME NEW l, th' = [th EXCEPT ![p].pc = l] PROVE th[p].pc # "uvmfree" => StaysOut(p)
      BY <1>1, <2>1, SMTT(40) DEF StaysOut, NotInCopyout, Thread
    <2>2. th[p].pc # "uvmfree"
      BY <1>4 DEF proc_pagetable, Running
    <2> QED BY <1>2, <1>3, <1>4, <2>1, <2>2, Zenon DEF proc_pagetable
  <1>5. CASE uvmcopy(p)
    <2>1. ASSUME NEW l, th' = [th EXCEPT ![p].i = l] PROVE StaysOut(p)
      BY <1>1, <2>1, SMTT(40) DEF StaysOut, NotInCopyout, Thread
    <2>2. th[p].pc # "uvmfree"
      BY <1>5, Zenon DEF uvmcopy, Running
    <2> QED BY <1>2, <1>3, <1>5, <2>1, <2>2, Zenon DEF uvmcopy, MappagesFails
  <1>6. CASE uvmalloc(p)
    <2>1. ASSUME NEW l, th' = [th EXCEPT ![p].mem = l] PROVE StaysOut(p)
      BY <1>1, <2>1, SMTT(40) DEF StaysOut, NotInCopyout, Thread
    <2>2. ASSUME NEW k, NEW l, th' = [th EXCEPT ![p].i = k, ![p].mem = l] PROVE StaysOut(p)
      BY <1>1, <2>2, SMTT(40) DEF StaysOut, NotInCopyout, Thread
    <2>3. th[p].pc # "uvmfree"
      BY <1>6, Zenon DEF uvmalloc, Running
    <2> QED BY <1>2, <1>3, <1>6, <2>1, <2>2, <2>3, Zenon DEF uvmalloc
  <1>7. CASE uvmunmap(p)
    BY <1>1, <1>7 DEF uvmunmap, StaysOut, NotInCopyout, Thread
  <1>8. CASE freewalk(p)
    BY <1>3, <1>8, Zenon DEF freewalk
  <1>9. CASE freeproc(p) \/ UvmallocDone(p) \/ UvmdeallocDone(p)
    <2>1. th' = [th EXCEPT ![p] = User]
      BY <1>9, Zenon DEF freeproc, UvmallocDone, UvmdeallocDone
    <2> QED BY <1>1, <2>1, SMTT(40) DEF StaysOut, NotInCopyout, Thread, User, Idle
  <1>10. CASE ExecCommit(p)
    <2>1. PICK k : th' = [th EXCEPT ![p] = [th[p] EXCEPT !.pc = "uvmfree", !.i = 0, !.n = k]]
      BY <1>10, Zenon DEF ExecCommit
    <2> QED BY <1>1, <2>1, SMTT(40) DEF StaysOut, NotInCopyout, Thread
  <1> QED
    BY <1>4, <1>5, <1>6, <1>7, <1>8, <1>9, <1>10, Zenon

(* The start of the system calls, without copyout. *)
LEMMA CallsStayOut ==
  ASSUME ThreadInv, NoCopyout, NEW p \in Proc,
         \/ fork(p) \/ Leave(p) \/ exec(p) \/ exit(p) \/ wait(p, NULL)
         \/ \E n \in SbrkArgs : SbrkGrow(p, n) \/ SbrkShrink(p, n)
  PROVE  StaysOut(p)
  <1>1. th \in [Proc -> Thread]
    BY OutOfCopyout, Zenon
  <1>2. CASE fork(p)
    BY <1>1, <1>2, Zenon DEF fork, User, Idle, StaysOut, NotInCopyout
  <1>3. CASE Leave(p)
    BY <1>1, <1>3 DEF Leave, User, Idle, StaysOut, NotInCopyout
  <1>4. CASE exec(p)
    BY <1>1, <1>4, SMTT(40) DEF exec, User, Idle, StaysOut, NotInCopyout
  <1>5. CASE exit(p)
    BY <1>1, <1>5 DEF exit, Idle, StaysOut, NotInCopyout
  <1>6. CASE wait(p, NULL)
    <2>1. PICK c \in Proc : th' = [th EXCEPT ![p] = Reap(c)]
      BY <1>6, Zenon DEF wait
    <2> QED BY <1>1, <2>1 DEF Reap, User, Idle, StaysOut, NotInCopyout
  <1>7. ASSUME NEW n \in SbrkArgs, SbrkGrow(p, n) PROVE StaysOut(p)
    BY <1>1, <1>7, ZenonT(30) DEF SbrkGrow, User, Idle, StaysOut, NotInCopyout
  <1>8. ASSUME NEW n \in SbrkArgs, SbrkShrink(p, n) PROVE StaysOut(p)
    BY <1>1, <1>8, Zenon DEF SbrkShrink, User, Idle, StaysOut, NotInCopyout
  <1> QED
    BY <1>2, <1>3, <1>4, <1>5, <1>6, <1>7, <1>8, Zenon

(* Without a call that asks for it, no thread ever enters copyout. *)
LEMMA NoCopyoutNext ==
  ASSUME CopyoutArgs = {}, WaitAddrs = {}, ThreadInv, NoCopyout, [Next]_vars
  PROVE  NoCopyout'
  <1>1. CASE UNCHANGED th
    BY <1>1, Zenon DEF NoCopyout
  <1>2. ASSUME NEW p \in Proc, StaysOut(p) PROVE NoCopyout'
    BY <1>2, Zenon DEF NoCopyout, StaysOut
  <1>3. ASSUME NEW p \in Proc, Kernel(p) PROVE NoCopyout'
    <2>1. CASE FinishKfree(p)
      BY <1>1, <2>1, Zenon DEF FinishKfree
    <2>2. CASE copyout(p) \/ CopyoutCow(p)
      BY <2>2, OutOfCopyout DEF copyout, CopyoutCow, Running
    <2>3. CASE ForkReturns(p)
      <3>1. th' = [th EXCEPT ![p] = User, ![th[p].np] = User] /\ th \in [Proc -> Thread]
        BY <2>3, OutOfCopyout, Zenon DEF ForkReturns
      <3>2. \A q \in Proc : th'[q] = th[q] \/ th'[q] = User
        BY <3>1
      <3>3. NotInCopyout(User)
        BY DEF NotInCopyout, User, Idle
      <3> QED BY <3>2, <3>3, Zenon DEF NoCopyout
    <2>4. FinishKfree(p) \/ copyout(p) \/ CopyoutCow(p) \/ ForkReturns(p) \/ StaysOut(p)
      BY <1>3, FaultsStayOut, LoopsStayOut, CallsStayOut, Zenon DEF Kernel
    <2> QED BY <1>2, <2>1, <2>2, <2>3, <2>4, Zenon
  <1>4. ASSUME NEW p \in Proc, UserCode(p) PROVE NoCopyout'
    <2>1. ASSUME NEW a \in StoreAddrs, Store(p, a) PROVE NoCopyout'
      BY <1>1, <2>1, Zenon DEF Store
    <2>2. (\E a \in StoreAddrs : Store(p, a)) \/ StaysOut(p)
      BY <1>4, FaultsStayOut, CallsStayOut, Zenon DEF UserCode
    <2> QED BY <1>2, <2>1, <2>2, Zenon
  <1> QED
    BY <1>1, <1>3, <1>4, Zenon DEF Next, vars

(* Then copyout is served: it has nothing to serve. *)
LEMMA NoCopyoutServed ==
  ASSUME ThreadInv, NoCopyout
  PROVE  CopyoutServed
  <1>1. ASSUME NEW p \in Proc, th[p].op \in {"read", "wait"} PROVE th[p].pc = "uvmfree"
    BY <1>1, Zenon DEF NoCopyout, NotInCopyout
  <1> QED
    BY <1>1 DEF CopyoutServed

(* At boot no thread is in copyout. *)
LEMMA NoCopyoutInit == Init => NoCopyout
  <1>1. /\ NotInCopyout(Idle)
        /\ \A p : NotInCopyout([Idle EXCEPT !.pc = "proc_pagetable", !.op = "userinit",
                                            !.np = p, !.n = 1, !.newsz = PGSIZE])
    BY DEF NotInCopyout, Idle
  <1>2. ASSUME Init, NEW p \in Proc
        PROVE  \/ th[p] = Idle
               \/ th[p] = [Idle EXCEPT !.pc = "proc_pagetable", !.op = "userinit",
                                       !.np = p, !.n = 1, !.newsz = PGSIZE]
    BY <1>2, Zenon DEF Init
  <1> QED
    BY <1>1, <1>2, Zenon DEF NoCopyout
=============================================================================
