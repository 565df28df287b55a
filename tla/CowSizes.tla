------------------------------ MODULE CowSizes ------------------------------
(***************************************************************************)
(* Facts about sizes, pages and threads that the proofs about Cow share,   *)
(* and SizeInv of CowInv: every step that keeps ThreadInv keeps p->sz and  *)
(* the page table in agreement, while a call builds, shrinks or frees an   *)
(* address space and at all other times.  With it no panic of vm.c is      *)
(* reached.                                                                *)
(***************************************************************************)
EXTENDS CowInv, TLAPS

-----------------------------------------------------------------------------
(* Arithmetic of sizes and pages.                                          *)

(* A product of a natural number and PGSIZE is a natural number. *)
LEMMA SizeType == MAXVP * PGSIZE \in Nat
  BY SizeAssumption

(* What \div gives, in terms of multiplication. *)
LEMMA DivBound ==
  ASSUME NEW d \in Nat \ {0}, NEW x \in Nat, NEW m \in Nat, x < (m + 1) * d
  PROVE  x \div d \in 0..m
  <1>1. x \div d \in Nat /\ (x \div d) * d <= x
    BY Z3
  <1>2. SUFFICES ASSUME x \div d > m PROVE FALSE
    BY <1>1
  <1>3. (x \div d) * d >= (m + 1) * d
    BY <1>1, <1>2, Z3
  <1> QED
    BY <1>1, <1>3, Z3

(* PGROUNDUP of a legal size is at most MAXVP pages. *)
LEMMA PagesType ==
  ASSUME NEW x \in 0..(MAXVP * PGSIZE)
  PROVE  Pages(x) \in 0..MAXVP
  <1>1. x + PGSIZE - 1 \in Nat /\ x + PGSIZE - 1 < (MAXVP + 1) * PGSIZE
    BY SizeAssumption, SizeType
  <1> QED
    BY <1>1, DivBound, SizeAssumption, Zenon DEF Pages

(* An address below MAXVP * PGSIZE lies in a user page. *)
LEMMA PageType ==
  ASSUME NEW a \in 0..(MAXVP * PGSIZE - 1)
  PROVE  Page(a) \in VPage
  <1>1. a < ((MAXVP - 1) + 1) * PGSIZE /\ a \in Nat
    BY SizeAssumption, SizeType
  <1> QED
    BY <1>1, DivBound, SizeAssumption DEF Page, VPage

(* \div is monotone. *)
LEMMA DivMono ==
  ASSUME NEW d \in Nat \ {0}, NEW x \in Nat, NEW y \in Nat, x <= y
  PROVE  x \div d <= y \div d
  <1>1. y \div d \in Nat /\ y < (y \div d + 1) * d
    BY Z3
  <1>2. PICK m \in Nat : m = y \div d
    BY <1>1, Zenon
  <1>3. x < (m + 1) * d
    BY <1>1, <1>2, Z3
  <1>4. x \div d \in 0..m
    BY <1>3, DivBound, Zenon
  <1> QED
    BY <1>1, <1>2, <1>4

(* A larger size takes no fewer pages. *)
LEMMA PagesMono ==
  ASSUME NEW x \in Nat, NEW y \in Nat, x <= y
  PROVE  Pages(x) <= Pages(y)
  <1>1. x + PGSIZE - 1 \in Nat /\ y + PGSIZE - 1 \in Nat /\ x + PGSIZE - 1 <= y + PGSIZE - 1
    BY SizeAssumption
  <1> QED
    BY <1>1, DivMono, SizeAssumption, Zenon DEF Pages

(* The pages of a whole number of pages. *)
LEMMA PagesOf ==
  ASSUME NEW k \in Nat
  PROVE  Pages(k * PGSIZE) = k
  <1> DEFINE x == k * PGSIZE + PGSIZE - 1
  <1>1. x \in Nat /\ x < (k + 1) * PGSIZE /\ k * PGSIZE <= x
    BY SizeAssumption, Z3
  <1>2. x \div PGSIZE \in 0..k
    BY <1>1, DivBound, SizeAssumption, Zenon
  <1>3. x < (x \div PGSIZE + 1) * PGSIZE
    BY <1>1, SizeAssumption, Z3
  <1>4. SUFFICES ASSUME x \div PGSIZE < k PROVE FALSE
    BY <1>2 DEF Pages
  <1>5. (x \div PGSIZE + 1) * PGSIZE <= k * PGSIZE
    BY <1>2, <1>4, SizeAssumption, Z3
  <1> QED
    BY <1>1, <1>2, <1>3, <1>5, SizeAssumption, Z3

(* No bytes take no pages. *)
LEMMA PagesZero == Pages(0) = 0 /\ Pages(PGSIZE) = 1
  <1>1. 0 * PGSIZE = 0 /\ 1 * PGSIZE = PGSIZE
    BY SizeAssumption
  <1> QED
    BY <1>1, PagesOf, Zenon

(* Sizes and the pages they take are natural numbers. *)
LEMMA PagesNat ==
  ASSUME ThreadInv, NEW p \in Proc
  PROVE  /\ sz[p] \in Nat /\ Pages(sz[p]) \in 0..MAXVP /\ MAXVP \in Nat
         /\ th[p].newsz \in Nat /\ Pages(th[p].newsz) \in 0..MAXVP
         /\ th[p] \in Thread /\ th[p].i \in Nat /\ th[p].n \in Nat
  <1>1. sz[p] \in 0..(MAXVP * PGSIZE) /\ th[p] \in Thread
    BY Zenon DEF ThreadInv, TypeOK
  <1>2. th[p].newsz \in 0..(MAXVP * PGSIZE) /\ th[p].i \in Nat /\ th[p].n \in Nat
    BY <1>1, Zenon DEF Thread
  <1> QED
    BY <1>1, <1>2, PagesType, SizeType, SizeAssumption

-----------------------------------------------------------------------------
(* Threads.                                                                *)

(* The space that fork, wait, exec or sbrk works on. *)
LEMMA TargetIdle ==
  ASSUME ThreadInv, NEW p \in Proc,
         th[p].op \in {"fork", "wait", "exec", "sbrk", "shrink", "userinit"}
  PROVE  /\ th[p].np \in Space
         /\ th[p].np \in Proc /\ th[p].np # p => th[th[p].np] = Idle
         /\ -p \in Space /\ -p \notin Proc
         /\ \A q \in Proc : q # p /\ th[q].pc # "none" => th[p].np # q
  <1>1. -p \in Space /\ -p \notin Proc
    BY ProcAssumption DEF Space
  <1>2. Target(p, th[p]) /\ DeadIsIdle
    BY Zenon DEF ThreadInv
  <1> QED
    BY <1>1, <1>2 DEF Target, DeadIsIdle, Space, Idle

(* The calls that have a loop over pages. *)
LEMMA WorksFor ==
  ASSUME ThreadInv, NEW p \in Proc
  PROVE  /\ th[p].pc = "proc_pagetable" => th[p].op \in {"fork", "userinit", "exec"}
         /\ th[p].pc = "uvmcopy" => th[p].op = "fork"
         /\ th[p].pc = "uvmalloc" => th[p].op \in {"userinit", "exec", "sbrk"}
         /\ th[p].pc = "uvmfree" => th[p].op \in {"wait", "fork", "exec"}
         /\ th[p].pc = "uvmdealloc" => th[p].op \in {"sbrk", "shrink"}
         /\ th[p].op \in {"exec", "sbrk", "shrink", "userinit", "fork"} => Works(th[p])
         /\ Works(th[p]) => th[p].np \in Space /\ th[p].pc # "none"
  <1>1. Locals(th[p]) /\ th[p] \in Thread
    BY Zenon DEF ThreadInv, TypeOK
  <1>2. th[p].op \in {"none", "trap", "read", "wait", "fork", "userinit", "sbrk", "shrink", "exec"}
    BY <1>1, Zenon DEF Thread
  <1>3. th[p].pc \in PcOf(th[p].op)
    BY <1>1, Zenon DEF Locals
  <1>4. /\ th[p].pc = "proc_pagetable" => th[p].op \in {"fork", "userinit", "exec"}
        /\ th[p].pc = "uvmcopy" => th[p].op = "fork"
        /\ th[p].pc = "uvmalloc" => th[p].op \in {"userinit", "exec", "sbrk"}
        /\ th[p].pc = "uvmfree" => th[p].op \in {"wait", "fork", "exec"}
        /\ th[p].pc = "uvmdealloc" => th[p].op \in {"sbrk", "shrink"}
    BY <1>2, <1>3, Zenon DEF PcOf
  <1>5. th[p].op \in {"exec", "sbrk", "shrink", "userinit", "fork"} => Works(th[p])
    BY <1>2, <1>3, Zenon DEF PcOf, Works
  <1>6. Works(th[p]) => th[p].np \in Space /\ th[p].pc # "none"
    BY <1>4, TargetIdle, Zenon DEF Works
  <1> QED
    BY <1>4, <1>5, <1>6, Zenon

(* Two threads never work on the same space, nor on one of a thread that   *)
(* does something.                                                         *)
LEMMA Apart ==
  ASSUME ThreadInv, NEW p \in Proc, NEW q \in Proc, p # q, Works(th[q])
  PROVE  /\ Works(th[p]) => th[p].np # th[q].np
         /\ th[p].pc # "none" => th[q].np # p
         /\ th[q].np # -p
  <1>1. Target(p, th[p]) /\ Target(q, th[q]) /\ ForksApart /\ DeadIsIdle
    BY Zenon DEF ThreadInv
  <1>2. /\ th[q].op \in {"fork", "userinit", "exec", "sbrk", "wait", "shrink"}
        /\ Works(th[p]) => th[p].op \in {"fork", "userinit", "exec", "sbrk", "wait", "shrink"}
    BY WorksFor, Zenon DEF Works
  <1>3. p \in Nat \ {0} /\ q \in Nat \ {0} /\ \A c \in Proc : c \in Nat \ {0}
    BY ProcAssumption, Zenon
  <1>4. Works(th[p]) => th[p] # Idle
    BY DEF Works, Idle
  <1>5. Works(th[q]) => th[q] # Idle
    BY DEF Works, Idle
  <1>6. th[p].pc # "none" => th[p] # Idle
    BY DEF Idle
  <1> QED
    BY <1>1, <1>2, <1>3, <1>4, <1>5, <1>6 DEF Target, ForksApart, DeadIsIdle

(* Nobody works on a slot that is free, or on a zombie but its parent. *)
LEMMA NotWorked ==
  ASSUME ThreadInv, NEW p \in Proc, NEW c \in Proc, ~Works(th[p]),
         state[c] = "UNUSED" \/ (state[c] = "ZOMBIE" /\ parent[c] = p)
  PROVE  ~Worked(c)
  <1> SUFFICES ASSUME NEW q \in Proc, Works(th[q]), th[q].np = c PROVE FALSE
    BY Zenon DEF Worked
  <1>1. Target(q, th[q]) /\ DeadIsIdle /\ q # p
    BY Zenon DEF ThreadInv
  <1>2. th[q].op \in {"fork", "userinit", "exec", "sbrk", "wait", "shrink"}
    BY WorksFor, Zenon DEF Works
  <1>3. q \in Nat \ {0} /\ c \in Nat \ {0}
    BY ProcAssumption, Zenon
  <1>4. th[q] # Idle
    BY DEF Works, Idle
  <1> QED
    BY <1>1, <1>2, <1>3, <1>4 DEF Target, DeadIsIdle

(* Thread p goes on with the record r, all others stay. *)
LEMMA SetThread ==
  ASSUME ThreadInv, NEW p \in Proc, NEW r, th' = [th EXCEPT ![p] = r]
  PROVE  th'[p] = r /\ \A q \in Proc : q # p => th'[q] = th[q]
  BY Zenon DEF ThreadInv, TypeOK

(* Records a thread goes on with. *)
LEMMA UserIs ==
  /\ User.pc = "user" /\ User.op = "none" /\ User.mem = NULL /\ ~Works(User)
  /\ ~Works([User EXCEPT !.pc = "exit"]) /\ [User EXCEPT !.pc = "exit"].pc = "exit"
  /\ [User EXCEPT !.pc = "exit"].op = "none"
  /\ Idle.pc = "none" /\ ~Works(Idle)
  BY Zenon DEF User, Idle, Works

(* Nobody else works on the spaces of a thread that does not work. *)
LEMMA OwnNotWorked ==
  ASSUME ThreadInv, NEW p \in Proc, ~Works(th[p]), th[p].pc # "none"
  PROVE  ~Worked(p) /\ ~Worked(-p) /\ p \in Space /\ -p \in Space /\ -p \notin Proc
<1>1. p \in Space /\ -p \in Space /\ -p \notin Proc
  BY ProcAssumption DEF Space
<1>2. ASSUME NEW q \in Proc, Works(th[q]) PROVE th[q].np # p /\ th[q].np # -p
  <2>1. q # p
    BY <1>2, Zenon
  <2> QED
    BY <1>2, <2>1, Apart, Zenon
<1> QED
  BY <1>1, <1>2, Zenon DEF Worked

(* The fields Undo leaves behind. *)
LEMMA UndoIs ==
  ASSUME ThreadInv, NEW p \in Proc, Undo(p)
  PROVE  /\ \A q \in Proc : q # p => th'[q] = th[q]
         /\ th'[p].np = th[p].np /\ th'[p].op = th[p].op /\ th'[p].n = th[p].i /\ th'[p].mem = NULL
         /\ th'[p].newsz = th[p].newsz
         /\ th[p].op = "sbrk" => th'[p].pc = "uvmdealloc" /\ th'[p].i = Pages(sz[p])
         /\ th[p].op # "sbrk" => th'[p].pc = "uvmfree" /\ th'[p].i = 0
<1> DEFINE k == IF th[p].op = "sbrk"
                THEN [th[p] EXCEPT !.pc = "uvmdealloc", !.i = Pages(sz[p]), !.n = th[p].i]
                ELSE [th[p] EXCEPT !.pc = "uvmfree", !.i = 0, !.n = th[p].i]
<1>1. th' = [th EXCEPT ![p] = [k EXCEPT !.mem = NULL]]
  BY Zenon DEF Undo
<1>2. th'[p] = [k EXCEPT !.mem = NULL] /\ \A q \in Proc : q # p => th'[q] = th[q]
  BY <1>1, SetThread, Zenon
<1>3. th[p] \in Thread
  BY PagesNat, Zenon
<1> QED
  BY <1>2, <1>3, Zenon DEF Thread

(* What a thread in one of the loops knows. *)
LEMMA InLoop ==
  ASSUME ThreadInv, SizeInv, NEW p \in Proc, Works(th[p])
  PROVE  /\ th[p].np \in Space
         /\ LoopBounds(th[p], sz[p]) /\ PartMapped(th[p], sz[p], leaf[th[p].np])
         /\ th[p] \in Thread /\ leaf \in [Space -> [VPage -> PTE]]
<1>1. th[p].np \in Space
  BY WorksFor, Zenon
<1>2. th[p] \in Thread /\ leaf \in [Space -> [VPage -> PTE]]
  BY Zenon DEF ThreadInv, TypeOK
<1> QED
  BY <1>1, <1>2, Zenon DEF SizeInv

-----------------------------------------------------------------------------
(* What a step does to SizeInv.                                            *)

(* Page v of space s stays mapped, or unmapped. *)
SameMapped(s, v) == leaf'[s][v].pa # NULL <=> leaf[s][v].pa # NULL

(* A step of thread p that concerns the spaces in X only. *)
LEMMA SizesStep ==
  ASSUME ThreadInv, SizeInv, NEW p \in Proc, NEW X \in SUBSET Space,
         \A q \in Proc : q # p =>
           \/ th'[q] = th[q] /\ (Works(th[q]) => th[q].np \notin X /\ sz'[q] = sz[q])
           \/ ~Works(th[q]) /\ ~Works(th'[q]),
         Works(th[p]) => th[p].np \in X,
         Works(th'[p]) => /\ th'[p].np \in X /\ LoopBounds(th'[p], sz'[p])
                          /\ PartMapped(th'[p], sz'[p], leaf'[th'[p].np]),
         \A s \in Space : s \notin X =>
           SizeOf(s)' = SizeOf(s) /\ \A v \in VPage : SameMapped(s, v),
         \A s \in X : (Works(th'[p]) /\ th'[p].np = s) \/ AllMapped(leaf'[s], SizeOf(s)'),
         \A q \in Proc : state'[q] = "UNUSED" => sz'[q] = 0
  PROVE  SizeInv'
<1>1. ASSUME NEW q \in Proc, Works(th'[q])
      PROVE  LoopBounds(th'[q], sz'[q]) /\ PartMapped(th'[q], sz'[q], leaf'[th'[q].np])
  <2>1. CASE q = p
    BY <1>1, <2>1, Zenon
  <2>2. CASE q # p
    <3>1. th'[q] = th[q] /\ Works(th[q]) /\ th[q].np \notin X /\ sz'[q] = sz[q]
      BY <1>1, <2>2, Zenon
    <3>2. th[q].np \in Space
      BY <3>1, WorksFor, Zenon
    <3>3. LoopBounds(th[q], sz[q]) /\ PartMapped(th[q], sz[q], leaf[th[q].np])
      BY <3>1, Zenon DEF SizeInv
    <3>4. \A v \in VPage : SameMapped(th[q].np, v)
      BY <3>1, <3>2, Zenon
    <3>5. PartMapped(th[q], sz[q], leaf'[th[q].np])
      BY <3>3, <3>4, Zenon DEF PartMapped, SameMapped
    <3> QED
      BY <3>1, <3>3, <3>5, Zenon
  <2> QED
    BY <2>1, <2>2, Zenon
<1>2. ASSUME NEW s \in Space, ~Worked(s)' PROVE AllMapped(leaf'[s], SizeOf(s)')
  <2>1. CASE s \in X
    BY <1>2, <2>1, Zenon DEF Worked
  <2>2. CASE s \notin X
    <3>1. ~Worked(s)
      BY <1>2, <2>2, Zenon DEF Worked
    <3>2. AllMapped(leaf[s], SizeOf(s))
      BY <3>1, Zenon DEF SizeInv
    <3> QED
      BY <2>2, <3>2, Zenon DEF AllMapped, SameMapped
  <2> QED
    BY <2>1, <2>2, Zenon
<1> QED
  BY <1>1, <1>2, Zenon DEF SizeInv

(* A step of thread p that neither starts nor ends a loop over pages. *)
LEMMA SizesQuiet ==
  ASSUME ThreadInv, SizeInv, NEW p \in Proc, ~Works(th[p]), ~Works(th'[p]),
         \A q \in Proc : q # p => th'[q] = th[q],
         UNCHANGED sz,
         \A q \in Proc : state'[q] = "UNUSED" => state[q] = "UNUSED",
         \A s \in Space, v \in VPage : SameMapped(s, v)
  PROVE  SizeInv'
<1>1. \A q \in Proc : state'[q] = "UNUSED" => sz'[q] = 0
  BY Zenon DEF SizeInv
<1>2. \A s \in Space : SizeOf(s)' = SizeOf(s)
  BY Zenon DEF SizeOf
<1>3. {} \in SUBSET Space
  OBVIOUS
<1> QED
  BY <1>1, <1>2, <1>3, SizesStep, Zenon

(* A step that changes no thread. *)
LEMMA SizesSame ==
  ASSUME SizeInv, ThreadInv, UNCHANGED <<th, sz, state>>,
         \A s \in Space, v \in VPage : SameMapped(s, v)
  PROVE  SizeInv'
<1>1. \A s \in Space : SizeOf(s)' = SizeOf(s)
  BY Zenon DEF SizeOf
<1>2. \A s \in Space : Worked(s)' <=> Worked(s)
  BY Zenon DEF Worked
<1>3. ASSUME NEW s \in Space, ~Worked(s)' PROVE AllMapped(leaf[s], SizeOf(s))'
  BY <1>1, <1>2, <1>3, Zenon DEF SizeInv, AllMapped, SameMapped
<1>4. ASSUME NEW p \in Proc, Works(th[p])
      PROVE  LoopBounds(th[p], sz[p]) /\ PartMapped(th[p], sz[p], leaf'[th[p].np])
  <2>1. th[p].np \in Space
    BY <1>4, WorksFor, Zenon
  <2> QED
    BY <1>4, <2>1, Zenon DEF SizeInv, PartMapped, SameMapped
<1> QED
  BY <1>3, <1>4, Zenon DEF SizeInv

-----------------------------------------------------------------------------
(* Steps outside the loops over pages.                                     *)

(* Stores, their faults, and system calls that begin or end. *)
LEMMA SizesFault ==
  ASSUME ThreadInv, SizeInv, NEW p \in Proc, NEW a, NEW b,
         \/ Store(p, a) \/ StorePageFault(p, a) \/ Retry(p) \/ is_cowpage(p)
         \/ Leave(p) \/ exit(p) \/ SysCopyout(p, a, b)
  PROVE  SizeInv'
<1>1. th[p] \in Thread
  BY PagesNat, Zenon
<1>2. CASE Store(p, a)
  BY <1>2, SizesSame, Zenon DEF Store, space, procs, SameMapped
<1>3. CASE StorePageFault(p, a)
  <2>1. ~Works(th[p]) /\ UNCHANGED <<leaf, sz, state>>
    BY <1>3, Zenon DEF StorePageFault, Works, Running, space, procs
  <2>2. /\ th'[p] = IF a > sz[p] THEN [User EXCEPT !.pc = "exit"]
                    ELSE [User EXCEPT !.pc = "is_cowpage", !.op = "trap", !.i = Page(a)]
        /\ \A q \in Proc : q # p => th'[q] = th[q]
    BY <1>3, SetThread, Zenon DEF StorePageFault
  <2>3. th'[p].pc \in {"exit", "is_cowpage"}
    BY <2>2, Zenon DEF User, Idle
  <2> QED
    BY <2>1, <2>2, <2>3, SizesQuiet, Zenon DEF SameMapped, Works
<1>4. CASE Retry(p)
  <2>1. ~Works(th[p]) /\ UNCHANGED <<leaf, sz, state>>
    BY <1>4, Zenon DEF Retry, Works, Running, space, procs
  <2>2. /\ th'[p] = User \/ th'[p] = [th[p] EXCEPT !.pc = "is_cowpage"]
        /\ \A q \in Proc : q # p => th'[q] = th[q]
    BY <1>4, SetThread, Zenon DEF Retry
  <2>3. th'[p].pc \in {"user", "is_cowpage"}
    BY <1>1, <2>2, UserIs, Zenon DEF Thread
  <2> QED
    BY <2>1, <2>2, <2>3, SizesQuiet, Zenon DEF SameMapped, Works
<1>5. CASE is_cowpage(p)
  <2>1. ~Works(th[p]) /\ UNCHANGED <<leaf, sz, state>>
    BY <1>5, Zenon DEF is_cowpage, Works, Running, space, procs
  <2>2. /\ th'[p] = [User EXCEPT !.pc = "exit"] \/ th'[p] = [th[p] EXCEPT !.pc = "cow_alloc"]
        /\ \A q \in Proc : q # p => th'[q] = th[q]
    BY <1>5, SetThread, Zenon DEF is_cowpage
  <2>3. th'[p].pc \in {"exit", "cow_alloc"}
    BY <1>1, <2>2, UserIs, Zenon DEF Thread
  <2> QED
    BY <2>1, <2>2, <2>3, SizesQuiet, Zenon DEF SameMapped, Works
<1>6. CASE Leave(p)
  <2>1. ~Works(th[p]) /\ UNCHANGED <<leaf, sz, state>>
    BY <1>6, Zenon DEF Leave, Works, Running, space, procs
  <2>2. /\ th'[p] = [User EXCEPT !.pc = "exit"]
        /\ \A q \in Proc : q # p => th'[q] = th[q]
    BY <1>6, SetThread, Zenon DEF Leave
  <2> QED
    BY <2>1, <2>2, UserIs, SizesQuiet, Zenon DEF SameMapped
<1>7. CASE exit(p)
  <2>1. ~Works(th[p]) /\ UNCHANGED <<leaf, sz>> /\ state' = [state EXCEPT ![p] = "ZOMBIE"]
    BY <1>7, Zenon DEF exit, Works, Running, space
  <2>2. th'[p] = Idle /\ \A q \in Proc : q # p => th'[q] = th[q]
    BY <1>7, SetThread, Zenon DEF exit
  <2>3. state \in [Proc -> {"UNUSED", "USED", "RUNNABLE", "ZOMBIE"}]
    BY Zenon DEF ThreadInv, TypeOK
  <2>4. \A q \in Proc : state'[q] = "UNUSED" => state[q] = "UNUSED"
    BY <2>1, <2>3, Zenon
  <2> QED
    BY <2>1, <2>2, <2>4, UserIs, SizesQuiet, Zenon DEF SameMapped
<1>8. CASE SysCopyout(p, a, b)
  <2>1. ~Works(th[p]) /\ UNCHANGED <<leaf, sz, state>>
    BY <1>8, Zenon DEF SysCopyout, Works, Running, space, procs
  <2>2. /\ th'[p] = [User EXCEPT !.pc = "copyout", !.op = "read",
                                 !.i = Page(a), !.n = Page(a + b - 1) + 1]
        /\ \A q \in Proc : q # p => th'[q] = th[q]
    BY <1>8, SetThread, Zenon DEF SysCopyout
  <2>3. th'[p].pc = "copyout"
    BY <2>2, Zenon DEF User, Idle
  <2> QED
    BY <2>1, <2>2, <2>3, SizesQuiet, Zenon DEF SameMapped, Works
<1> QED
  BY <1>2, <1>3, <1>4, <1>5, <1>6, <1>7, <1>8, Zenon

(* cow_alloc's steps, and the second half of kfree. *)
LEMMA SizesCow ==
  ASSUME ThreadInv, SizeInv, NEW p \in Proc,
         cow_alloc(p) \/ cow_kalloc(p) \/ cow_copy(p) \/ cow_kfree(p) \/ FinishKfree(p)
  PROVE  SizeInv'
<1>1. th[p] \in Thread /\ leaf \in [Space -> [VPage -> PTE]] /\ FaultPage(th[p], leaf[p])
  BY Zenon DEF ThreadInv, TypeOK
<1>2. ASSUME NEW t \in Thread PROVE CowDone(t).pc \in {"retry", "memmove"}
  BY Zenon DEF CowDone, Thread
<1>3. CASE cow_alloc(p)
  <2> DEFINE v == th[p].i
             e == IF LastUser(leaf[p][v].pa) THEN Reclaim(leaf[p][v]) ELSE [leaf[p][v] EXCEPT !.w = TRUE]
  <2>1. ~Works(th[p]) /\ UNCHANGED <<sz, state>> /\ th[p].pc = "cow_alloc"
    BY <1>3, Zenon DEF cow_alloc, Works, Running, procs
  <2>2. v \in VPage /\ p \in Space /\ leaf[p][v] \in PTE
    BY <1>1, <2>1, Zenon DEF FaultPage, Space
  <2>3. /\ th'[p] = CowDone(th[p]) \/ th'[p] = [th[p] EXCEPT !.pc = "cow_kalloc"]
        /\ \A q \in Proc : q # p => th'[q] = th[q]
    BY <1>3, SetThread, Zenon DEF cow_alloc
  <2>4. th'[p].pc \in {"retry", "memmove", "cow_kalloc"}
    BY <1>1, <1>2, <2>3, Zenon DEF Thread
  <2>5. leaf' = [leaf EXCEPT ![p][v] = e]
    BY <1>3, Zenon DEF cow_alloc
  <2>6. e.pa = leaf[p][v].pa
    BY <2>2, Zenon DEF Reclaim, PTE
  <2> HIDE DEF v, e
  <2>7. \A s \in Space, x \in VPage : leaf'[s][x].pa = leaf[s][x].pa
    BY <1>1, <2>2, <2>5, <2>6, Zenon
  <2> QED
    BY <2>1, <2>3, <2>4, <2>7, SizesQuiet, Zenon DEF SameMapped, Works
<1>4. CASE cow_kalloc(p)
  <2>1. ~Works(th[p]) /\ UNCHANGED <<leaf, sz, state>>
    BY <1>4, Zenon DEF cow_kalloc, Works, Running, space
  <2>2. CASE \E pa \in PA : th' = [th EXCEPT ![p].pc = "cow_copy", ![p].mem = pa]
    <3>1. PICK pa \in PA : th' = [th EXCEPT ![p].pc = "cow_copy", ![p].mem = pa]
      BY <2>2, Zenon
    <3>2. th'[p].pc = "cow_copy" /\ \A q \in Proc : q # p => th'[q] = th[q]
      BY <3>1 DEF ThreadInv, TypeOK, Thread
    <3> QED
      BY <2>1, <3>2, SizesQuiet, Zenon DEF SameMapped, Works
  <2>3. CASE CowFails(p)
    <3>1. /\ th'[p] = User \/ th'[p] = [User EXCEPT !.pc = "exit"]
          /\ \A q \in Proc : q # p => th'[q] = th[q]
      BY <2>3, SetThread, Zenon DEF CowFails, CopyoutFails
    <3> QED
      BY <2>1, <3>1, UserIs, SizesQuiet, Zenon DEF SameMapped
  <2> QED
    BY <1>4, <2>2, <2>3, Zenon DEF cow_kalloc
<1>5. CASE cow_copy(p)
  <2>1. ~Works(th[p]) /\ UNCHANGED <<sz, state>> /\ th[p].pc = "cow_copy"
    BY <1>5, Zenon DEF cow_copy, Works, Running, procs
  <2>2. PICK v \in VPage : v = th[p].i /\ p \in Space /\ leaf[p][v] \in PTE /\ leaf[p][v].pa # NULL
    BY <1>1, <2>1, Zenon DEF FaultPage, Space
  <2>3. th'[p].pc = "cow_kfree" /\ \A q \in Proc : q # p => th'[q] = th[q]
    BY <1>5, SMTT(40) DEF cow_copy, ThreadInv, TypeOK, Thread
  <2>4. PICK m \in PA : m = th[p].mem
    BY <1>1, <2>1, Zenon DEF ThreadInv, Locals, Thread
  <2>5. leaf' = [leaf EXCEPT ![p][v].pa = m]
    BY <1>5, <2>2, <2>4, Zenon DEF cow_copy
  <2>6. \A s \in Space, x \in VPage : SameMapped(s, x)
    BY <1>1, <2>2, <2>4, <2>5, KmemAssumption, Zenon DEF SameMapped, PTE
  <2> QED
    BY <2>1, <2>3, <2>6, SizesQuiet, Zenon DEF Works
<1>6. CASE cow_kfree(p)
  <2>1. ~Works(th[p]) /\ UNCHANGED <<leaf, sz, state>>
    BY <1>6, Zenon DEF cow_kfree, Works, Running, space, procs
  <2>2. th'[p] = CowDone(th[p]) /\ \A q \in Proc : q # p => th'[q] = th[q]
    BY <1>6, SetThread, Zenon DEF cow_kfree
  <2>3. th'[p].pc \in {"retry", "memmove"}
    BY <1>1, <1>2, <2>2, Zenon
  <2> QED
    BY <2>1, <2>2, <2>3, SizesQuiet, Zenon DEF SameMapped, Works
<1>7. CASE FinishKfree(p)
  BY <1>7, SizesSame, Zenon DEF FinishKfree, space, procs, SameMapped
<1> QED
  BY <1>3, <1>4, <1>5, <1>6, <1>7, Zenon

-----------------------------------------------------------------------------
(* Loops over pages begin, go on and end.                                  *)

(* Thread p starts to work on space s, which nobody works on. *)
LEMMA SizesBegin ==
  ASSUME ThreadInv, SizeInv, NEW p \in Proc, ~Works(th[p]),
         NEW s \in Space, ~Worked(s), th'[p].np = s,
         LoopBounds(th'[p], sz[p]), PartMapped(th'[p], sz[p], leaf[s]),
         Works(th'[p]),
         \A q \in Proc : q # p => th'[q] = th[q],
         UNCHANGED <<leaf, sz>>,
         \A q \in Proc : state'[q] = "UNUSED" => state[q] = "UNUSED"
  PROVE  SizeInv'
<1>1. \A q \in Proc : state'[q] = "UNUSED" => sz'[q] = 0
  BY Zenon DEF SizeInv
<1>2. \A x \in Space : SizeOf(x)' = SizeOf(x) /\ \A v \in VPage : SameMapped(x, v)
  BY Zenon DEF SizeOf, SameMapped
<1>3. {s} \in SUBSET Space
  OBVIOUS
<1>4. \A q \in Proc : Works(th[q]) => th[q].np \notin {s}
  BY Zenon DEF Worked
<1>5. \A x \in {s} : Works(th'[p]) /\ th'[p].np = x
  OBVIOUS
<1>6. th'[p].np \in {s} /\ LoopBounds(th'[p], sz'[p]) /\ PartMapped(th'[p], sz'[p], leaf'[th'[p].np])
  BY Zenon
<1>7. PICK X \in SUBSET Space : X = {s}
  BY <1>3, Zenon
<1> QED
  BY <1>1, <1>2, <1>4, <1>5, <1>6, <1>7, SizesStep, Zenon

(* Thread p goes on with the space it works on. *)
LEMMA SizesGoOn ==
  ASSUME ThreadInv, SizeInv, NEW p \in Proc, Works(th[p]),
         NEW s \in Space, s = th[p].np, th'[p].np = s, Works(th'[p]),
         LoopBounds(th'[p], sz[p]), PartMapped(th'[p], sz[p], leaf'[s]),
         \A q \in Proc : q # p => th'[q] = th[q],
         UNCHANGED <<sz, state>>,
         \A x \in Space, v \in VPage : x # s => SameMapped(x, v)
  PROVE  SizeInv'
<1>1. \A q \in Proc : state'[q] = "UNUSED" => sz'[q] = 0
  BY Zenon DEF SizeInv
<1>2. \A x \in Space : SizeOf(x)' = SizeOf(x)
  BY Zenon DEF SizeOf
<1>3. PICK X \in SUBSET Space : X = {s}
  BY Zenon
<1>4. \A q \in Proc : q # p /\ Works(th[q]) => th[q].np \notin X
  BY <1>3, Apart, ZenonT(30)
<1>5. \A x \in X : Works(th'[p]) /\ th'[p].np = x
  BY <1>3, Zenon
<1>6. th'[p].np \in X /\ LoopBounds(th'[p], sz'[p]) /\ PartMapped(th'[p], sz'[p], leaf'[th'[p].np])
  BY <1>3, Zenon
<1>7. \A x \in Space : x \notin X => SizeOf(x)' = SizeOf(x) /\ \A v \in VPage : SameMapped(x, v)
  BY <1>2, <1>3, Zenon
<1>8. \A q \in Proc : q # p =>
        \/ th'[q] = th[q] /\ (Works(th[q]) => th[q].np \notin X /\ sz'[q] = sz[q])
        \/ ~Works(th[q]) /\ ~Works(th'[q])
  BY <1>4, Zenon
<1>9. /\ Works(th[p]) => th[p].np \in X
      /\ Works(th'[p]) => /\ th'[p].np \in X /\ LoopBounds(th'[p], sz'[p])
                          /\ PartMapped(th'[p], sz'[p], leaf'[th'[p].np])
      /\ \A x \in X : (Works(th'[p]) /\ th'[p].np = x) \/ AllMapped(leaf'[x], SizeOf(x)')
  BY <1>3, <1>5, <1>6, Zenon
<1> QED
  BY <1>1, <1>7, <1>8, <1>9, SizesStep, Zenon

(* Thread p is done with the space it worked on. *)
LEMMA SizesEnd ==
  ASSUME ThreadInv, SizeInv, NEW p \in Proc, Works(th[p]), ~Works(th'[p]),
         NEW s \in Space, s = th[p].np, AllMapped(leaf[s], SizeOf(s)'),
         \A q \in Proc : q # p => th'[q] = th[q] \/ (~Works(th[q]) /\ ~Works(th'[q])),
         \A q \in Proc : q # s => sz'[q] = sz[q],
         UNCHANGED leaf,
         \A q \in Proc : state'[q] = "UNUSED" => sz'[q] = 0
  PROVE  SizeInv'
<1>1. \A x \in Space : x # s => SizeOf(x)' = SizeOf(x)
  BY Zenon DEF SizeOf
<1>2. PICK X \in SUBSET Space : X = {s}
  BY Zenon
<1>3. \A q \in Proc : q # p /\ Works(th[q]) => th[q].np \notin X
  BY <1>2, Apart, Zenon
<1>4. \A q \in Proc : q # p /\ Works(th[q]) => sz'[q] = sz[q]
  BY Apart, WorksFor, Zenon
<1>5. \A x \in X : AllMapped(leaf'[x], SizeOf(x)')
  BY <1>2, Zenon
<1>6. \A x \in Space : x \notin X => SizeOf(x)' = SizeOf(x) /\ \A v \in VPage : SameMapped(x, v)
  BY <1>1, <1>2, Zenon DEF SameMapped
<1>7. th[p].np \in X
  BY <1>2, Zenon
<1> QED
  BY <1>2, <1>3, <1>4, <1>5, <1>6, <1>7, SizesStep, Zenon

(* wait goes on to free the zombie c. *)
LEMMA SizesReap ==
  ASSUME ThreadInv, SizeInv, NEW p \in Proc, ~Works(th[p]),
         NEW c \in Proc, state[c] = "ZOMBIE", parent[c] = p,
         th'[p] = Reap(c), \A q \in Proc : q # p => th'[q] = th[q],
         UNCHANGED <<leaf, sz, state>>
  PROVE  SizeInv'
<1>1. c \in Space /\ ~Worked(c) /\ SizeOf(c) = sz[c]
  BY NotWorked, Zenon DEF Space, SizeOf
<1>2. AllMapped(leaf[c], sz[c])
  BY <1>1, Zenon DEF SizeInv
<1>3. PICK k \in 0..MAXVP : k = Pages(sz[c])
  BY PagesNat, Zenon
<1>4. /\ th'[p].pc = "uvmfree" /\ th'[p].op = "wait" /\ th'[p].np = c
      /\ th'[p].i = 0 /\ th'[p].n = k
  BY <1>3, Zenon DEF Reap, User, Idle
<1>5. Works(th'[p]) /\ LoopBounds(th'[p], sz[p])
  BY <1>4, Zenon DEF Works, LoopBounds
<1>6. PartMapped(th'[p], sz[p], leaf[c])
  BY <1>2, <1>3, <1>4, SizeAssumption DEF PartMapped, AllMapped, VPage
<1> QED
  BY <1>1, <1>4, <1>5, <1>6, SizesBegin, Zenon

(* copyout on one page, and wait. *)
LEMMA SizesCopyout ==
  ASSUME ThreadInv, SizeInv, NEW p \in Proc, NEW a, copyout(p) \/ CopyoutCow(p) \/ wait(p, a)
  PROVE  SizeInv'
<1>1. th[p] \in Thread /\ Target(p, th[p])
  BY Zenon DEF ThreadInv, TypeOK
<1>2. ~Works(th[p]) /\ UNCHANGED <<leaf, sz, state>>
  BY Zenon DEF copyout, CopyoutCow, wait, Works, Running, space
<1>3. ASSUME memmove(p) PROVE SizeInv'
  <2>1. th'[p] = CopyoutNext(th[p]) /\ \A q \in Proc : q # p => th'[q] = th[q]
    BY <1>3, SetThread, Zenon DEF memmove
  <2>2. CASE th[p].i + 1 < th[p].n
    <3>1. th'[p].pc = "copyout"
      BY <1>1, <2>1, <2>2, Zenon DEF CopyoutNext, Thread
    <3> QED
      BY <1>2, <2>1, <3>1, SizesQuiet, Zenon DEF SameMapped, Works
  <2>3. CASE ~(th[p].i + 1 < th[p].n) /\ th[p].op = "wait"
    BY <1>1, <1>2, <2>1, <2>3, SizesReap, Zenon DEF CopyoutNext, Target
  <2>4. CASE ~(th[p].i + 1 < th[p].n) /\ th[p].op # "wait"
    BY <1>2, <2>1, <2>4, UserIs, SizesQuiet, Zenon DEF CopyoutNext, SameMapped
  <2> QED
    BY <2>2, <2>3, <2>4, Zenon
<1>4. CASE copyout(p)
  <2>1. CASE CopyoutFails(p)
    <3>1. th'[p] = User /\ \A q \in Proc : q # p => th'[q] = th[q]
      BY <2>1, SetThread, Zenon DEF CopyoutFails
    <3> QED
      BY <1>2, <3>1, UserIs, SizesQuiet, Zenon DEF SameMapped
  <2>2. CASE th' = [th EXCEPT ![p].pc = "cow_alloc"]
    <3>1. th'[p].pc = "cow_alloc" /\ \A q \in Proc : q # p => th'[q] = th[q]
      BY <2>2, Zenon DEF ThreadInv, TypeOK, Thread
    <3> QED
      BY <1>2, <3>1, SizesQuiet, Zenon DEF SameMapped, Works
  <2> QED
    BY <1>3, <1>4, <2>1, <2>2, Zenon DEF copyout
<1>5. CASE CopyoutCow(p)
  BY <1>3, <1>5, Zenon DEF CopyoutCow
<1>6. CASE wait(p, a)
  <2>1. PICK c \in Proc :
          /\ parent[c] = p /\ state[c] = "ZOMBIE"
          /\ th' = [th EXCEPT ![p] =
                      IF a = NULL THEN Reap(c)
                      ELSE [User EXCEPT !.pc = "copyout", !.op = "wait", !.np = c,
                                        !.i = Page(a), !.n = Page(a) + 1]]
    BY <1>6, Zenon DEF wait
  <2>2. \A q \in Proc : q # p => th'[q] = th[q]
    BY <2>1, SetThread, Zenon
  <2>3. CASE a = NULL
    <3>1. th'[p] = Reap(c)
      BY <2>1, <2>3, SetThread, Zenon
    <3> QED
      BY <1>2, <2>1, <2>2, <3>1, SizesReap, Zenon
  <2>4. CASE a # NULL
    <3>1. th'[p] = [User EXCEPT !.pc = "copyout", !.op = "wait", !.np = c,
                                !.i = Page(a), !.n = Page(a) + 1]
      BY <2>1, <2>4, SetThread, Zenon
    <3>2. th'[p].pc = "copyout"
      BY <3>1, Zenon DEF User, Idle
    <3> QED
      BY <1>2, <2>2, <3>2, SizesQuiet, Zenon DEF SameMapped, Works
  <2> QED
    BY <2>3, <2>4, Zenon
<1> QED
  BY <1>4, <1>5, <1>6, Zenon

-----------------------------------------------------------------------------
(* The loops themselves.                                                   *)

(* sbrk and exec begin. *)
LEMMA SizesGrow ==
  ASSUME ThreadInv, SizeInv, NEW p \in Proc, NEW n \in Int,
         SbrkGrow(p, n) \/ SbrkShrink(p, n) \/ exec(p)
  PROVE  SizeInv'
<1>1. th[p].pc = "user" /\ UNCHANGED <<leaf, sz, state>>
  BY Zenon DEF SbrkGrow, SbrkShrink, exec, Running, space, procs
<1>2. ~Works(th[p])
  BY <1>1, Zenon DEF Works
<1>3. ~Worked(p) /\ ~Worked(-p) /\ p \in Space /\ -p \in Space /\ -p \notin Proc
  BY <1>1, <1>2, OwnNotWorked, Zenon
<1>4. AllMapped(leaf[p], sz[p]) /\ AllMapped(leaf[-p], 0)
  BY <1>3, Zenon DEF SizeInv, SizeOf
<1>5. sz[p] \in Nat /\ Pages(sz[p]) \in 0..MAXVP /\ MAXVP \in Nat
  BY PagesNat, Zenon
<1>6. CASE SbrkGrow(p, n)
  <2> DEFINE new == sz[p] + n
  <2>1. /\ th'[p] = [User EXCEPT !.pc = "uvmalloc", !.op = "sbrk",
                      !.np = p, !.i = Pages(sz[p]), !.n = Pages(new), !.newsz = new]
        /\ \A q \in Proc : q # p => th'[q] = th[q]
    BY <1>6, SetThread, Zenon DEF SbrkGrow
  <2>2. /\ th'[p].pc = "uvmalloc" /\ th'[p].op = "sbrk" /\ th'[p].np = p
        /\ th'[p].i = Pages(sz[p]) /\ th'[p].n = Pages(new) /\ th'[p].newsz = new
    BY <2>1, Zenon DEF User, Idle
  <2>3. n > 0 /\ new \in Nat /\ sz[p] <= new
    BY <1>5, <1>6 DEF SbrkGrow
  <2>4. Pages(sz[p]) <= Pages(new)
    BY <1>5, <2>3, PagesMono, Zenon
  <2>5. LoopBounds(th'[p], sz[p])
    BY <1>5, <2>2, <2>4, SMTT(40) DEF LoopBounds
  <2>6. PartMapped(th'[p], sz[p], leaf[p])
    BY <1>4, <2>2, Zenon DEF PartMapped, AllMapped
  <2> QED
    BY <1>1, <1>2, <1>3, <2>1, <2>2, <2>5, <2>6, SizesBegin, Zenon DEF Works
<1>7. CASE SbrkShrink(p, n)
  <2> DEFINE new == sz[p] + n
  <2>1. /\ th'[p] = [User EXCEPT !.pc = "uvmdealloc", !.op = "shrink",
                      !.np = p, !.i = DeallocFrom(new), !.n = Pages(sz[p]), !.newsz = new]
        /\ \A q \in Proc : q # p => th'[q] = th[q]
    BY <1>7, SetThread, Zenon DEF SbrkShrink
  <2>2. /\ th'[p].pc = "uvmdealloc" /\ th'[p].op = "shrink" /\ th'[p].np = p
        /\ th'[p].i = Pages(new) /\ th'[p].n = Pages(sz[p]) /\ th'[p].newsz = new
    BY <2>1, Zenon DEF User, Idle, DeallocFrom
  <2>3. new \in Nat /\ new <= sz[p]
    BY <1>5, <1>7 DEF SbrkShrink
  <2>4. Pages(new) <= Pages(sz[p])
    BY <1>5, <2>3, PagesMono, Zenon
  <2>5. Pages(new) \in 0..MAXVP
    <3>1. new \in 0..(MAXVP * PGSIZE)
      BY <2>3, SizeType, SMTT(40) DEF ThreadInv, TypeOK
    <3> QED
      BY <3>1, PagesType, Zenon
  <2>6. LoopBounds(th'[p], sz[p])
    BY <2>2, <2>3, <2>5, SMTT(40) DEF LoopBounds, Keeps
  <2>7. PartMapped(th'[p], sz[p], leaf[p])
    BY <1>4, <1>5, <2>2, <2>4, <2>5, SMTT(40) DEF PartMapped, AllMapped, Keeps, VPage
  <2> QED
    BY <1>1, <1>2, <1>3, <2>1, <2>2, <2>6, <2>7, SizesBegin, Zenon DEF Works
<1>8. CASE exec(p)
  <2> DEFINE k == Len(EXECIMAGE)
  <2>1. /\ th'[p] = [User EXCEPT !.pc = "proc_pagetable", !.op = "exec",
                      !.np = -p, !.n = k, !.newsz = k * PGSIZE]
        /\ \A q \in Proc : q # p => th'[q] = th[q]
    BY <1>8, SetThread, Zenon DEF exec
  <2>2. /\ th'[p].pc = "proc_pagetable" /\ th'[p].op = "exec" /\ th'[p].np = -p
        /\ th'[p].i = 0 /\ th'[p].n = k /\ th'[p].newsz = k * PGSIZE
    BY <2>1, Zenon DEF User, Idle
  <2>3. k \in Nat /\ Pages(k * PGSIZE) = k
    BY InputAssumption, PagesOf
  <2>4. LoopBounds(th'[p], sz[p])
    BY <2>2, <2>3 DEF LoopBounds
  <2>5. PartMapped(th'[p], sz[p], leaf[-p])
    BY <1>4, <2>2, PagesZero DEF PartMapped, AllMapped, VPage
  <2> QED
    BY <1>1, <1>2, <1>3, <2>1, <2>2, <2>4, <2>5, SizesBegin, Zenon DEF Works
<1> QED
  BY <1>6, <1>7, <1>8, Zenon

(* fork takes an UNUSED slot, which maps nothing. *)
LEMMA SizesFork ==
  ASSUME ThreadInv, SizeInv, NEW p \in Proc, fork(p)
  PROVE  SizeInv'
<1>1. th[p].pc = "user" /\ UNCHANGED <<leaf, sz>>
  BY Zenon DEF fork, Running, space
<1>2. PICK c \in Proc :
       /\ state[c] = "UNUSED"
       /\ state' = [state EXCEPT ![c] = "USED"]
       /\ th' = [th EXCEPT ![p] = [User EXCEPT !.pc = "proc_pagetable",
                                               !.op = "fork", !.np = c]]
  BY Zenon DEF fork
<1>3. ~Works(th[p])
  BY <1>1, Zenon DEF Works
<1>4. ~Worked(c) /\ c \in Space
  BY <1>2, <1>3, NotWorked, Zenon DEF Space
<1>5. AllMapped(leaf[c], 0)
  BY <1>2, <1>4, Zenon DEF SizeInv, SizeOf
<1>6. /\ th'[p] = [User EXCEPT !.pc = "proc_pagetable", !.op = "fork", !.np = c]
      /\ \A q \in Proc : q # p => th'[q] = th[q]
  BY <1>2, SetThread, Zenon
<1>7. th'[p].pc = "proc_pagetable" /\ th'[p].op = "fork" /\ th'[p].np = c /\ th'[p].i = 0
  BY <1>6, Zenon DEF User, Idle
<1>8. LoopBounds(th'[p], sz[p])
  BY <1>7, Zenon DEF LoopBounds
<1>9. PartMapped(th'[p], sz[p], leaf[c])
  BY <1>5, <1>7, PagesZero, SMTT(40) DEF PartMapped, AllMapped, VPage
<1>10. \A q \in Proc : state'[q] = "UNUSED" => state[q] = "UNUSED"
  BY <1>2, Zenon DEF ThreadInv, TypeOK
<1> QED
  BY <1>1, <1>3, <1>4, <1>6, <1>7, <1>8, <1>9, <1>10, SizesBegin, Zenon DEF Works

(* fork, exec or sbrk gives up. *)
LEMMA SizesUndo ==
  ASSUME ThreadInv, SizeInv, NEW p \in Proc, Undo(p),
         th[p].pc \in {"proc_pagetable", "uvmcopy", "uvmalloc"},
         UNCHANGED <<sz, state>>,
         \A s \in Space, v \in VPage : SameMapped(s, v)
  PROVE  SizeInv'
<1>1. Works(th[p])
  BY Zenon DEF Works
<1>2. PICK s \in Space : s = th[p].np
  BY <1>1, WorksFor, Zenon
<1>3. LoopBounds(th[p], sz[p]) /\ PartMapped(th[p], sz[p], leaf[s])
  BY <1>1, <1>2, Zenon DEF SizeInv
<1>4. PICK i \in Nat, k \in Nat : i = th[p].i /\ k = Pages(sz[p])
  BY PagesNat, SMTT(40)
<1>5. \A v \in VPage : leaf'[s][v].pa # NULL <=> v < i
  BY <1>3, <1>4, SMTT(40) DEF PartMapped, LoopBounds, SameMapped, VPage
<1>6. CASE th[p].op = "sbrk"
  <2>1. th'[p].pc = "uvmdealloc" /\ th'[p].op = "sbrk" /\ th'[p].i = k /\ th'[p].n = i
    BY <1>4, <1>6, UndoIs, Zenon
  <2>2. k <= i
    BY <1>3, <1>4, <1>6, WorksFor, Zenon DEF LoopBounds
  <2>3. LoopBounds(th'[p], sz[p])
    BY <1>4, <2>1, SMTT(40) DEF LoopBounds, Keeps
  <2>4. PartMapped(th'[p], sz[p], leaf'[s])
    BY <1>4, <1>5, <2>1, <2>2, SMTT(40) DEF PartMapped, Keeps, VPage
  <2> QED
    BY <1>1, <1>2, <2>1, <2>3, <2>4, UndoIs, SizesGoOn, Zenon DEF Works
<1>7. CASE th[p].op # "sbrk"
  <2>1. th'[p].pc = "uvmfree" /\ th'[p].op = th[p].op /\ th'[p].i = 0 /\ th'[p].n = i
    BY <1>4, <1>7, UndoIs, Zenon
  <2>2. th[p].op # "shrink"
    BY WorksFor, Zenon
  <2>3. LoopBounds(th'[p], sz[p])
    BY <2>1, <2>2, Zenon DEF LoopBounds
  <2>4. PartMapped(th'[p], sz[p], leaf'[s])
    BY <1>5, <2>1 DEF PartMapped, VPage
  <2> QED
    BY <1>1, <1>2, <2>1, <2>3, <2>4, UndoIs, SizesGoOn, Zenon DEF Works
<1> QED
  BY <1>6, <1>7, Zenon

(* proc_pagetable maps no user page. *)
LEMMA SizesProcPagetable ==
  ASSUME ThreadInv, SizeInv, NEW p \in Proc, proc_pagetable(p)
  PROVE  SizeInv'
<1>1. th[p].pc = "proc_pagetable" /\ UNCHANGED <<leaf, sz, state>>
  BY Zenon DEF proc_pagetable, Running, procs
<1>2. Works(th[p])
  BY <1>1, Zenon DEF Works
<1>3. CASE UNCHANGED th
  BY <1>1, <1>3, SizesSame, Zenon DEF SameMapped
<1>4. CASE Undo(p)
  BY <1>1, <1>4, SizesUndo, Zenon DEF SameMapped
<1>5. CASE th' = [th EXCEPT ![p].pc = IF th[p].op = "fork" THEN "uvmcopy" ELSE "uvmalloc"]
  <2> DEFINE pc == IF th[p].op = "fork" THEN "uvmcopy" ELSE "uvmalloc"
  <2>1. th' = [th EXCEPT ![p] = [th[p] EXCEPT !.pc = pc]]
    BY <1>5, Zenon
  <2>2. th'[p] = [th[p] EXCEPT !.pc = pc] /\ \A q \in Proc : q # p => th'[q] = th[q]
    BY <2>1, SetThread, Zenon
  <2>3. PICK s \in Space : s = th[p].np
    BY <1>2, WorksFor, Zenon
  <2>4. LoopBounds(th[p], sz[p]) /\ PartMapped(th[p], sz[p], leaf[s]) /\ th[p] \in Thread
    BY <1>2, <2>3, InLoop, Zenon
  <2>5. /\ th'[p].pc = pc /\ th'[p].op = th[p].op /\ th'[p].np = s
        /\ th'[p].i = th[p].i /\ th'[p].n = th[p].n /\ th'[p].newsz = th[p].newsz
    BY <2>2, <2>3, <2>4, Zenon DEF Thread
  <2>6. th[p].i = 0 /\ th[p].op \in {"fork", "userinit", "exec"} /\ Pages(sz[p]) >= 0
    BY <1>1, <2>4, WorksFor, PagesNat, SMTT(40) DEF LoopBounds
  <2>7. LoopBounds(th'[p], sz[p])
    BY <1>1, <2>4, <2>5, <2>6, Zenon DEF LoopBounds
  <2>8. PartMapped(th'[p], sz[p], leaf[s])
    BY <1>1, <2>4, <2>5, <2>6, SMTT(40) DEF PartMapped, VPage
  <2>9. Works(th'[p])
    BY <2>5, Zenon DEF Works
  <2> QED
    BY <1>1, <1>2, <2>2, <2>3, <2>5, <2>7, <2>8, <2>9, SizesGoOn, Zenon DEF SameMapped
<1> QED
  BY <1>3, <1>4, <1>5, Zenon DEF proc_pagetable

(* Thread p goes on with page i of its loop. *)
NextPage(p, i) ==
  /\ th'[p].pc = th[p].pc /\ th'[p].op = th[p].op /\ th'[p].np = th[p].np /\ th'[p].i = i
  /\ th'[p].n = th[p].n /\ th'[p].newsz = th[p].newsz
  /\ \A q \in Proc : q # p => th'[q] = th[q]

(* No page is mapped or unmapped but page v of space s. *)
MapsOnly(s, v) == \A x \in Space, w \in VPage : x # s \/ w # v => SameMapped(x, w)

(* Thread p has filled page v of the table it builds. *)
LEMMA SizesMap ==
  ASSUME ThreadInv, SizeInv, NEW p \in Proc, NEW s \in Space, s = th[p].np,
         NEW v \in VPage, v = th[p].i,
         \/ th[p].pc = "uvmcopy" /\ v < Pages(sz[p])
         \/ th[p].pc = "uvmalloc" /\ v < th[p].n,
         NextPage(p, v + 1), leaf'[s][v].pa # NULL, MapsOnly(s, v),
         UNCHANGED <<sz, state>>
  PROVE  SizeInv'
<1>1. Works(th[p]) /\ Works(th'[p])
  BY Zenon DEF Works, NextPage
<1>2. LoopBounds(th[p], sz[p]) /\ PartMapped(th[p], sz[p], leaf[s])
  BY <1>1, InLoop, Zenon
<1>3. /\ Pages(sz[p]) \in Nat /\ v \in Nat /\ th[p].n \in Nat
      /\ th[p].op # "shrink"
  BY PagesNat, WorksFor, SMTT(40) DEF VPage
<1>4. LoopBounds(th'[p], sz[p])
  BY <1>2, <1>3, SMTT(30) DEF LoopBounds, NextPage
<1>5. \A w \in VPage : leaf'[s][w].pa # NULL <=> w < v + 1
  BY <1>2, <1>3, SMTT(30) DEF PartMapped, SameMapped, MapsOnly, VPage
<1>6. PartMapped(th'[p], sz[p], leaf'[s])
  BY <1>5, Zenon DEF PartMapped, NextPage
<1> QED
  BY <1>1, <1>4, <1>6, SizesGoOn, Zenon DEF NextPage, MapsOnly

(* uvmcopy on one page. *)
LEMMA SizesUvmcopy ==
  ASSUME ThreadInv, SizeInv, NEW p \in Proc, uvmcopy(p)
  PROVE  SizeInv'
<1>1. /\ th[p].pc = "uvmcopy" /\ th[p].i < Pages(sz[p]) /\ UNCHANGED <<sz, state>>
      /\ leaf[p][th[p].i].pa # NULL
  BY Zenon DEF uvmcopy, Running, procs
<1>2. Works(th[p])
  BY <1>1, Zenon DEF Works
<1>3. PICK s \in Space : s = th[p].np
  BY <1>2, WorksFor, Zenon
<1>4. th[p] \in Thread /\ leaf \in [Space -> [VPage -> PTE]] /\ p \in Space
  BY <1>2, InLoop, ZenonT(30) DEF Space
<1>5. PICK v \in VPage : v = th[p].i
  BY <1>1, PagesNat, SizeAssumption DEF VPage
<1>6. PICK e \in PTE : e = CowPTE(leaf[p][v]) /\ e.pa = leaf[p][v].pa
  <2>1. ASSUME NEW d \in PTE PROVE CowPTE(d) \in PTE /\ CowPTE(d).pa = d.pa
    BY Zenon DEF PTE, CowPTE
  <2> QED
    BY <1>4, <2>1, Zenon
<1>7. CASE leaf' = [leaf EXCEPT ![p][v] = e] /\ (UNCHANGED th \/ Undo(p))
  <2>1. \A x \in Space, w \in VPage : SameMapped(x, w)
    BY <1>4, <1>6, <1>7, Zenon DEF SameMapped
  <2> QED
    BY <1>1, <1>7, <2>1, SizesSame, SizesUndo, Zenon
<1>8. CASE leaf' = [leaf EXCEPT ![p][v] = e, ![s][v] = e] /\ th' = [th EXCEPT ![p].i = v + 1]
  <2>1. MapsOnly(s, v)
    BY <1>4, <1>6, <1>8, Zenon DEF SameMapped, MapsOnly
  <2>2. leaf'[s][v].pa # NULL
    BY <1>1, <1>4, <1>5, <1>6, <1>8, Zenon
  <2>3. th' = [th EXCEPT ![p] = [th[p] EXCEPT !.i = v + 1]]
    BY <1>8, Zenon
  <2>4. th'[p] = [th[p] EXCEPT !.i = v + 1] /\ \A q \in Proc : q # p => th'[q] = th[q]
    BY <2>3, SetThread, Zenon
  <2>5. NextPage(p, v + 1)
    BY <1>4, <2>4, Zenon DEF Thread, NextPage
  <2>6. v < Pages(sz[p])
    BY <1>1, <1>5, Zenon
  <2> QED
    BY <1>1, <1>3, <1>5, <2>1, <2>2, <2>5, <2>6, SizesMap, Zenon
<1> QED
  BY <1>3, <1>5, <1>6, <1>7, <1>8, Zenon DEF uvmcopy, MappagesFails

(* fork is done: the child maps as many pages as its size says. *)
LEMMA SizesForkReturns ==
  ASSUME ThreadInv, SizeInv, NEW p \in Proc, ForkReturns(p)
  PROVE  SizeInv'
<1>1. th[p].pc = "uvmcopy" /\ th[p].i >= Pages(sz[p]) /\ UNCHANGED leaf
  BY Zenon DEF ForkReturns, Running
<1>2. Works(th[p])
  BY <1>1, Zenon DEF Works
<1>3. PICK c \in Proc : c = th[p].np /\ th[c] = Idle /\ c # p /\ state[c] = "USED"
  <2>1. th[p].op = "fork" /\ Target(p, th[p])
    BY <1>1, WorksFor, Zenon DEF ThreadInv
  <2> QED
    BY <1>1, <2>1, SMTT(40) DEF Target, Idle
<1>4. LoopBounds(th[p], sz[p]) /\ PartMapped(th[p], sz[p], leaf[c])
  BY <1>2, <1>3, InLoop, Zenon
<1>5. /\ sz' = [sz EXCEPT ![c] = sz[p]] /\ state' = [state EXCEPT ![c] = "RUNNABLE"]
      /\ th' = [th EXCEPT ![p] = User, ![c] = User]
  BY <1>3, Zenon DEF ForkReturns
<1>6. c \in Space /\ SizeOf(c)' = sz[p] /\ \A q \in Proc : q # c => sz'[q] = sz[q]
  BY <1>5, Zenon DEF SizeOf, Space, ThreadInv, TypeOK
<1>7. th'[p] = User /\ th'[c] = User /\ \A q \in Proc : q # p /\ q # c => th'[q] = th[q]
  BY <1>3, <1>5, Zenon DEF ThreadInv, TypeOK
<1>8. ~Works(th'[p]) /\ \A q \in Proc : q # p => th'[q] = th[q] \/ (~Works(th[q]) /\ ~Works(th'[q]))
  BY <1>3, <1>7, UserIs, Zenon
<1>9. th[p].i = Pages(sz[p])
  BY <1>1, <1>4, PagesNat, SMTT(40) DEF LoopBounds
<1>10. AllMapped(leaf[c], SizeOf(c)')
  BY <1>1, <1>4, <1>6, <1>9, Zenon DEF AllMapped, PartMapped
<1>11. \A q \in Proc : state'[q] = "UNUSED" => sz'[q] = 0
  BY <1>5, <1>6, Zenon DEF SizeInv, ThreadInv, TypeOK
<1> QED
  BY <1>1, <1>2, <1>3, <1>6, <1>8, <1>10, <1>11, SizesEnd, Zenon

(* uvmunmap on one page. *)
LEMMA SizesUvmunmap ==
  ASSUME ThreadInv, SizeInv, NEW p \in Proc, uvmunmap(p)
  PROVE  SizeInv'
<1>1. /\ th[p].pc \in {"uvmfree", "uvmdealloc"} /\ th[p].i < th[p].n /\ UNCHANGED <<sz, state>>
      /\ leaf[th[p].np][th[p].i].pa # NULL
  BY Zenon DEF uvmunmap, procs
<1>2. Works(th[p])
  BY <1>1, Zenon DEF Works
<1>3. PICK s \in Space : s = th[p].np
  BY <1>2, WorksFor, Zenon
<1>4. /\ LoopBounds(th[p], sz[p]) /\ PartMapped(th[p], sz[p], leaf[s])
      /\ th[p] \in Thread /\ leaf \in [Space -> [VPage -> PTE]]
  BY <1>2, <1>3, InLoop, Zenon
<1>5. th[p].n \in 0..MAXVP
  BY <1>1, Zenon DEF ThreadInv, Locals
<1>6. PICK v \in VPage : v = th[p].i
  BY <1>1, <1>5, PagesNat, SizeAssumption, SMTT(30) DEF VPage
<1>7. leaf' = [leaf EXCEPT ![s][v] = NoPTE] /\ th' = [th EXCEPT ![p] = [th[p] EXCEPT !.i = v + 1]]
  BY <1>3, <1>6, Zenon DEF uvmunmap
<1>8. /\ leaf'[s][v].pa = NULL
      /\ \A x \in Space, w \in VPage : x # s \/ w # v => leaf'[x][w] = leaf[x][w]
  BY <1>4, <1>7, Zenon DEF NoPTE
<1>9. th'[p] = [th[p] EXCEPT !.i = v + 1] /\ \A q \in Proc : q # p => th'[q] = th[q]
  BY <1>7, SetThread, Zenon
<1>10. /\ th'[p].pc = th[p].pc /\ th'[p].op = th[p].op /\ th'[p].np = s
       /\ th'[p].i = v + 1 /\ th'[p].n = th[p].n /\ th'[p].newsz = th[p].newsz
  BY <1>3, <1>4, <1>9, Zenon DEF Thread
<1>11. v \in Nat /\ th[p].n \in Nat /\ Pages(Keeps(th[p], sz[p])) \in Nat
  BY PagesNat, SMTT(40) DEF Keeps, VPage
<1>12. Keeps(th'[p], sz[p]) = Keeps(th[p], sz[p])
  BY <1>10, Zenon DEF Keeps
<1>13. LoopBounds(th'[p], sz[p])
  BY <1>1, <1>4, <1>6, <1>10, <1>11, <1>12, SMTT(30) DEF LoopBounds
<1>14. ASSUME NEW w \in VPage
       PROVE  /\ th[p].pc = "uvmfree" => (leaf'[s][w].pa # NULL <=> v + 1 <= w /\ w < th[p].n)
              /\ th[p].pc = "uvmdealloc" =>
                   (leaf'[s][w].pa # NULL <=> w < Pages(Keeps(th[p], sz[p])) \/ (v + 1 <= w /\ w < th[p].n))
  <2>1. CASE w = v
    BY <1>4, <1>6, <1>8, <1>11, <2>1, SMTT(30) DEF LoopBounds
  <2>2. CASE w # v
    <3>1. leaf'[s][w] = leaf[s][w] /\ w \in Nat
      BY <1>8, <2>2, SMTT(40) DEF VPage
    <3> QED
      BY <1>4, <1>6, <1>11, <2>2, <3>1, SMTT(40) DEF PartMapped
  <2> QED
    BY <2>1, <2>2, Zenon
<1>15. PartMapped(th'[p], sz[p], leaf'[s])
  BY <1>1, <1>10, <1>12, <1>14, Zenon DEF PartMapped
<1>16. Works(th'[p]) /\ \A x \in Space, w \in VPage : x # s => SameMapped(x, w)
  BY <1>2, <1>8, <1>10, Zenon DEF SameMapped, Works
<1> QED
  BY <1>1, <1>2, <1>3, <1>9, <1>10, <1>13, <1>15, <1>16, SizesGoOn, Zenon

(* freewalk, and the end of freeproc. *)
LEMMA SizesFreeproc ==
  ASSUME ThreadInv, SizeInv, NEW p \in Proc, freewalk(p) \/ freeproc(p)
  PROVE  SizeInv'
<1>1. CASE freewalk(p)
  BY <1>1, SizesSame, Zenon DEF freewalk, procs, SameMapped
<1>2. CASE freeproc(p)
  <2>1. th[p].pc = "uvmfree" /\ th[p].i >= th[p].n /\ UNCHANGED leaf
    BY <1>2, Zenon DEF freeproc, Running
  <2>2. Works(th[p])
    BY <2>1, Zenon DEF Works
  <2>3. PICK s \in Space : s = th[p].np
    BY <2>2, WorksFor, Zenon
  <2>4. PartMapped(th[p], sz[p], leaf[s])
    BY <2>2, <2>3, InLoop, Zenon
  <2>5. th'[p] = User /\ \A q \in Proc : q # p => th'[q] = th[q]
    BY <1>2, SetThread, Zenon DEF freeproc
  <2>6. /\ \A q \in Proc : q # s => sz'[q] = sz[q] /\ state'[q] = state[q]
        /\ s \in Proc => sz'[s] = 0
    BY <1>2, <2>3, SMTT(30) DEF freeproc, ThreadInv, TypeOK
  <2>7. SizeOf(s)' = 0
    BY <2>6, Zenon DEF SizeOf
  <2>8. AllMapped(leaf[s], 0)
    BY <2>1, <2>4, PagesZero, PagesNat, SMTT(40) DEF AllMapped, PartMapped, VPage
  <2>9. \A q \in Proc : state'[q] = "UNUSED" => sz'[q] = 0
    BY <2>6, Zenon DEF SizeInv
  <2> QED
    BY <2>1, <2>2, <2>3, <2>5, <2>6, <2>7, <2>8, <2>9, UserIs, SizesEnd, Zenon
<1> QED
  BY <1>1, <1>2, Zenon

(* uvmalloc on one page. *)
LEMMA SizesUvmalloc ==
  ASSUME ThreadInv, SizeInv, NEW p \in Proc, uvmalloc(p)
  PROVE  SizeInv'
<1>1. th[p].pc = "uvmalloc" /\ th[p].i < th[p].n /\ UNCHANGED <<sz, state>>
  BY Zenon DEF uvmalloc, Running, procs
<1>2. Works(th[p])
  BY <1>1, Zenon DEF Works
<1>3. PICK s \in Space : s = th[p].np
  BY <1>2, WorksFor, Zenon
<1>4. /\ LoopBounds(th[p], sz[p]) /\ PartMapped(th[p], sz[p], leaf[s])
      /\ th[p] \in Thread /\ leaf \in [Space -> [VPage -> PTE]]
  BY <1>2, <1>3, InLoop, Zenon
<1>5. CASE UNCHANGED leaf /\ \E pa \in PA : th' = [th EXCEPT ![p].mem = pa]
  <2>1. PICK pa \in PA : th' = [th EXCEPT ![p] = [th[p] EXCEPT !.mem = pa]]
    BY <1>5, Zenon
  <2>2. th'[p] = [th[p] EXCEPT !.mem = pa] /\ \A q \in Proc : q # p => th'[q] = th[q]
    BY <2>1, SetThread, Zenon
  <2>3. /\ th'[p].pc = th[p].pc /\ th'[p].op = th[p].op /\ th'[p].np = s
        /\ th'[p].i = th[p].i /\ th'[p].n = th[p].n /\ th'[p].newsz = th[p].newsz
    BY <1>3, <1>4, <2>2, Zenon DEF Thread
  <2>4. LoopBounds(th'[p], sz[p]) /\ PartMapped(th'[p], sz[p], leaf[s])
    BY <1>4, <2>3, Zenon DEF LoopBounds, PartMapped, Keeps
  <2> QED
    BY <1>1, <1>2, <1>3, <1>5, <2>2, <2>3, <2>4, SizesGoOn, Zenon DEF SameMapped, Works
<1>6. CASE UNCHANGED leaf /\ UNCHANGED th
  BY <1>1, <1>6, SizesSame, Zenon DEF SameMapped
<1>7. CASE UNCHANGED leaf /\ Undo(p)
  BY <1>1, <1>7, SizesUndo, Zenon DEF SameMapped
<1>8. CASE /\ leaf' = [leaf EXCEPT ![s][th[p].i] = NewPTE(th[p])] /\ th[p].mem # NULL
           /\ th' = [th EXCEPT ![p].i = th[p].i + 1, ![p].mem = NULL]
  <2>0. Locals(th[p])
    BY Zenon DEF ThreadInv
  <2>1. PICK v \in VPage : v = th[p].i
    BY <1>1, <2>0, SizeAssumption, SMTT(40) DEF VPage, Locals
  <2>2. th' = [th EXCEPT ![p] = [th[p] EXCEPT !.i = v + 1, !.mem = NULL]]
    BY <1>8, <2>1, Zenon
  <2>3. th'[p] = [th[p] EXCEPT !.i = v + 1, !.mem = NULL] /\ \A q \in Proc : q # p => th'[q] = th[q]
    BY <2>2, SetThread, Zenon
  <2>4. NextPage(p, v + 1)
    BY <1>4, <2>3, Zenon DEF Thread, NextPage
  <2>5. NewPTE(th[p]).pa # NULL
    BY <1>8, Zenon DEF NewPTE
  <2>6. /\ leaf'[s][v] = NewPTE(th[p])
        /\ \A x \in Space, w \in VPage : x # s \/ w # v => leaf'[x][w] = leaf[x][w]
    BY <1>4, <1>8, <2>1, Zenon
  <2>7. leaf'[s][v].pa # NULL /\ MapsOnly(s, v)
    BY <2>5, <2>6, Zenon DEF SameMapped, MapsOnly
  <2>8. v < th[p].n
    BY <1>1, <2>1, ZenonT(30)
  <2> QED
    BY <1>1, <1>3, <2>1, <2>4, <2>7, <2>8, SizesMap, Zenon
<1> QED
  BY <1>3, <1>5, <1>6, <1>7, <1>8, Zenon DEF uvmalloc

(* uvmalloc or uvmdealloc is complete. *)
LEMMA SizesDone ==
  ASSUME ThreadInv, SizeInv, NEW p \in Proc, UvmallocDone(p) \/ UvmdeallocDone(p)
  PROVE  SizeInv'
<1>1. th[p].pc \in {"uvmalloc", "uvmdealloc"} /\ th[p].i >= th[p].n /\ UNCHANGED leaf
  BY ZenonT(30) DEF UvmallocDone, UvmdeallocDone, Running
<1>2. Works(th[p])
  BY <1>1, Zenon DEF Works
<1>3. p \in Space /\ p = th[p].np
  <2>1. th[p].op \in {"sbrk", "shrink", "userinit"}
    BY WorksFor, Zenon DEF UvmallocDone, UvmdeallocDone, Running
  <2> QED
    BY <2>1, Zenon DEF ThreadInv, Target, Space
<1>4. /\ LoopBounds(th[p], sz[p]) /\ PartMapped(th[p], sz[p], leaf[p])
      /\ sz \in [Proc -> 0..(MAXVP * PGSIZE)] /\ th[p].i \in Nat /\ th[p].n \in Nat
  BY <1>2, <1>3, InLoop, PagesNat, Zenon DEF ThreadInv, TypeOK
<1>5. th'[p] = User /\ \A q \in Proc : q # p => th'[q] = th[q]
  BY SetThread, Zenon DEF UvmallocDone, UvmdeallocDone
<1>6. \A q \in Proc : q # p => sz'[q] = sz[q]
  BY <1>4, Zenon DEF UvmallocDone, UvmdeallocDone
<1>7. CASE UvmallocDone(p)
  <2>1. th[p].pc = "uvmalloc" /\ sz'[p] = th[p].newsz /\ th[p].op # "fork"
    BY <1>4, <1>7, WorksFor, Zenon DEF UvmallocDone, Running
  <2>2. SizeOf(p)' = th[p].newsz /\ Pages(th[p].newsz) = th[p].i
    BY <1>1, <1>4, <2>1, SMTT(40) DEF SizeOf, LoopBounds
  <2>3. AllMapped(leaf[p], SizeOf(p)')
    BY <1>4, <2>1, <2>2, Zenon DEF AllMapped, PartMapped
  <2>4. \A q \in Proc : state'[q] = "UNUSED" => sz'[q] = 0
    BY <1>6, <1>7, Zenon DEF SizeInv, UvmallocDone, ThreadInv, TypeOK
  <2> QED
    BY <1>1, <1>2, <1>3, <1>5, <1>6, <2>3, <2>4, UserIs, SizesEnd, Zenon
<1>8. CASE UvmdeallocDone(p)
  <2>1. th[p].pc = "uvmdealloc" /\ sz'[p] = Keeps(th[p], sz[p]) /\ UNCHANGED state
    BY <1>4, <1>8, ZenonT(30) DEF UvmdeallocDone, Running, procs, Keeps
  <2>2. SizeOf(p)' = Keeps(th[p], sz[p])
    BY <2>1, Zenon DEF SizeOf
  <2>3. AllMapped(leaf[p], SizeOf(p)')
    BY <1>1, <1>4, <2>1, <2>2, SMTT(40) DEF AllMapped, PartMapped, VPage
  <2>4. state[p] # "UNUSED"
    BY <1>2, WorksFor, UserIs, Zenon DEF ThreadInv, DeadIsIdle
  <2>5. \A q \in Proc : state'[q] = "UNUSED" => sz'[q] = 0
    BY <1>6, <2>1, <2>4, Zenon DEF SizeInv
  <2> QED
    BY <1>1, <1>2, <1>3, <1>5, <1>6, <2>3, <2>5, UserIs, SizesEnd, Zenon
<1> QED
  BY <1>7, <1>8, Zenon

(* exec commits: the new table has the pages of the program, and the old   *)
(* one is to be freed from its first page to its last.                     *)
LEMMA SizesExecCommit ==
  ASSUME ThreadInv, SizeInv, NEW p \in Proc, ExecCommit(p)
  PROVE  SizeInv'
<1>1. th[p].pc = "uvmalloc" /\ th[p].i >= th[p].n /\ th[p].op = "exec" /\ UNCHANGED state
  BY Zenon DEF ExecCommit, Running, procs
<1>2. Works(th[p]) /\ th[p].pc # "none"
  BY <1>1, Zenon DEF Works
<1>3. th[p].np = -p /\ p \in Space /\ -p \in Space /\ -p \notin Proc /\ -p # p
  BY <1>1, ProcAssumption, SMTT(30) DEF ThreadInv, Target, Space
<1>4. /\ LoopBounds(th[p], sz[p]) /\ PartMapped(th[p], sz[p], leaf[-p])
      /\ th[p] \in Thread /\ leaf \in [Space -> [VPage -> PTE]]
  BY <1>2, <1>3, InLoop, Zenon
<1>5. ~Worked(p)
  <2>1. ASSUME NEW q \in Proc, Works(th[q]), th[q].np = p PROVE FALSE
    BY <1>2, <1>3, <2>1, Apart, Zenon
  <2> QED
    BY <2>1, Zenon DEF Worked
<1>6. AllMapped(leaf[p], sz[p])
  BY <1>3, <1>5, Zenon DEF SizeInv, SizeOf
<1>7. /\ leaf'[p] = leaf[-p] /\ leaf'[-p] = leaf[p]
      /\ \A x \in Space : x # p /\ x # -p => leaf'[x] = leaf[x]
  <2>1. leaf' = [leaf EXCEPT ![p] = leaf[-p], ![-p] = leaf[p]]
    BY Zenon DEF ExecCommit
  <2> QED
    BY <1>3, <1>4, <2>1, Zenon
<1>8. sz' = [sz EXCEPT ![p] = th[p].newsz] /\ sz \in [Proc -> 0..(MAXVP * PGSIZE)]
  BY Zenon DEF ExecCommit, ThreadInv, TypeOK
<1>9. /\ th'[p] = [th[p] EXCEPT !.pc = "uvmfree", !.i = 0, !.n = OldPages(p)]
      /\ \A q \in Proc : q # p => th'[q] = th[q]
  BY SetThread, Zenon DEF ExecCommit
<1>10. /\ th'[p].pc = "uvmfree" /\ th'[p].op = "exec" /\ th'[p].np = -p
       /\ th'[p].i = 0 /\ th'[p].n = Pages(sz[p])
  BY <1>1, <1>3, <1>4, <1>9, Zenon DEF Thread, OldPages
<1>11. LoopBounds(th'[p], sz'[p]) /\ Works(th'[p])
  BY <1>10, Zenon DEF LoopBounds, Works
<1>12. PartMapped(th'[p], sz'[p], leaf'[-p])
  BY <1>6, <1>7, <1>10, PagesNat, SMTT(40) DEF PartMapped, AllMapped, VPage
<1>13. SizeOf(p)' = th[p].newsz /\ th[p].i = Pages(th[p].newsz)
  <2>1. sz'[p] = th[p].newsz
    BY <1>8, Zenon
  <2>2. th[p].n = Pages(th[p].newsz) /\ th[p].i <= th[p].n /\ th[p].i \in Nat /\ th[p].n \in Nat
    BY <1>1, <1>4, PagesNat, Zenon DEF LoopBounds
  <2> QED
    BY <1>1, <2>1, <2>2 DEF SizeOf
<1>14. AllMapped(leaf'[p], SizeOf(p)')
  BY <1>1, <1>4, <1>7, <1>13, Zenon DEF AllMapped, PartMapped
<1>15. state[p] # "UNUSED"
  BY <1>2, UserIs, Zenon DEF ThreadInv, DeadIsIdle
<1>16. \A q \in Proc : state'[q] = "UNUSED" => sz'[q] = 0
  BY <1>1, <1>8, <1>15, Zenon DEF SizeInv
<1>17. PICK X \in SUBSET Space : X = {p, -p}
  BY <1>3, Zenon
<1>18. \A x \in Space : x \notin X => SizeOf(x)' = SizeOf(x) /\ \A v \in VPage : SameMapped(x, v)
  BY <1>7, <1>8, <1>17, Zenon DEF SizeOf, SameMapped
<1>19. \A q \in Proc : q # p /\ Works(th[q]) => th[q].np \notin X /\ sz'[q] = sz[q]
  BY <1>2, <1>3, <1>8, <1>17, Apart, Zenon
<1>20. \A x \in X : (Works(th'[p]) /\ th'[p].np = x) \/ AllMapped(leaf'[x], SizeOf(x)')
  BY <1>10, <1>11, <1>14, <1>17, Zenon
<1>21. th[p].np \in X /\ th'[p].np \in X
  BY <1>3, <1>10, <1>17, Zenon
<1>22. \A q \in Proc : q # p =>
         \/ th'[q] = th[q] /\ (Works(th[q]) => th[q].np \notin X /\ sz'[q] = sz[q])
         \/ ~Works(th[q]) /\ ~Works(th'[q])
  BY <1>9, <1>19, Zenon
<1>23. /\ th'[p].np \in X /\ LoopBounds(th'[p], sz'[p])
       /\ PartMapped(th'[p], sz'[p], leaf'[th'[p].np])
  BY <1>10, <1>11, <1>12, <1>21, Zenon
<1> QED
  BY <1>16, <1>18, <1>20, <1>21, <1>22, <1>23, SizesStep, Zenon

-----------------------------------------------------------------------------
(* All steps.                                                              *)

(* At boot nothing is mapped and the first process has no size yet. *)
LEMMA SizeInit ==
  ASSUME Init
  PROVE  SizeInv
<1>1. initproc \in Proc /\ initproc \in Space /\ \A s \in Space : SizeOf(s) = 0
  BY ProcAssumption, ZenonT(30) DEF Space, SizeOf, Init
<1>2. \A s \in Space, v \in VPage : leaf[s][v].pa = NULL
  BY ZenonT(30) DEF Init, NoPTE
<1>3. \A q \in Proc : q # initproc => th[q] = Idle
  BY ZenonT(30) DEF Init
<1>4. /\ th[initproc].pc = "proc_pagetable" /\ th[initproc].op = "userinit"
      /\ th[initproc].np = initproc /\ th[initproc].i = 0 /\ th[initproc].n = 1
      /\ th[initproc].newsz = PGSIZE
  BY <1>1, Zenon DEF Init, Idle
<1>5. \A s \in Space : AllMapped(leaf[s], 0)
  BY <1>2, PagesZero, SMTT(40) DEF AllMapped, VPage
<1>6. LoopBounds(th[initproc], sz[initproc])
  BY <1>4, PagesZero, SMTT(40) DEF LoopBounds
<1>7. PartMapped(th[initproc], sz[initproc], leaf[initproc])
  BY <1>1, <1>2, <1>4, Zenon DEF PartMapped
<1>8. \A p \in Proc : sz[p] = 0
  BY Zenon DEF Init
<1>9. \A p \in Proc : Works(th[p]) => p = initproc
  BY <1>3, UserIs, Zenon
<1> QED
  BY <1>1, <1>4, <1>5, <1>6, <1>7, <1>8, <1>9, Zenon DEF SizeInv

(* Every step of the kernel and of user code keeps SizeInv. *)
LEMMA SizeNext == ThreadInv /\ SizeInv /\ [Next]_vars => SizeInv'
<1> SUFFICES ASSUME ThreadInv, SizeInv, [Next]_vars PROVE SizeInv'
  OBVIOUS
<1>1. CASE UNCHANGED vars
  BY <1>1, SizesSame, Zenon DEF vars, space, procs, SameMapped
<1>2. ASSUME NEW p \in Proc, Kernel(p) PROVE SizeInv'
  BY <1>2, SizesFault, SizesCow, SizesCopyout, SizesProcPagetable, SizesUvmcopy, SizesForkReturns,
     SizesUvmunmap, SizesFreeproc, SizesUvmalloc, SizesDone, SizesExecCommit, Zenon, Zenon
  DEF Kernel
<1>3. ASSUME NEW p \in Proc, UserCode(p) PROVE SizeInv'
  <2>1. \A n \in SbrkArgs : n \in Int
    BY InputAssumption, Zenon
  <2> QED
    BY <1>3, <2>1, SizesFault, SizesCopyout, SizesGrow, SizesFork, SMTT(40) DEF UserCode
<1> QED
  BY <1>1, <1>2, <1>3, Zenon DEF Next

(* Sizes that agree with the page tables rule out every panic of vm.c. *)
LEMMA SizesNoPanic ==
  ASSUME ThreadInv, SizeInv
  PROVE  NoVmPanic
<1> SUFFICES ASSUME NEW p \in Proc
    PROVE  /\ th[p].pc = "uvmcopy" /\ th[p].i < Pages(sz[p])
                => leaf[p][th[p].i].pa # NULL /\ leaf[th[p].np][th[p].i].pa = NULL
           /\ th[p].pc \in {"uvmfree", "uvmdealloc"} /\ th[p].i < th[p].n
                => leaf[th[p].np][th[p].i].pa # NULL
           /\ th[p].pc = "uvmalloc" /\ th[p].i < th[p].n => leaf[th[p].np][th[p].i].pa = NULL
           /\ th[p].pc = "uvmfree" /\ th[p].i >= th[p].n
                => \A v \in VPage : leaf[th[p].np][v].pa = NULL
  BY Zenon DEF NoVmPanic
<1> SUFFICES ASSUME Works(th[p])
    PROVE  /\ th[p].pc = "uvmcopy" /\ th[p].i < Pages(sz[p])
                => leaf[p][th[p].i].pa # NULL /\ leaf[th[p].np][th[p].i].pa = NULL
           /\ th[p].pc \in {"uvmfree", "uvmdealloc"} /\ th[p].i < th[p].n
                => leaf[th[p].np][th[p].i].pa # NULL
           /\ th[p].pc = "uvmalloc" /\ th[p].i < th[p].n => leaf[th[p].np][th[p].i].pa = NULL
           /\ th[p].pc = "uvmfree" /\ th[p].i >= th[p].n
                => \A v \in VPage : leaf[th[p].np][v].pa = NULL
  BY Zenon DEF Works
<1>1. LoopBounds(th[p], sz[p]) /\ PartMapped(th[p], sz[p], leaf[th[p].np]) /\ Locals(th[p])
  BY InLoop, Zenon DEF ThreadInv
<1>2. /\ th[p].i \in Nat /\ th[p].n \in Nat /\ Pages(sz[p]) \in 0..MAXVP /\ MAXVP \in Nat
  BY PagesNat, Zenon
<1>3. ASSUME th[p].pc = "uvmcopy", th[p].i < Pages(sz[p])
      PROVE  leaf[p][th[p].i].pa # NULL /\ leaf[th[p].np][th[p].i].pa = NULL
  <2>1. PICK v \in VPage : v = th[p].i
    BY <1>2, <1>3, SMTT(40) DEF VPage
  <2>2. th[p].op = "fork" /\ p \in Space
    BY <1>3, WorksFor, Zenon DEF Space
  <2>3. th[p].np # p /\ th[p].pc # "none"
    BY <1>3, <2>2, UserIs, Zenon DEF ThreadInv, Target
  <2>4. ~Worked(p)
    <3>1. ASSUME NEW q \in Proc, Works(th[q]), th[q].np = p PROVE FALSE
      BY <2>3, <3>1, Apart, Zenon
    <3> QED
      BY <3>1, Zenon DEF Worked
  <2>5. AllMapped(leaf[p], sz[p])
    BY <2>2, <2>4, Zenon DEF SizeInv, SizeOf
  <2> QED
    BY <1>1, <1>2, <1>3, <2>1, <2>5, SMTT(40) DEF AllMapped, PartMapped
<1>4. ASSUME th[p].pc \in {"uvmfree", "uvmdealloc", "uvmalloc"}, th[p].i < th[p].n
      PROVE  leaf[th[p].np][th[p].i].pa # NULL <=> th[p].pc # "uvmalloc"
  <2>1. PICK v \in VPage : v = th[p].i
    BY <1>1, <1>2, <1>4, SMTT(40) DEF VPage, Locals
  <2> QED
    BY <1>1, <1>2, <1>4, <2>1, SMTT(40) DEF PartMapped
<1>5. ASSUME th[p].pc = "uvmfree", th[p].i >= th[p].n, NEW v \in VPage
      PROVE  leaf[th[p].np][v].pa = NULL
  BY <1>1, <1>2, <1>5 DEF PartMapped, VPage
<1> QED
  BY <1>3, <1>4, <1>5, Zenon
=============================================================================
