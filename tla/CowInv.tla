------------------------------- MODULE CowInv -------------------------------
(***************************************************************************)
(* The inductive invariant behind the theorems about Cow: what is true of  *)
(* a thread at each place in the code (ThreadInv), and of the pages it     *)
(* holds (PageInv).                                                        *)
(***************************************************************************)
EXTENDS Cow

(* Where a thread may be for each call it serves. *)
PcOf(op) ==
  CASE op = "none"     -> {"none", "user", "exit"}
    [] op = "trap"     -> {"retry", "is_cowpage", "cow_alloc", "cow_kalloc",
                           "cow_copy", "cow_kfree"}
    [] op = "read"     -> {"copyout", "memmove", "cow_alloc", "cow_kalloc",
                           "cow_copy", "cow_kfree"}
    [] op = "wait"     -> {"copyout", "memmove", "cow_alloc", "cow_kalloc",
                           "cow_copy", "cow_kfree", "uvmfree"}
    [] op = "fork"     -> {"proc_pagetable", "uvmcopy", "uvmfree"}
    [] op = "userinit" -> {"proc_pagetable", "uvmalloc"}
    [] op = "exec"     -> {"proc_pagetable", "uvmalloc", "uvmfree"}
    [] op = "sbrk"     -> {"uvmalloc", "uvmdealloc"}
    [] op = "shrink"   -> {"uvmdealloc"}

(* The locals of a thread, as far as they concern only itself. *)
Locals(t) ==
  /\ t.pc \in PcOf(t.op)
  /\ t.op = "none" => t = [Idle EXCEPT !.pc = t.pc]
  /\ t.mem # NULL => t.pc \in {"cow_copy", "cow_kfree", "uvmalloc"}
  /\ t.mem # NULL /\ t.pc = "uvmalloc" => t.i < t.n
  /\ t.pc \in {"cow_copy", "cow_kfree"} => t.mem # NULL
  /\ t.pc \in {"retry", "is_cowpage"} => t.i \in VPage
  /\ t.pc \in {"proc_pagetable", "uvmcopy", "uvmalloc"} => t.i \in 0..MAXVP
  /\ t.pc \in {"proc_pagetable", "uvmalloc", "uvmfree", "uvmdealloc"} => t.n \in 0..MAXVP

(* The page a copy-on-write fault, or copyout, is about is mapped in the   *)
(* page table of the thread.                                               *)
FaultPage(t, table) ==
  t.pc \in {"cow_alloc", "cow_kalloc", "cow_copy", "cow_kfree", "memmove"}
    => t.i \in VPage /\ table[t.i].pa # NULL

(* The space a thread p works on is its own, or that of a child that does  *)
(* not run: one it is creating, or a zombie it is freeing.                 *)
Target(p, t) ==
  /\ t.op \in {"sbrk", "shrink", "userinit"} => t.np = p
  /\ t.op = "exec" => t.np = -p
  /\ t.op = "fork" => t.np \in Proc /\ state[t.np] = "USED" /\ th[t.np] = Idle
  /\ t.op = "wait" => t.np \in Proc /\ state[t.np] = "ZOMBIE" /\ parent[t.np] = p

(* No two forks build the same child. *)
ForksApart ==
  \A p, q \in Proc :
    th[p].op = "fork" /\ th[q].op = "fork" /\ th[p].np = th[q].np => p = q

(* A slot that is free or a zombie has no thread. *)
DeadIsIdle == \A p \in Proc : state[p] \in {"UNUSED", "ZOMBIE"} => th[p] = Idle

(* PTE_RSW_COW is only ever set in a valid PTE. *)
CowIsValid == \A s \in Space, v \in VPage : leaf[s][v].cow => leaf[s][v].pa # NULL

ThreadInv ==
  /\ TypeOK
  /\ \A p \in Proc : Locals(th[p]) /\ FaultPage(th[p], leaf[p]) /\ Target(p, th[p])
  /\ ForksApart /\ DeadIsIdle /\ CowIsValid

(* A page appears at one virtual page number only, whoever maps it: this   *)
(* bounds its reference count by the number of page tables.                *)
SameVPage ==
  \A s, t \in Space, v, w \in VPage :
    leaf[s][v].pa # NULL /\ leaf[s][v].pa = leaf[t][w].pa => v = w

(* The table exec builds has no trapframe of its own. *)
ExecHasNoTrapframe == \A p \in Proc : tabs[-p][TRAPFRAME] = NULL

(* A page that cow_alloc or uvmalloc has just taken is referred to by that *)
(* thread alone.                                                           *)
FreshInHand ==
  \A p \in Proc : th[p].pc \in {"cow_copy", "uvmalloc"} /\ th[p].mem # NULL
                    => refer_count[th[p].mem] = 1

PageInv ==
  /\ RefcountExact /\ EveryPageAccounted /\ TablesAreNotShared
  /\ SameVPage /\ ExecHasNoTrapframe /\ FreshInHand

(***************************************************************************)
(* Sizes and page tables agree: which pages a space maps, while a call     *)
(* builds, shrinks or frees it and at all other times.                     *)
(***************************************************************************)

(* A call is in a loop over the pages of space np. *)
Works(t) ==
  t.pc \in {"proc_pagetable", "uvmcopy", "uvmalloc", "uvmfree", "uvmdealloc"}
Worked(s) == \E p \in Proc : Works(th[p]) /\ th[p].np = s

(* The size uvmdealloc goes down to. *)
Keeps(t, size) == IF t.op = "shrink" THEN t.newsz ELSE size

(* The indices of the loops of a thread t whose process has size bytes. *)
LoopBounds(t, size) ==
  /\ t.pc = "proc_pagetable" => t.i = 0
  /\ t.pc = "uvmcopy" => t.i <= Pages(size)
  /\ t.pc \in {"proc_pagetable", "uvmalloc"} /\ t.op # "fork"
       => t.n = Pages(t.newsz) /\ t.i <= t.n
  /\ t.pc = "uvmalloc" /\ t.op = "sbrk" => Pages(size) <= t.i
  /\ t.pc = "uvmdealloc" => Pages(Keeps(t, size)) <= t.i
  /\ t.op = "shrink" => t.newsz <= size

(* What is mapped in the table the thread works on. *)
PartMapped(t, size, table) ==
  \A v \in VPage :
    /\ t.pc = "proc_pagetable" => table[v].pa = NULL
    /\ t.pc \in {"uvmcopy", "uvmalloc"} => (table[v].pa # NULL <=> v < t.i)
    /\ t.pc = "uvmfree" => (table[v].pa # NULL <=> t.i <= v /\ v < t.n)
    /\ t.pc = "uvmdealloc" =>
         (table[v].pa # NULL <=> v < Pages(Keeps(t, size)) \/ (t.i <= v /\ v < t.n))

(* A table with exactly the pages that size bytes take. *)
AllMapped(table, size) == \A v \in VPage : table[v].pa # NULL <=> v < Pages(size)
SizeOf(s) == IF s \in Proc THEN sz[s] ELSE 0

SizeInv ==
  /\ \A p \in Proc : Works(th[p]) => /\ LoopBounds(th[p], sz[p])
                                     /\ PartMapped(th[p], sz[p], leaf[th[p].np])
  /\ \A s \in Space : ~Worked(s) => AllMapped(leaf[s], SizeOf(s))
  /\ \A p \in Proc : state[p] = "UNUSED" => sz[p] = 0

(***************************************************************************)
(* Sharing does not show.                                                  *)
(***************************************************************************)

(* A page that cow_alloc is copying, or that a process killed for lack of  *)
(* memory takes with it, may be writable and shared.                       *)
Excused(s, v) ==
  /\ s \in Proc
  /\ \/ state[s] = "ZOMBIE" \/ th[s].pc = "exit"
     \/ th[s].pc \in {"cow_kalloc", "cow_copy"} /\ th[s].i = v

(* Every other writable page is mapped once. *)
PrivateWhenWritable ==
  \A s, t \in Space, v \in VPage :
    leaf[s][v].w /\ leaf[s][v].pa # NULL /\ leaf[t][v].pa = leaf[s][v].pa
      => Excused(s, v) \/ t = s

(* cow_alloc has set PTE_W. *)
CowSetsW(p) ==
  th[p].pc \in {"cow_kalloc", "cow_copy", "cow_kfree", "memmove"} => leaf[p][th[p].i].w

(* A thread runs on behalf of a live process, or boots the first. *)
LiveThread(p) ==
  th[p].pc # "none" => state[p] = IF th[p].op = "userinit" THEN "USED" ELSE "RUNNABLE"

(* fork has given the child the parent's own pages. *)
ForkShares(p) ==
  th[p].pc = "uvmcopy" =>
    \A v \in VPage : v < th[p].i => leaf[th[p].np][v].pa = leaf[p][v].pa

(* Pages that no program has seen yet hold zeroes, or the program. *)
NewContent(op) == IF op = "sbrk" THEN Zero ELSE Image
FreshContent(p) ==
  th[p].pc = "uvmalloc" =>
    /\ th[p].mem # NULL => content[th[p].mem] = NewContent(th[p].op)
    /\ \A v \in VPage : v < th[p].i /\ (th[p].op = "sbrk" => Pages(sz[p]) <= v)
         => content[leaf[th[p].np][v].pa] = NewContent(th[p].op)

ThreadSees(p) == CowSetsW(p) /\ LiveThread(p) /\ ForkShares(p) /\ FreshContent(p)

ViewInv == PrivateWhenWritable /\ \A p \in Proc : ThreadSees(p)

(* copyout finds memory for the copies it needs, and is given no page that *)
(* is read-only for another reason than copy-on-write.                     *)
CopyoutServed ==
  \A p \in Proc : th[p].op \in {"read", "wait"} =>
    /\ th[p].pc = "cow_kalloc" => freelist # {}
    /\ th[p].pc = "copyout" /\ th[p].i \in VPage =>
         LET e == leaf[p][th[p].i] IN e.pa # NULL /\ e.u => e.w \/ e.cow

(* No thread is in copyout, which only read and wait call. *)
NotInCopyout(t) == t.op # "read" /\ (t.op = "wait" => t.pc = "uvmfree")
NoCopyout == \A p \in Proc : NotInCopyout(th[p])

(* What the reference counts say about who refers to a page. *)
Unreferred(x) ==
  /\ \A s \in Space, v \in VPage : leaf[s][v].pa # x
  /\ \A q \in Proc : th[q].mem # x
SoleRefs ==
  /\ SameVPage
  /\ \A x \in freelist : Unreferred(x)
  /\ \A p \in Proc : freeing[p] # NULL => Unreferred(freeing[p])
  /\ \A p \in Proc : th[p].pc \in {"cow_copy", "uvmalloc"} /\ th[p].mem # NULL =>
       /\ \A s \in Space, v \in VPage : leaf[s][v].pa # th[p].mem
       /\ \A q \in Proc : q # p => th[q].mem # th[p].mem
  /\ \A s, t \in Space, v \in VPage :
       /\ leaf[s][v].pa # NULL /\ refer_count[leaf[s][v].pa] = 1
       /\ leaf[t][v].pa = leaf[s][v].pa
       => t = s
=============================================================================
