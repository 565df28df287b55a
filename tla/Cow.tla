-------------------------------- MODULE Cow ---------------------------------
(***************************************************************************)
(* Address spaces with copy-on-write fork: the page tables of kernel/vm.c, *)
(* the store page fault of kernel/trap.c, and the system calls that build, *)
(* share, resize and free an address space (fork, exit, wait, sbrk, exec,  *)
(* and any call that copies out to user memory).                           *)
(*                                                                         *)
(* Every process is a thread that runs user code or one kernel call.  A    *)
(* step is a critical section of kmem.lock with the private work around    *)
(* it; between steps any other process may run (other harts, preemption).  *)
(* A space is a page table: process p's own is number p, the one exec is   *)
(* building for p (afterwards: the old one it frees) is number -p.         *)
(***************************************************************************)
EXTENDS Kmem, Sequences

CONSTANTS
  initproc,
  PGSIZE,
  MAXVP,       \* bound: user pages an address space may have
  TopNode,     \* pages every process needs besides its user memory: the
               \* trapframe, the root table, the tables of the trampoline
  TRAPFRAME,   \* the one of them that exec keeps
  NodesOf,     \* NodesOf[v]: the page-table pages below the root that walk
               \* passes on the way to the PTE of user page v
  EXECIMAGE,   \* the pages of the program exec loads: "text", "data" (also
               \* the stack) or "guard"; <<>> if nothing is exec'd
  StoreAddrs, SbrkArgs, CopyoutArgs, WaitAddrs  \* inputs of user programs

VPage == 0..(MAXVP - 1)
Node  == TopNode \cup UNION {NodesOf[v] : v \in VPage}
Space == Proc \cup {-p : p \in Proc}

(* What a page holds: the mark of the process that last wrote it, or one   *)
(* of these.  kalloc and kfree both fill with Junk.                        *)
Zero  == 0
Junk  == -1
Image == -2
Val   == Proc \cup {Zero, Junk, Image}

(* A leaf PTE; pa = NULL is PTE_V = 0.  PTE_R and PTE_X play no part.      *)
PTE == [pa : PA \cup {NULL}, w : BOOLEAN, u : BOOLEAN, cow : BOOLEAN]
NoPTE == [pa |-> NULL, w |-> FALSE, u |-> FALSE, cow |-> FALSE]

ASSUME ProcAssumption ==
  /\ IsFiniteSet(Proc) /\ Proc \subseteq Nat \ {0} /\ initproc \in Proc
  /\ NULL \notin Space
  /\ 3 * Cardinality(Proc) < REFMOD   \* NPROC = 64, and refer_count is a uint8

ASSUME ValAssumption == NULL \notin Val

ASSUME SizeAssumption == PGSIZE \in Nat \ {0} /\ MAXVP \in Nat \ {0}

ASSUME NodeAssumption ==
  /\ IsFiniteSet(TopNode) /\ TRAPFRAME \in TopNode
  /\ \A v \in VPage : IsFiniteSet(NodesOf[v]) /\ NodesOf[v] \cap TopNode = {}

ASSUME InputAssumption ==
  /\ EXECIMAGE \in Seq({"text", "data", "guard"}) /\ Len(EXECIMAGE) <= MAXVP
  /\ StoreAddrs \subseteq 0..(MAXVP * PGSIZE - 1)
  /\ WaitAddrs \subseteq 0..(MAXVP * PGSIZE - 1)
  /\ CopyoutArgs \subseteq Nat \X (Nat \ {0})
  /\ SbrkArgs \subseteq Int

VARIABLES
  leaf,       \* leaf[s][v]: the PTE of user page v in space s
  tabs,       \* tabs[s][x]: the page allocated for node x of space s
  sz,         \* p->sz, in bytes
  content,    \* what each physical page holds
  state,      \* p->state; "RUNNABLE" stands for every live state
  parent,     \* p->parent
  wait_lock,  \* the process holding wait_lock
  th          \* th[p]: where p's thread is and the locals it will use

space == <<leaf, tabs, sz>>
procs == <<state, parent, wait_lock>>
vars  == <<kmem, content, space, procs, th>>

(* pc: place in the code; op: the call being served; np: the space worked  *)
(* on; i, n: the page of a loop and its limit; newsz: new p->sz; mem: a    *)
(* page in hand, in no page table.                                         *)
Idle == [pc |-> "none", op |-> "none", np |-> NULL, i |-> 0, n |-> 0,
         newsz |-> 0, mem |-> NULL]
User == [Idle EXCEPT !.pc = "user"]

Running(p, pc) == th[p].pc = pc /\ freeing[p] = NULL

(* PGROUNDUP(x) / PGSIZE: the pages that x bytes take. *)
Pages(x) == (x + PGSIZE - 1) \div PGSIZE
Page(a)  == a \div PGSIZE

Missing(s, S) == {x \in S : tabs[s][x] = NULL}

(* walk(s, v, 0) # 0 *)
walk(s, v) == Missing(s, NodesOf[v]) = {}

(* walk(.., alloc=1) and proc_pagetable: one missing page-table page. *)
walk_alloc(s, S) ==
  \E pa \in PA :
    /\ kalloc(pa)
    /\ tabs' = [tabs EXCEPT ![s][CHOOSE x \in Missing(s, S) : TRUE] = pa]

(* A PTE that stores may go through. *)
Writable(e) == e.pa # NULL /\ e.w /\ e.u

(* A call that was building space np gives up: sbrk takes off the pages it *)
(* added, fork and exec free the whole new space.                          *)
Undo(p) ==
  LET t == th[p]
      k == IF t.op = "sbrk"
           THEN [t EXCEPT !.pc = "uvmdealloc", !.i = Pages(sz[p]), !.n = t.i]
           ELSE [t EXCEPT !.pc = "uvmfree", !.i = 0, !.n = t.i]
  IN  th' = [th EXCEPT ![p] = [k EXCEPT !.mem = NULL]]

-----------------------------------------------------------------------------
(* Boot: kinit has put every page on the free list, and userinit is about  *)
(* to build the first process.                                             *)

Init ==
  /\ freelist = PA
  /\ refer_count = [pa \in PA |-> 0]
  /\ freeing = [p \in Proc |-> NULL]
  /\ content = [pa \in PA |-> Junk]
  /\ leaf = [s \in Space |-> [v \in VPage |-> NoPTE]]
  /\ tabs = [s \in Space |-> [x \in Node |-> NULL]]
  /\ sz = [p \in Proc |-> 0]
  /\ state = [p \in Proc |-> IF p = initproc THEN "USED" ELSE "UNUSED"]
  /\ parent = [p \in Proc |-> NULL]
  /\ wait_lock = NULL
  /\ th = [p \in Proc |-> IF p = initproc
             THEN [Idle EXCEPT !.pc = "proc_pagetable", !.op = "userinit",
                               !.np = p, !.n = 1, !.newsz = PGSIZE]
             ELSE Idle]

-----------------------------------------------------------------------------
(* Stores and the store page fault.                                        *)

(* A user store the hardware lets through. *)
Store(p, a) ==
  /\ Running(p, "user") /\ Writable(leaf[p][Page(a)])
  /\ content' = [content EXCEPT ![leaf[p][Page(a)].pa] = p]
  /\ UNCHANGED <<kmem, space, procs, th>>

(* usertrap, scause 15: above p->sz it is an ordinary page fault. *)
StorePageFault(p, a) ==
  /\ Running(p, "user") /\ ~Writable(leaf[p][Page(a)])
  /\ th' = [th EXCEPT ![p] = IF a > sz[p]
              THEN [User EXCEPT !.pc = "exit"]
              ELSE [User EXCEPT !.pc = "is_cowpage", !.op = "trap", !.i = Page(a)]]
  /\ UNCHANGED <<kmem, content, space, procs>>

(* The instruction that faulted is executed again. *)
Retry(p) ==
  LET e == leaf[p][th[p].i]
  IN  /\ Running(p, "retry")
      /\ IF Writable(e)
         THEN /\ content' = [content EXCEPT ![e.pa] = p]
              /\ th' = [th EXCEPT ![p] = User]
         ELSE /\ th' = [th EXCEPT ![p].pc = "is_cowpage"]
              /\ UNCHANGED content
      /\ UNCHANGED <<kmem, space, procs>>

(* is_cowpage reads through the pointer walk returns, which must not be 0. *)
is_cowpage(p) ==
  /\ Running(p, "is_cowpage") /\ walk(p, th[p].i)
  /\ th' = [th EXCEPT ![p] = IF leaf[p][@.i].cow
              THEN [@ EXCEPT !.pc = "cow_alloc"]
              ELSE [User EXCEPT !.pc = "exit"]]
  /\ UNCHANGED <<kmem, content, space, procs>>

(* cow_alloc returns a page: the trap returns to the store instruction,    *)
(* copyout goes on to memmove.                                             *)
CowDone(t) == [t EXCEPT !.pc = IF t.op = "trap" THEN "retry" ELSE "memmove",
                        !.mem = NULL]

(* Mutant: two users of a page count as one. *)
LastUser_off_by_one(pa) == get_refcount(pa) <= 2
LastUser(pa) == get_refcount(pa) = 1

(* Mutant: the last user of a page does not clear PTE_RSW_COW. *)
Reclaim_keeps_cow(e) == [e EXCEPT !.w = TRUE]
Reclaim(e) == [e EXCEPT !.w = TRUE, !.cow = FALSE]

(* cow_alloc: PTE_W is set in both cases, before any page is allocated. *)
cow_alloc(p) ==
  LET v == th[p].i
      last == LastUser(leaf[p][v].pa)
  IN  /\ Running(p, "cow_alloc")
      /\ leaf' = [leaf EXCEPT ![p][v] = IF last THEN Reclaim(@) ELSE [@ EXCEPT !.w = TRUE]]
      /\ th' = [th EXCEPT ![p] = IF last THEN CowDone(@)
                                 ELSE [@ EXCEPT !.pc = "cow_kalloc"]]
      /\ UNCHANGED <<kmem, content, tabs, sz, procs>>

(* copyout gives up: the call returns -1 and the process lives on. *)
CopyoutFails(p) ==
  /\ wait_lock' = IF th[p].op = "wait" THEN NULL ELSE wait_lock
  /\ th' = [th EXCEPT ![p] = User]

(* cow_alloc returns 0: a trap kills the process, copyout fails. *)
CowFails(p) ==
  IF th[p].op = "trap"
  THEN th' = [th EXCEPT ![p] = [User EXCEPT !.pc = "exit"]] /\ UNCHANGED wait_lock
  ELSE CopyoutFails(p)

cow_kalloc(p) ==
  /\ Running(p, "cow_kalloc")
  /\ \/ /\ \E pa \in PA : /\ kalloc(pa)
                          /\ th' = [th EXCEPT ![p].pc = "cow_copy", ![p].mem = pa]
        /\ UNCHANGED wait_lock
     \/ kalloc_fails /\ CowFails(p)
  /\ UNCHANGED <<content, space, state, parent>>

(* Mutant: the new page is mapped without the memmove. *)
CopyPage_missing(to, from) == UNCHANGED content
CopyPage(to, from) == content' = [content EXCEPT ![to] = content[from]]

(* memmove and mappages: the PTE now names the new page, with the flags    *)
(* read before (PTE_RSW_COW still among them).  The tables exist, so this  *)
(* mappages cannot fail.                                                   *)
cow_copy(p) ==
  LET v == th[p].i
      old == leaf[p][v].pa
  IN  /\ Running(p, "cow_copy")
      /\ CopyPage(th[p].mem, old)
      /\ leaf' = [leaf EXCEPT ![p][v].pa = th[p].mem]
      /\ th' = [th EXCEPT ![p].pc = "cow_kfree", ![p].mem = old]
      /\ UNCHANGED <<kmem, tabs, sz, procs>>

cow_kfree(p) ==
  /\ Running(p, "cow_kfree")
  /\ kfree(p, th[p].mem)
  /\ th' = [th EXCEPT ![p] = CowDone(@)]
  /\ UNCHANGED <<content, space, procs>>

(* Second half of any kfree: memset and push. *)
FinishKfree(p) ==
  /\ kfree_push(p)
  /\ content' = [content EXCEPT ![freeing[p]] = Junk]
  /\ UNCHANGED <<space, procs, th>>

-----------------------------------------------------------------------------
(* copyout, one page per step.                                             *)

(* A system call fills len bytes at dst (read, fstat, pipe...). *)
SysCopyout(p, dst, len) ==
  /\ Running(p, "user")
  /\ th' = [th EXCEPT ![p] = [User EXCEPT !.pc = "copyout", !.op = "read",
              !.i = Page(dst), !.n = Page(dst + len - 1) + 1]]
  /\ UNCHANGED <<kmem, content, space, procs>>

(* wait() goes on to freeproc(pp) for the child c it found. *)
Reap(c) == [User EXCEPT !.pc = "uvmfree", !.op = "wait", !.np = c, !.n = Pages(sz[c])]

CopyoutNext(t) ==
  IF t.i + 1 < t.n THEN [t EXCEPT !.pc = "copyout", !.i = t.i + 1]
  ELSE IF t.op = "wait" THEN Reap(t.np) ELSE User

(* memmove into the page that walkaddr, or cow_alloc, returned. *)
memmove(p) ==
  /\ content' = [content EXCEPT ![leaf[p][th[p].i].pa] = p]
  /\ th' = [th EXCEPT ![p] = CopyoutNext(@)]
  /\ UNCHANGED wait_lock

(* Mutant: copyout does not ask is_cowpage. *)
CopyoutAsksCow_not(e) == FALSE
CopyoutAsksCow(e) == e.cow

(* walkaddr wants a valid user page; nothing asks whether it is writable. *)
copyout(p) ==
  LET v == th[p].i
      ok == v \in VPage /\ leaf[p][v].pa # NULL /\ leaf[p][v].u
  IN  /\ Running(p, "copyout")
      /\ \/ ~ok /\ CopyoutFails(p) /\ UNCHANGED content
         \/ /\ ok /\ CopyoutAsksCow(leaf[p][v])
            /\ th' = [th EXCEPT ![p].pc = "cow_alloc"]
            /\ UNCHANGED <<content, wait_lock>>
         \/ ok /\ ~CopyoutAsksCow(leaf[p][v]) /\ memmove(p)
      /\ UNCHANGED <<kmem, space, state, parent>>

CopyoutCow(p) ==
  /\ Running(p, "memmove") /\ memmove(p)
  /\ UNCHANGED <<kmem, space, state, parent>>

-----------------------------------------------------------------------------
(* fork, and the first process.                                            *)

TopOf(s) == IF s \in Proc THEN TopNode ELSE TopNode \ {TRAPFRAME}

(* fork: allocproc takes an UNUSED slot.  It need not be the first: slots  *)
(* that allocproc has passed may become UNUSED while it looks on.          *)
fork(p) ==
  /\ Running(p, "user")
  /\ \E c \in Proc :
       /\ state[c] = "UNUSED"
       /\ state' = [state EXCEPT ![c] = "USED"]
       /\ th' = [th EXCEPT ![p] = [User EXCEPT !.pc = "proc_pagetable",
                                               !.op = "fork", !.np = c]]
  /\ UNCHANGED <<kmem, content, space, parent, wait_lock>>

(* allocproc's trapframe and proc_pagetable, one page per step.  Boot does *)
(* not run out of memory.                                                  *)
proc_pagetable(p) ==
  LET s == th[p].np
      missing == Missing(s, TopOf(s))
  IN  /\ Running(p, "proc_pagetable")
      /\ \/ missing # {} /\ walk_alloc(s, TopOf(s)) /\ UNCHANGED th
         \/ /\ missing # {} /\ th[p].op # "userinit"
            /\ kalloc_fails /\ Undo(p) /\ UNCHANGED tabs
         \/ /\ missing = {}
            /\ th' = [th EXCEPT ![p].pc =
                        IF th[p].op = "fork" THEN "uvmcopy" ELSE "uvmalloc"]
            /\ UNCHANGED <<kmem, tabs>>
      /\ UNCHANGED <<content, leaf, sz, procs>>

(* uvmcopy on one PTE: a writable page becomes read-only and copy-on-write *)
(* in the parent, whatever happens next.                                   *)
CowPTE(e) == IF e.w THEN [e EXCEPT !.w = FALSE, !.cow = TRUE] ELSE e

(* Mutant: increase_refer came first and is not undone. *)
MappagesFails_counted(p, pa) == freelist = {} /\ increase_refer(pa) /\ Undo(p)
MappagesFails(p, pa) == kalloc_fails /\ Undo(p)

(* uvmcopy, page i: mappages (which may need a page-table page) and then   *)
(* increase_refer.                                                         *)
uvmcopy(p) ==
  LET s == th[p].np
      v == th[p].i
      e == CowPTE(leaf[p][v])
  IN  /\ Running(p, "uvmcopy") /\ v < Pages(sz[p]) /\ leaf[p][v].pa # NULL
      /\ \/ /\ ~walk(s, v) /\ walk_alloc(s, NodesOf[v])
            /\ leaf' = [leaf EXCEPT ![p][v] = e]
            /\ UNCHANGED th
         \/ /\ ~walk(s, v) /\ MappagesFails(p, e.pa)
            /\ leaf' = [leaf EXCEPT ![p][v] = e]
            /\ UNCHANGED tabs
         \/ /\ walk(s, v) /\ leaf[s][v].pa = NULL
            /\ leaf' = [leaf EXCEPT ![p][v] = e, ![s][v] = e]
            /\ increase_refer(e.pa)
            /\ th' = [th EXCEPT ![p].i = v + 1]
            /\ UNCHANGED tabs
      /\ UNCHANGED <<content, sz, procs>>

(* fork ends: the child has its parent, its size, and may run. *)
ForkReturns(p) ==
  LET c == th[p].np
  IN  /\ Running(p, "uvmcopy") /\ th[p].i >= Pages(sz[p])
      /\ wait_lock = NULL
      /\ sz' = [sz EXCEPT ![c] = sz[p]]
      /\ parent' = [parent EXCEPT ![c] = p]
      /\ state' = [state EXCEPT ![c] = "RUNNABLE"]
      /\ th' = [th EXCEPT ![p] = User, ![c] = User]
      /\ UNCHANGED <<kmem, content, leaf, tabs, wait_lock>>

-----------------------------------------------------------------------------
(* exit and wait.                                                          *)

(* A process calls exit, faults on something that is not a store, or is    *)
(* noticed to have been killed.  init never does.                          *)
Leave(p) ==
  /\ Running(p, "user") /\ p # initproc
  /\ th' = [th EXCEPT ![p] = [User EXCEPT !.pc = "exit"]]
  /\ UNCHANGED <<kmem, content, space, procs>>

reparent(p) ==
  parent' = [c \in Proc |-> IF parent[c] = p THEN initproc ELSE parent[c]]

(* exit: children go to init, the memory stays until the parent waits.     *)
(* (If init gets here it panics, and the system stops.)                    *)
exit(p) ==
  /\ Running(p, "exit") /\ p # initproc
  /\ wait_lock = NULL
  /\ reparent(p)
  /\ state' = [state EXCEPT ![p] = "ZOMBIE"]
  /\ th' = [th EXCEPT ![p] = Idle]
  /\ UNCHANGED <<kmem, content, space, wait_lock>>

(* wait(a) finds its first zombie child: copy the status to a unless a is  *)
(* 0, then free the child.                                                 *)
wait(p, a) ==
  /\ Running(p, "user") /\ wait_lock = NULL
  /\ \E c \in Proc :
       /\ parent[c] = p /\ state[c] = "ZOMBIE"
       /\ \A d \in Proc : d < c => ~(parent[d] = p /\ state[d] = "ZOMBIE")
       /\ th' = [th EXCEPT ![p] =
                   IF a = NULL THEN Reap(c)
                   ELSE [User EXCEPT !.pc = "copyout", !.op = "wait", !.np = c,
                                     !.i = Page(a), !.n = Page(a) + 1]]
  /\ wait_lock' = p
  /\ UNCHANGED <<kmem, content, space, state, parent>>

(* uvmunmap(.., do_free = 1), page i: kfree and clear the PTE.  Called by  *)
(* uvmfree and by uvmdealloc.                                              *)
uvmunmap(p) ==
  LET s == th[p].np
      v == th[p].i
  IN  /\ th[p].pc \in {"uvmfree", "uvmdealloc"} /\ freeing[p] = NULL
      /\ v < th[p].n /\ leaf[s][v].pa # NULL
      /\ kfree(p, leaf[s][v].pa)
      /\ leaf' = [leaf EXCEPT ![s][v] = NoPTE]
      /\ th' = [th EXCEPT ![p].i = v + 1]
      /\ UNCHANGED <<content, tabs, sz, procs>>

(* freewalk, and freeproc's trapframe: kfree one page of the table. *)
freewalk(p) ==
  LET s == th[p].np
      there == {x \in Node : tabs[s][x] # NULL}
      x == CHOOSE y \in there : TRUE
  IN  /\ Running(p, "uvmfree") /\ th[p].i >= th[p].n
      /\ there # {}
      /\ kfree(p, tabs[s][x])
      /\ tabs' = [tabs EXCEPT ![s][x] = NULL]
      /\ UNCHANGED <<content, leaf, sz, procs, th>>

(* freeproc ends, in wait or in a fork that failed; or exec is done with   *)
(* the table it dropped.                                                   *)
freeproc(p) ==
  LET s == th[p].np
  IN  /\ Running(p, "uvmfree") /\ th[p].i >= th[p].n
      /\ \A x \in Node : tabs[s][x] = NULL
      /\ IF s \in Proc
         THEN /\ state' = [state EXCEPT ![s] = "UNUSED"]
              /\ parent' = [parent EXCEPT ![s] = NULL]
              /\ sz' = [sz EXCEPT ![s] = 0]
         ELSE UNCHANGED <<state, parent, sz>>
      /\ wait_lock' = IF th[p].op = "wait" THEN NULL ELSE wait_lock
      /\ th' = [th EXCEPT ![p] = User]
      /\ UNCHANGED <<kmem, content, leaf, tabs>>

-----------------------------------------------------------------------------
(* sbrk and exec.                                                          *)

(* growproc(n), n > 0: uvmalloc from PGROUNDUP(sz) up to sz + n. *)
SbrkGrow(p, n) ==
  LET new == sz[p] + n
  IN  /\ Running(p, "user") /\ n > 0
      /\ new <= MAXVP * PGSIZE
      /\ th' = [th EXCEPT ![p] = [User EXCEPT !.pc = "uvmalloc", !.op = "sbrk",
                  !.np = p, !.i = Pages(sz[p]), !.n = Pages(new), !.newsz = new]]
      /\ UNCHANGED <<kmem, content, space, procs>>

(* Mutant: one page too few is freed. *)
DeallocFrom_next(new) == Pages(new) + 1
DeallocFrom(new) == Pages(new)

(* growproc(n), n < 0: uvmdealloc.  (When sz + n wraps below zero it is a  *)
(* huge unsigned number and uvmdealloc changes nothing.)                   *)
SbrkShrink(p, n) ==
  LET new == sz[p] + n
  IN  /\ Running(p, "user") /\ n < 0 /\ new >= 0
      /\ th' = [th EXCEPT ![p] = [User EXCEPT !.pc = "uvmdealloc", !.op = "shrink",
                  !.np = p, !.i = DeallocFrom(new), !.n = Pages(sz[p]), !.newsz = new]]
      /\ UNCHANGED <<kmem, content, space, procs>>

(* exec: a fresh page table for the program image. *)
exec(p) ==
  /\ Running(p, "user") /\ EXECIMAGE # <<>>
  /\ th' = [th EXCEPT ![p] = [User EXCEPT !.pc = "proc_pagetable", !.op = "exec",
              !.np = -p, !.n = Len(EXECIMAGE), !.newsz = Len(EXECIMAGE) * PGSIZE]]
  /\ UNCHANGED <<kmem, content, space, procs>>

Kind(t) == IF t.op = "exec" THEN EXECIMAGE[t.i + 1] ELSE "data"

(* flags2perm, and uvmclear for the page below the stack. *)
NewPTE(t) == [pa |-> t.mem, w |-> Kind(t) # "text", u |-> Kind(t) # "guard",
              cow |-> FALSE]

(* uvmalloc (or uvmfirst), page i: kalloc and clear the page, then         *)
(* mappages, which may need page-table pages first.  loadseg fills it.     *)
uvmalloc(p) ==
  LET t == th[p]
      s == t.np
  IN  /\ Running(p, "uvmalloc") /\ t.i < t.n
      /\ \/ /\ t.mem = NULL
            /\ \E pa \in PA :
                 /\ kalloc(pa)
                 /\ content' = [content EXCEPT ![pa] =
                                  IF t.op = "sbrk" THEN Zero ELSE Image]
                 /\ th' = [th EXCEPT ![p].mem = pa]
            /\ UNCHANGED <<leaf, tabs>>
         \/ /\ t.mem = NULL /\ t.op # "userinit"
            /\ kalloc_fails /\ Undo(p)
            /\ UNCHANGED <<content, leaf, tabs>>
         \/ /\ t.mem # NULL /\ ~walk(s, t.i)
            /\ walk_alloc(s, NodesOf[t.i])
            /\ UNCHANGED <<content, leaf, th>>
         \/ /\ t.mem # NULL /\ ~walk(s, t.i) /\ t.op # "userinit"
            /\ freelist = {} /\ kfree(p, t.mem) /\ Undo(p)
            /\ UNCHANGED <<content, leaf, tabs>>
         \/ /\ t.mem # NULL /\ walk(s, t.i) /\ leaf[s][t.i].pa = NULL
            /\ leaf' = [leaf EXCEPT ![s][t.i] = NewPTE(t)]
            /\ th' = [th EXCEPT ![p].i = t.i + 1, ![p].mem = NULL]
            /\ UNCHANGED <<kmem, content, tabs>>
      /\ UNCHANGED <<sz, procs>>

(* uvmalloc is complete: sbrk and userinit have the size they asked for. *)
UvmallocDone(p) ==
  LET t == th[p]
  IN  /\ Running(p, "uvmalloc") /\ t.i >= t.n /\ t.op # "exec"
      /\ sz' = [sz EXCEPT ![p] = t.newsz]
      /\ state' = [state EXCEPT ![p] = "RUNNABLE"]
      /\ th' = [th EXCEPT ![p] = User]
      /\ UNCHANGED <<kmem, content, leaf, tabs, parent, wait_lock>>

(* uvmdealloc is complete: a shrink gets its new size, a failed grow keeps *)
(* the old one.                                                            *)
UvmdeallocDone(p) ==
  LET t == th[p]
  IN  /\ Running(p, "uvmdealloc") /\ t.i >= t.n
      /\ sz' = IF t.op = "shrink" THEN [sz EXCEPT ![p] = t.newsz] ELSE sz
      /\ th' = [th EXCEPT ![p] = User]
      /\ UNCHANGED <<kmem, content, leaf, tabs, procs>>

(* Mutant: the old table keeps the trapframe page. *)
OldTable_with_trapframe(p) == tabs[p]
OldPages(p) == Pages(sz[p])
OldTable(p) == [tabs[p] EXCEPT ![TRAPFRAME] = NULL]

(* exec commits to the new image: the page tables change places, only the  *)
(* trapframe stays, and the old table is freed.                            *)
ExecCommit(p) ==
  LET t == th[p]
      keep == tabs[p][TRAPFRAME]
  IN  /\ Running(p, "uvmalloc") /\ t.i >= t.n /\ t.op = "exec"
      /\ leaf' = [leaf EXCEPT ![p] = leaf[-p], ![-p] = leaf[p]]
      /\ tabs' = [tabs EXCEPT ![p] = [tabs[-p] EXCEPT ![TRAPFRAME] = keep],
                              ![-p] = OldTable(p)]
      /\ sz' = [sz EXCEPT ![p] = t.newsz]
      /\ th' = [th EXCEPT ![p] = [t EXCEPT !.pc = "uvmfree", !.i = 0, !.n = OldPages(p)]]
      /\ UNCHANGED <<kmem, content, procs>>

-----------------------------------------------------------------------------
(* A step inside the kernel, which always goes on. *)
Kernel(p) ==
  \/ Retry(p) \/ is_cowpage(p) \/ cow_alloc(p) \/ cow_kalloc(p) \/ cow_copy(p) \/ cow_kfree(p)
  \/ FinishKfree(p) \/ copyout(p) \/ CopyoutCow(p)
  \/ proc_pagetable(p) \/ uvmcopy(p) \/ ForkReturns(p) \/ exit(p)
  \/ uvmunmap(p) \/ freewalk(p) \/ freeproc(p)
  \/ uvmalloc(p) \/ UvmallocDone(p) \/ UvmdeallocDone(p) \/ ExecCommit(p)

(* What user code does next. *)
UserCode(p) ==
  \/ \E a \in StoreAddrs : Store(p, a) \/ StorePageFault(p, a)
  \/ \E b \in CopyoutArgs : SysCopyout(p, b[1], b[2])
  \/ \E a \in WaitAddrs \cup {NULL} : wait(p, a)
  \/ \E n \in SbrkArgs : SbrkGrow(p, n) \/ SbrkShrink(p, n)
  \/ fork(p) \/ Leave(p) \/ exec(p)

Next == \E p \in Proc : Kernel(p) \/ UserCode(p)

(* A hart in the kernel keeps executing. *)
Spec == Init /\ [][Next]_vars /\ \A p \in Proc : WF_vars(Kernel(p))

-----------------------------------------------------------------------------
(* Properties.                                                             *)

LeafRefs(pa) == {r \in Space \X VPage : leaf[r[1]][r[2]].pa = pa}
TabRefs(pa)  == {r \in Space \X Node : tabs[r[1]][r[2]] = pa}
MemRefs(pa)  == {p \in Proc : th[p].mem = pa}

Thread ==
  [pc : {"none", "user", "retry", "exit", "is_cowpage", "cow_alloc", "cow_kalloc",
         "cow_copy", "cow_kfree", "copyout", "memmove", "proc_pagetable",
         "uvmcopy", "uvmfree", "uvmdealloc", "uvmalloc"},
   op : {"none", "trap", "read", "wait", "fork", "userinit", "sbrk", "shrink", "exec"},
   np : Space \cup {NULL}, i : Nat, n : Nat, newsz : 0..(MAXVP * PGSIZE),
   mem : PA \cup {NULL}]

(* Every variable of the kernel and of its threads has its type. *)
TypeOK ==
  /\ freelist \subseteq PA
  /\ refer_count \in [PA -> 0..(REFMOD - 1)]
  /\ freeing \in [Proc -> PA \cup {NULL}]
  /\ content \in [PA -> Val]
  /\ leaf \in [Space -> [VPage -> PTE]]
  /\ tabs \in [Space -> [Node -> PA \cup {NULL}]]
  /\ sz \in [Proc -> 0..(MAXVP * PGSIZE)]
  /\ state \in [Proc -> {"UNUSED", "USED", "RUNNABLE", "ZOMBIE"}]
  /\ parent \in [Proc -> Proc \cup {NULL}]
  /\ wait_lock \in Proc \cup {NULL}
  /\ th \in [Proc -> Thread]

(* refer_count[pa] is the number of PTEs, page-table slots and kernel      *)
(* locals that hold page pa, in every state: kalloc, increase_refer and    *)
(* kfree keep the count exact through every interleaving of faults, forks, *)
(* failed forks, exits and frees, and it never wraps.                      *)
RefcountExact ==
  \A pa \in PA : refer_count[pa] = Cardinality(LeafRefs(pa))
                   + Cardinality(TabRefs(pa)) + Cardinality(MemRefs(pa))

(* A page is on the free list, or between the two halves of one kfree, or  *)
(* in use: exactly one of the three.  No page is lost and none is freed    *)
(* twice, although kfree lets go of kmem.lock half-way.                    *)
EveryPageAccounted ==
  \A pa \in PA :
    LET pushers == {p \in Proc : freeing[p] = pa}
    IN  IF refer_count[pa] > 0 THEN pa \notin freelist /\ pushers = {}
        ELSE IF pa \in freelist THEN pushers = {}
        ELSE \E p \in Proc : pushers = {p}

(* A page that serves as a page table or trapframe has that one use: it is *)
(* mapped in no address space and belongs to one table.                    *)
TablesAreNotShared ==
  \A pa \in PA : TabRefs(pa) # {} =>
    Cardinality(TabRefs(pa)) = 1 /\ LeafRefs(pa) = {} /\ MemRefs(pa) = {}

(* While a process runs user code, a page it can store to is mapped        *)
(* nowhere else: cow_alloc made it private.                                *)
WritableIsPrivate ==
  \A p \in Proc, v \in VPage :
    th[p].pc \in {"user", "retry"} /\ Writable(leaf[p][v])
      => LeafRefs(leaf[p][v].pa) = {<<p, v>>}

(* None of vm.c's panics is reached: uvmcopy finds every page below p->sz, *)
(* mappages never remaps, uvmunmap finds what it unmaps, and freewalk      *)
(* meets no leaf, so size and page table always agree.                     *)
NoVmPanic ==
  \A p \in Proc :
    LET t == th[p]
        mapped(s, v) == leaf[s][v].pa # NULL
    IN  /\ t.pc = "uvmcopy" /\ t.i < Pages(sz[p])
             => mapped(p, t.i) /\ ~mapped(t.np, t.i)
        /\ t.pc \in {"uvmfree", "uvmdealloc"} /\ t.i < t.n => mapped(t.np, t.i)
        /\ t.pc = "uvmalloc" /\ t.i < t.n => ~mapped(t.np, t.i)
        /\ t.pc = "uvmfree" /\ t.i >= t.n => \A v \in VPage : ~mapped(t.np, v)

(* Every store page fault ends: the store is done, or the process is on    *)
(* its way out.  In particular a store to the guard page below the stack,  *)
(* which fork marks copy-on-write and cow_alloc happily copies, does not   *)
(* fault for ever.                                                         *)
FaultsEnd ==
  \A p \in Proc : th[p].op = "trap" ~> th[p].pc \in {"user", "exit"}

(* The memory a process sees.  A zombie sees none; pages above the new     *)
(* size are gone as soon as sbrk starts to unmap them.                     *)
View ==
  [p \in Proc |-> [v \in VPage |->
     LET size == IF th[p].pc = "uvmdealloc" /\ th[p].op = "shrink"
                 THEN th[p].newsz ELSE sz[p]
     IN  IF state[p] = "RUNNABLE" /\ v < Pages(size)
         THEN content[leaf[p][v].pa] ELSE NULL]]

PM == INSTANCE PrivateMem WITH mem <- View, Gone <- NULL

(* Sharing pages is invisible: the system behaves as if fork had copied    *)
(* every page, so no process ever sees another one's stores.               *)
PrivateMemory == PM!Spec
=============================================================================
