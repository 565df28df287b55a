----------------------------- MODULE PrivateMem -----------------------------
(***************************************************************************)
(* What fork, exec, sbrk and exit promise a program about its memory: each *)
(* process has a memory of its own.  fork gives the child a copy of the    *)
(* parent's pages (the comment on uvmcopy: "Copies both the page table and *)
(* the physical memory"), and from then on a store, or a system call that  *)
(* fills a buffer, changes the memory of the calling process and nobody    *)
(* else's.  Module Cow, which shares pages, is shown to implement this.    *)
(***************************************************************************)
EXTENDS Integers

CONSTANTS Proc, VPage,
          Zero, Image,  \* contents of a fresh page and of a page exec loads
          Gone          \* the page is not part of the address space

VARIABLE mem            \* mem[p][v]: what process p reads from its page v

Empty == [v \in VPage |-> Gone]

Init == mem = [p \in Proc |-> Empty]

(* Process p puts its own mark on its page v. *)
Write(p, v) ==
  /\ mem[p][v] # Gone
  /\ mem' = [mem EXCEPT ![p][v] = p]

Fork(p, c) ==
  /\ mem[c] = Empty
  /\ mem' = [mem EXCEPT ![c] = mem[p]]

(* sbrk: keep the pages below n, add zeroed ones, drop the others. *)
Resize(p, n) ==
  mem' = [mem EXCEPT ![p] = [v \in VPage |->
            IF v >= n THEN Gone ELSE IF @[v] = Gone THEN Zero ELSE @[v]]]

(* exec, or the first program: n pages of a program image. *)
Exec(p, n) ==
  mem' = [mem EXCEPT ![p] = [v \in VPage |-> IF v < n THEN Image ELSE Gone]]

Exit(p) == mem' = [mem EXCEPT ![p] = Empty]

Next ==
  \E p \in Proc :
    \/ \E v \in VPage : Write(p, v)
    \/ \E c \in Proc : Fork(p, c)
    \/ \E n \in VPage \cup {0} : Resize(p, n + 1) \/ Resize(p, n) \/ Exec(p, n + 1)
    \/ Exit(p)

Spec == Init /\ [][Next]_mem
=============================================================================
