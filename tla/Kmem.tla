-------------------------------- MODULE Kmem --------------------------------
(***************************************************************************)
(* The physical page allocator of kernel/kalloc.c: the free list and the   *)
(* one-byte reference counts that copy-on-write fork adds to it, both      *)
(* protected by kmem.lock.                                                 *)
(*                                                                         *)
(* Every operator below is ONE critical section of kmem.lock, so a kfree   *)
(* that drops the last reference is two of them, with the memset between:  *)
(* freeing[p] is the page kernel thread p has counted down to zero and not *)
(* yet pushed on the list.  The order of the list makes no difference to   *)
(* any property (pages are interchangeable), so the list is a set and Pick *)
(* names the page that is at its head.                                     *)
(***************************************************************************)
EXTENDS Integers, FiniteSets

CONSTANTS PA,       \* the physical pages between end and PHYSTOP
          Proc,     \* the slots of proc[], one kernel thread each
          REFMOD,   \* 2^width of a refer_count entry (256: uint8)
          Pick(_),  \* the head of the free list
          NULL

ASSUME KmemAssumption ==
  /\ IsFiniteSet(PA)
  /\ NULL \notin PA
  /\ REFMOD \in Nat \ {0, 1}
  /\ \A S \in SUBSET PA : S # {} => Pick(S) \in S

VARIABLES freelist, refer_count, freeing

kmem == <<freelist, refer_count, freeing>>

(* kalloc() takes page pa off the free list and starts its count at one.   *)
kalloc(pa) ==
  /\ freelist # {}
  /\ pa = Pick(freelist)
  /\ freelist' = freelist \ {pa}
  /\ refer_count' = [refer_count EXCEPT ![pa] = 1]
  /\ UNCHANGED freeing

(* kalloc() finds the list empty and returns 0. *)
kalloc_fails == freelist = {} /\ UNCHANGED kmem

(* Mutant: the early return for a page that is still in use is missing. *)
kfree_no_return(p, pa) ==
  /\ refer_count' = [refer_count EXCEPT ![pa] = (@ + REFMOD - 1) % REFMOD]
  /\ freeing' = [freeing EXCEPT ![p] = pa]
  /\ UNCHANGED freelist

(* First critical section of kfree(pa) by thread p: count one reference    *)
(* down, modulo the width of the counter.  Only the thread that reaches    *)
(* zero goes on to free the page.                                          *)
kfree(p, pa) ==
  LET n == (refer_count[pa] + REFMOD - 1) % REFMOD
  IN  /\ refer_count' = [refer_count EXCEPT ![pa] = n]
      /\ freeing' = IF n > 0 THEN freeing ELSE [freeing EXCEPT ![p] = pa]
      /\ UNCHANGED freelist

(* Second critical section of kfree: push the page. *)
kfree_push(p) ==
  /\ freeing[p] # NULL
  /\ freelist' = freelist \cup {freeing[p]}
  /\ freeing' = [freeing EXCEPT ![p] = NULL]
  /\ UNCHANGED refer_count

increase_refer(pa) ==
  /\ refer_count' = [refer_count EXCEPT ![pa] = (@ + 1) % REFMOD]
  /\ UNCHANGED <<freelist, freeing>>

get_refcount(pa) == refer_count[pa]
=============================================================================
