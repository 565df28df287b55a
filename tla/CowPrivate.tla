----------------------------- MODULE CowPrivate -----------------------------
(***************************************************************************)
(* Sharing pages is invisible: ViewInv of CowInv is kept by every step,    *)
(* which is a step of PrivateMem or not seen at all, while copyout is      *)
(* served.                                                                 *)
(***************************************************************************)
EXTENDS CowSizes

-----------------------------------------------------------------------------
(* What a process sees.                                                    *)

(* What View shows of page v of process p. *)
Seen(p, v) ==
  /\ state[p] = "RUNNABLE"
  /\ v < Pages(IF th[p].pc = "uvmdealloc" THEN Keeps(th[p], sz[p]) ELSE sz[p])
See(p, v) == IF Seen(p, v) THEN content[leaf[p][v].pa] ELSE NULL

(* View, page by page. *)
LEMMA ViewIs ==
  ASSUME NEW p \in Proc, NEW v \in VPage
  PROVE  View[p][v] = See(p, v)
  BY Zenon DEF View, See, Seen, Keeps

(* A page that a process sees is mapped. *)
LEMMA SeenMapped ==
  ASSUME ThreadInv, SizeInv, ViewInv, NEW p \in Proc, NEW v \in VPage, Seen(p, v)
  PROVE  leaf[p][v].pa \in PA
<1>1. p \in Space /\ leaf[p][v] \in PTE /\ p \in Nat \ {0}
  BY ProcAssumption DEF ThreadInv, TypeOK, Space
<1>2. SUFFICES leaf[p][v].pa # NULL
  BY <1>1, Zenon DEF PTE
<1>3. ASSUME NEW q \in Proc PROVE Target(q, th[q]) /\ LiveThread(q) /\ q \in Nat \ {0}
  BY ProcAssumption, Zenon DEF ThreadInv, ViewInv, ThreadSees
<1>4. state[p] = "RUNNABLE"
  BY Zenon DEF Seen
<1>5. CASE Worked(p)
  <2>1. PICK q \in Proc : Works(th[q]) /\ th[q].np = p
    BY <1>5, Zenon DEF Worked
  <2>2. th[q].op \in {"fork", "userinit", "exec", "sbrk", "wait", "shrink"} /\ th[q].pc # "none"
    BY <2>1, WorksFor, Zenon DEF Works
  <2>3. q = p /\ th[p].op \in {"sbrk", "shrink"}
    BY <1>1, <1>3, <1>4, <2>1, <2>2 DEF Target, LiveThread
  <2>4. /\ LoopBounds(th[p], sz[p]) /\ PartMapped(th[p], sz[p], leaf[p])
    BY <2>1, <2>3, Zenon DEF SizeInv
  <2>5. th[p].pc \in {"uvmalloc", "uvmdealloc"}
    BY <2>1, <2>3, WorksFor, Zenon DEF Works
  <2>6. CASE th[p].pc = "uvmalloc"
    <3>1. v < Pages(sz[p]) /\ Pages(sz[p]) <= th[p].i /\ th[p].op = "sbrk"
      BY <2>3, <2>4, <2>6, WorksFor, Zenon DEF Seen, LoopBounds
    <3>2. v < th[p].i
      BY <3>1, PagesNat DEF VPage
    <3> QED
      BY <2>4, <2>6, <3>2, Zenon DEF PartMapped
  <2>7. CASE th[p].pc = "uvmdealloc"
    BY <2>4, <2>7, Zenon DEF PartMapped, Seen
  <2> QED
    BY <2>5, <2>6, <2>7, Zenon
<1>6. CASE ~Worked(p)
  <2>1. th[p].pc # "uvmdealloc"
    <3>1. SUFFICES ASSUME th[p].pc = "uvmdealloc" PROVE FALSE
      OBVIOUS
    <3>2. th[p].op \in {"sbrk", "shrink"} /\ Works(th[p])
      BY <3>1, WorksFor, Zenon DEF Works
    <3> QED
      BY <1>3, <1>6, <3>2, Zenon DEF Target, Worked
  <2>2. AllMapped(leaf[p], sz[p])
    BY <1>1, <1>6, Zenon DEF SizeInv, SizeOf
  <2> QED
    BY <2>1, <2>2, Zenon DEF AllMapped, Seen
<1> QED
  BY <1>5, <1>6, Zenon

-----------------------------------------------------------------------------
(* What a step of one thread leaves to the others.                         *)

(* Nothing that process q depends on changes. *)
SameContent(x) == x \in PA => content'[x] = content[x]
Untouched(q) ==
  /\ th'[q] = th[q] /\ state'[q] = state[q] /\ sz'[q] = sz[q]
  /\ leaf'[q] = leaf[q] \/ (th[q] = Idle /\ state[q] # "RUNNABLE")
  /\ Works(th[q]) => leaf'[th[q].np] = leaf[th[q].np]
  /\ \A v \in VPage : SameContent(leaf[q][v].pa)
  /\ th[q].pc = "uvmalloc" => /\ SameContent(th[q].mem)
                              /\ \A v \in VPage : SameContent(leaf[th[q].np][v].pa)

(* Such a process keeps its part of the invariant and its view. *)
LEMMA UntouchedSees ==
  ASSUME ThreadInv, SizeInv, ViewInv, NEW q \in Proc, Untouched(q)
  PROVE  ThreadSees(q)' /\ \A v \in VPage : See(q, v)' = See(q, v)
<1>1. th'[q] = th[q] /\ state'[q] = state[q] /\ sz'[q] = sz[q]
  BY Zenon DEF Untouched
<1>2. ThreadSees(q) /\ th[q] \in Thread
  BY Zenon DEF ViewInv, ThreadInv, TypeOK
<1>3. CASE th[q] = Idle /\ state[q] # "RUNNABLE"
  <2>1. th'[q].pc = "none"
    BY <1>1, <1>3, UserIs, Zenon
  <2>2. ThreadSees(q)'
    BY <2>1, Zenon DEF ThreadSees, CowSetsW, LiveThread, ForkShares, FreshContent
  <2>3. \A v \in VPage : ~Seen(q, v) /\ ~Seen(q, v)'
    BY <1>1, <1>3, Zenon DEF Seen
  <2> QED
    BY <2>2, <2>3, Zenon DEF See
<1>4. CASE leaf'[q] = leaf[q]
  <2>1. CowSetsW(q)' /\ LiveThread(q)'
    BY <1>1, <1>2, <1>4, Zenon DEF ThreadSees, CowSetsW, LiveThread
  <2>2. ForkShares(q)'
    <3>1. SUFFICES ASSUME th[q].pc = "uvmcopy" PROVE ForkShares(q)'
      BY <1>1, Zenon DEF ForkShares
    <3>2. leaf'[th[q].np] = leaf[th[q].np]
      BY <3>1, Zenon DEF Works, Untouched
    <3> QED
      BY <1>1, <1>2, <1>4, <3>2, Zenon DEF ThreadSees, ForkShares
  <2>3. FreshContent(q)'
    <3>1. SUFFICES ASSUME th[q].pc = "uvmalloc" PROVE FreshContent(q)'
      BY <1>1, Zenon DEF FreshContent
    <3>2. PICK s \in Space : s = th[q].np
      BY <3>1, WorksFor, Zenon DEF Works
    <3>3. leaf'[s] = leaf[s] /\ Works(th[q]) /\ leaf[s] \in [VPage -> PTE]
      BY <3>1, <3>2, Zenon DEF Works, Untouched, ThreadInv, TypeOK
    <3>4. th[q].mem # NULL => content'[th[q].mem] = NewContent(th[q].op)
      <4>1. th[q].mem # NULL => th[q].mem \in PA
        BY <1>2, Zenon DEF Thread
      <4> QED
        BY <1>2, <3>1, <4>1, Zenon DEF ThreadSees, FreshContent, Untouched, SameContent
    <3>5. ASSUME NEW v \in VPage, v < th[q].i, th[q].op = "sbrk" => Pages(sz[q]) <= v
          PROVE  content'[leaf[s][v].pa] = NewContent(th[q].op)
      <4>1. content[leaf[s][v].pa] = NewContent(th[q].op)
        BY <1>2, <3>1, <3>2, <3>5, Zenon DEF ThreadSees, FreshContent
      <4>2. PartMapped(th[q], sz[q], leaf[s])
        BY <3>2, <3>3, Zenon DEF SizeInv
      <4>3. leaf[s][v].pa # NULL
        BY <3>1, <3>5, <4>2, Zenon DEF PartMapped
      <4>4. leaf[s][v].pa \in PA
        BY <3>3, <4>3, Zenon DEF PTE
      <4> QED
        BY <3>1, <3>2, <4>1, <4>4, Zenon DEF Untouched, SameContent
    <3> QED
      BY <1>1, <3>2, <3>3, <3>4, <3>5, Zenon DEF FreshContent
  <2>4. ASSUME NEW v \in VPage PROVE See(q, v)' = See(q, v)
    <3>1. Seen(q, v)' <=> Seen(q, v)
      BY <1>1, Zenon DEF Seen
    <3>2. Seen(q, v) => content'[leaf[q][v].pa] = content[leaf[q][v].pa]
      BY SeenMapped, Zenon DEF Untouched, SameContent
    <3> QED
      BY <1>4, <3>1, <3>2, Zenon DEF See
  <2> QED
    BY <2>1, <2>2, <2>3, <2>4, Zenon DEF ThreadSees
<1> QED
  BY <1>3, <1>4, Zenon DEF Untouched

(* Pages that only p refers to. *)
Mine(p, x) ==
  /\ \A s \in Space, v \in VPage : leaf[s][v].pa = x => s = p
  /\ \A q \in Proc : q # p /\ th[q].pc = "uvmalloc" => th[q].mem # x
WritesMine(p) == \A x \in PA : content'[x] = content[x] \/ Mine(p, x)

(* Spaces that p does not work on stay. *)
Elsewhere(p) ==
  \A s \in Space : s # p /\ s # -p /\ ~(Works(th[p]) /\ s = th[p].np) => leaf'[s] = leaf[s]

OthersStay(p) ==
  \A q \in Proc : q # p => th'[q] = th[q] /\ state'[q] = state[q] /\ sz'[q] = sz[q]

(* A thread that changes only its own spaces and pages touches no other. *)
LEMMA Untouch ==
  ASSUME ThreadInv, NEW p \in Proc, th[p].pc # "none", Elsewhere(p), WritesMine(p),
         NEW q \in Proc, q # p,
         th'[q] = th[q], state'[q] = state[q], sz'[q] = sz[q]
  PROVE  Untouched(q)
<1>1. /\ Target(p, th[p]) /\ DeadIsIdle /\ q \in Space /\ p \in Nat \ {0} /\ q \in Nat \ {0}
      /\ Target(q, th[q])
  BY ProcAssumption, Zenon DEF ThreadInv, Space
<1>2. leaf'[q] = leaf[q] \/ (th[q] = Idle /\ state[q] # "RUNNABLE")
  <2>1. q # -p
    BY <1>1
  <2>2. CASE Works(th[p]) /\ th[p].np = q
    <3>1. th[p].op \in {"fork", "userinit", "exec", "sbrk", "wait", "shrink"}
      BY <2>2, WorksFor, Zenon DEF Works
    <3>2. th[q] = Idle /\ state[q] # "RUNNABLE"
      BY <1>1, <2>1, <2>2, <3>1, Zenon DEF Target, DeadIsIdle
    <3> QED
      BY <3>2, Zenon
  <2> QED
    BY <1>1, <2>1, <2>2, Zenon DEF Elsewhere
<1>3. Works(th[q]) => /\ th[q].np \in Space /\ th[q].np # p /\ th[q].np # -p
                      /\ ~(Works(th[p]) /\ th[q].np = th[p].np)
  BY Apart, WorksFor, Zenon
<1>4. ASSUME NEW s \in Space, s # p, NEW v \in VPage PROVE SameContent(leaf[s][v].pa)
  BY <1>4, Zenon DEF WritesMine, Mine, SameContent
<1>5. th[q].pc = "uvmalloc" => SameContent(th[q].mem) /\ Works(th[q])
  BY Zenon DEF WritesMine, Mine, SameContent, Works
<1> QED
  BY <1>1, <1>2, <1>3, <1>4, <1>5, Zenon DEF Untouched, Elsewhere

(* What is left to show of a step of p that may also change the state of   *)
(* the process c.                                                          *)
OthersStayBut(p, c) ==
  \A q \in Proc : q # p /\ q # c => th'[q] = th[q] /\ state'[q] = state[q] /\ sz'[q] = sz[q]
LEMMA TwoStep ==
  ASSUME ThreadInv, SizeInv, ViewInv, NEW p \in Proc, NEW c \in Proc, th[p].pc # "none",
         OthersStayBut(p, c), Elsewhere(p), WritesMine(p),
         PrivateWhenWritable', ThreadSees(p)', ThreadSees(c)'
  PROVE  ViewInv' /\ \A q \in Proc, v \in VPage : q # p /\ q # c => See(q, v)' = See(q, v)
<1>1. ASSUME NEW q \in Proc, q # p, q # c
      PROVE  ThreadSees(q)' /\ \A v \in VPage : See(q, v)' = See(q, v)
  BY <1>1, Untouch, UntouchedSees, Zenon DEF OthersStayBut
<1> QED
  BY <1>1, Zenon DEF ViewInv

(* What is left to show when nothing of another process changes. *)
LEMMA OwnStep ==
  ASSUME ThreadInv, SizeInv, ViewInv, NEW p \in Proc, th[p].pc # "none",
         OthersStay(p), Elsewhere(p), WritesMine(p), PrivateWhenWritable', ThreadSees(p)'
  PROVE  ViewInv' /\ \A q \in Proc, v \in VPage : q # p => See(q, v)' = See(q, v)
<1>1. OthersStayBut(p, p)
  BY Zenon DEF OthersStay, OthersStayBut
<1> QED
  BY <1>1, TwoStep, Zenon

(* A process that does not run, before or after, sees nothing. *)
LEMMA DeadSees ==
  ASSUME NEW q \in Proc, th[q] = Idle, th'[q] = Idle,
         state[q] # "RUNNABLE", state'[q] # "RUNNABLE"
  PROVE  ThreadSees(q)' /\ \A v \in VPage : See(q, v)' = See(q, v)
<1>1. th'[q].pc = "none"
  BY UserIs, Zenon
<1>2. ThreadSees(q)'
  BY <1>1, Zenon DEF ThreadSees, CowSetsW, LiveThread, ForkShares, FreshContent
<1>3. \A v \in VPage : ~Seen(q, v) /\ ~Seen(q, v)'
  BY Zenon DEF Seen
<1> QED
  BY <1>2, <1>3, Zenon DEF See

(* A page is excused no longer only if it is not mapped. *)
StillExcused(p) ==
  \A v \in VPage : Excused(p, v) /\ leaf[p][v].pa # NULL => Excused(p, v)'

(* A process that stays as it is keeps its excuse. *)
LEMMA SameExcused ==
  ASSUME NEW q \in Proc, th'[q] = th[q], state'[q] = state[q]
  PROVE  StillExcused(q)
  BY Zenon DEF StillExcused, Excused

(* No page is mapped anew, no page becomes writable. *)
LEMMA StillPrivate ==
  ASSUME PrivateWhenWritable, \A q \in Proc : StillExcused(q),
         \A s \in Space, v \in VPage :
           /\ leaf'[s][v].pa # NULL => leaf'[s][v].pa = leaf[s][v].pa
           /\ leaf'[s][v].w => leaf[s][v].w
  PROVE  PrivateWhenWritable'
<1> SUFFICES ASSUME NEW s \in Space, NEW t \in Space, NEW v \in VPage,
                    leaf'[s][v].w, leaf'[s][v].pa # NULL, leaf'[t][v].pa = leaf'[s][v].pa
             PROVE  Excused(s, v)' \/ t = s
  BY Zenon DEF PrivateWhenWritable
<1>1. leaf[s][v].w /\ leaf[s][v].pa # NULL /\ leaf[t][v].pa = leaf[s][v].pa
  BY Zenon
<1>2. Excused(s, v) \/ t = s
  BY <1>1, Zenon DEF PrivateWhenWritable
<1>3. Excused(s, v) => s \in Proc
  BY Zenon DEF Excused
<1> QED
  BY <1>1, <1>2, <1>3, Zenon DEF StillExcused

(* View does not change when nobody sees anything else. *)
LEMMA ViewSame ==
  ASSUME \A q \in Proc, v \in VPage : See(q, v)' = See(q, v)
  PROVE  UNCHANGED View
  BY DEF View, See, Seen, Keeps

-----------------------------------------------------------------------------
(* Steps that change no page and no PTE.                                   *)

(* No thread but p moves, and no memory changes. *)
OnlyThread(p) ==
  UNCHANGED <<leaf, content, sz, state>> /\ \A q \in Proc : q # p => th'[q] = th[q]

(* Nothing is seen of such a step. *)
LEMMA QuietStep ==
  ASSUME ThreadInv, SizeInv, ViewInv, NEW p \in Proc, th[p].pc # "none", OnlyThread(p),
         StillExcused(p), ThreadSees(p)', th[p].op # "shrink", th'[p].op # "shrink"
  PROVE  ViewInv' /\ UNCHANGED View
<1>1. OthersStay(p) /\ Elsewhere(p) /\ WritesMine(p)
  BY Zenon DEF OthersStay, Elsewhere, WritesMine, OnlyThread
<1>2. PrivateWhenWritable'
  <2>1. \A q \in Proc : StillExcused(q)
    BY SameExcused, Zenon DEF OnlyThread
  <2> QED
    BY <2>1, StillPrivate, Zenon DEF OnlyThread, ViewInv
<1>3. \A v \in VPage : See(p, v)' = See(p, v)
  BY Zenon DEF OnlyThread, See, Seen, Keeps
<1> QED
  BY <1>1, <1>2, <1>3, OwnStep, ViewSame, Zenon

(* A process with a thread is no zombie. *)
LEMMA NotExcused ==
  ASSUME ViewInv, NEW p \in Proc, th[p].pc \notin {"none", "exit", "cow_kalloc", "cow_copy"}
  PROVE  StillExcused(p) /\ \A v \in VPage : ~Excused(p, v)
<1>1. LiveThread(p)
  BY Zenon DEF ViewInv, ThreadSees
<1>2. state[p] # "ZOMBIE"
  BY <1>1, Zenon DEF LiveThread
<1> QED
  BY <1>2, Zenon DEF StillExcused, Excused

(* Steps that do not concern a copy in progress. *)
LEMMA CalmStep ==
  ASSUME ThreadInv, SizeInv, ViewInv, NEW p \in Proc,
         th[p].pc \notin {"none", "exit", "cow_kalloc", "cow_copy"}, OnlyThread(p),
         th[p].op # "shrink", th'[p].op # "shrink",
         th'[p].op = "userinit" <=> th[p].op = "userinit",
         th'[p].pc \in {"cow_kalloc", "cow_copy", "cow_kfree", "memmove"} => leaf[p][th'[p].i].w,
         th'[p].pc = "uvmcopy" => ForkShares(p)',
         th'[p].pc = "uvmalloc" => FreshContent(p)'
  PROVE  ViewInv' /\ UNCHANGED View
<1>1. StillExcused(p)
  BY NotExcused, Zenon
<1>2. LiveThread(p)
  BY Zenon DEF ViewInv, ThreadSees
<1>3. LiveThread(p)'
  BY <1>2, Zenon DEF LiveThread, OnlyThread
<1>4. CowSetsW(p)' /\ ForkShares(p)' /\ FreshContent(p)'
  BY Zenon DEF CowSetsW, ForkShares, FreshContent, OnlyThread
<1> QED
  BY <1>1, <1>3, <1>4, QuietStep, Zenon DEF ThreadSees

(* ... and go to a place where nothing has to hold. *)
LEMMA PlainStep ==
  ASSUME ThreadInv, SizeInv, ViewInv, NEW p \in Proc,
         th[p].pc \notin {"none", "exit", "cow_kalloc", "cow_copy"}, OnlyThread(p),
         th[p].op # "shrink", th'[p].op # "shrink",
         th'[p].op = "userinit" <=> th[p].op = "userinit",
         th'[p].pc \notin {"cow_kalloc", "cow_copy", "cow_kfree", "memmove", "uvmcopy", "uvmalloc"}
  PROVE  ViewInv' /\ UNCHANGED View
  BY CalmStep, Zenon

(* Which call is served at some places in the code. *)
LEMMA OpAt ==
  ASSUME ThreadInv, NEW p \in Proc
  PROVE  /\ th[p].pc \in {"none", "user", "exit"} => th[p].op = "none"
         /\ th[p].pc \in {"retry", "is_cowpage"} => th[p].op = "trap"
         /\ th[p].pc \in {"cow_alloc", "cow_kalloc", "cow_copy", "cow_kfree"}
              => th[p].op \in {"trap", "read", "wait"}
         /\ th[p].pc \in {"copyout", "memmove"} => th[p].op \in {"read", "wait"}
<1>1. Locals(th[p]) /\ th[p] \in Thread
  BY Zenon DEF ThreadInv, TypeOK
<1>2. th[p].op \in {"none", "trap", "read", "wait", "fork", "userinit", "sbrk", "shrink", "exec"}
  BY <1>1, Zenon DEF Thread
<1>3. th[p].pc \in PcOf(th[p].op)
  BY <1>1, Zenon DEF Locals
<1> QED
  BY <1>2, <1>3, Zenon DEF PcOf

-----------------------------------------------------------------------------
(* Steps that PrivateMem takes too.                                        *)

(* Only process c sees something new: what g says. *)
LEMMA ViewChange ==
  ASSUME NEW c \in Proc, NEW g, g = [v \in VPage |-> g[v]],
         \A q \in Proc, v \in VPage : q # c => See(q, v)' = See(q, v),
         \A v \in VPage : See(c, v)' = g[v]
  PROVE  View' = [View EXCEPT ![c] = g]
<1>1. View = [p \in Proc |-> [v \in VPage |-> See(p, v)]]
  BY Zenon DEF View, See, Seen, Keeps
<1>2. View' = [p \in Proc |-> [v \in VPage |-> See(p, v)']]
  BY ZenonT(30) DEF View, See, Seen, Keeps
<1>3. ASSUME NEW q \in Proc PROVE View'[q] = [View EXCEPT ![c] = g][q]
  <2>1. CASE q = c
    <3>1. View'[c] = [v \in VPage |-> See(c, v)']
      BY <1>2, Zenon
    <3>2. View'[c] = [v \in VPage |-> g[v]]
      BY <3>1, Zenon
    <3> QED
      BY <1>1, <2>1, <3>2, Zenon
  <2>2. CASE q # c
    <3>1. View'[q] = [v \in VPage |-> See(q, v)'] /\ View[q] = [v \in VPage |-> See(q, v)]
      BY <1>1, <1>2, Zenon
    <3>2. View'[q] = View[q]
      BY <2>2, <3>1, Zenon
    <3> QED
      BY <1>1, <2>2, <3>2, Zenon
  <2> QED
    BY <2>1, <2>2, Zenon
<1>4. View' = [q \in Proc |-> View'[q]]
  BY <1>2, Zenon
<1>5. [View EXCEPT ![c] = g] = [q \in Proc |-> [View EXCEPT ![c] = g][q]]
  BY <1>1, Zenon
<1> QED
  BY <1>3, <1>4, <1>5, Zenon

(* The view of one process is a function on its pages. *)
LEMMA ViewOf ==
  ASSUME NEW p \in Proc
  PROVE  View[p] = [v \in VPage |-> View[p][v]]
<1>1. View[p] = [v \in VPage |-> See(p, v)]
  BY Zenon DEF View, See, Seen, Keeps
<1> QED
  BY <1>1, Zenon

(* A process writes page x. *)
LEMMA WriteStep ==
  ASSUME NEW p \in Proc, NEW x \in VPage, See(p, x) # NULL,
         \A q \in Proc, v \in VPage : q # p => See(q, v)' = See(q, v),
         \A v \in VPage : See(p, v)' = IF v = x THEN p ELSE See(p, v)
  PROVE  PM!Next
<1> DEFINE g == [View[p] EXCEPT ![x] = p]
<1>1. g = [v \in VPage |-> g[v]] /\ \A v \in VPage : g[v] = IF v = x THEN p ELSE See(p, v)
  BY ViewOf, ViewIs, Zenon
<1>2. \A v \in VPage : See(p, v)' = g[v]
  BY <1>1, Zenon
<1> HIDE DEF g
<1>3. View' = [View EXCEPT ![p] = g]
  BY <1>1, <1>2, ViewChange, Zenon
<1>4. View[p][x] # NULL
  BY ViewIs, Zenon
<1>5. PM!Write(p, x)
  BY <1>3, <1>4, Zenon DEF PM!Write, g
<1> QED
  BY <1>5, Zenon DEF PM!Next

(* The pages of p become n: the old ones, then zeroes. *)
LEMMA ResizeStep ==
  ASSUME NEW p \in Proc, NEW n \in 0..MAXVP,
         \A q \in Proc, v \in VPage : q # p => See(q, v)' = See(q, v),
         \A v \in VPage : See(p, v)' = IF v >= n THEN NULL
                                       ELSE IF See(p, v) = NULL THEN Zero ELSE See(p, v)
  PROVE  PM!Next
<1> DEFINE g == [v \in VPage |-> IF v >= n THEN NULL
                                 ELSE IF View[p][v] = NULL THEN Zero ELSE View[p][v]]
<1>1. \A v \in VPage : See(p, v)' = g[v]
  BY ViewIs, Zenon
<1>2. g = [v \in VPage |-> g[v]]
  BY Zenon
<1> HIDE DEF g
<1>3. View' = [View EXCEPT ![p] = g]
  BY <1>1, <1>2, ViewChange, Zenon
<1>4. PM!Resize(p, n)
  BY <1>3, Zenon DEF PM!Resize, g
<1>5. n = 0 \/ \E k \in VPage : n = k + 1
  <2>1. n # 0 => n - 1 \in VPage /\ n = (n - 1) + 1
    BY SizeAssumption DEF VPage
  <2> QED
    BY <2>1, Zenon
<1> QED
  BY <1>4, <1>5, Zenon DEF PM!Next

(* p runs a new program of n pages. *)
LEMMA ExecStep ==
  ASSUME NEW p \in Proc, NEW n \in 1..MAXVP,
         \A q \in Proc, v \in VPage : q # p => See(q, v)' = See(q, v),
         \A v \in VPage : See(p, v)' = IF v < n THEN Image ELSE NULL
  PROVE  PM!Next
<1> DEFINE g == [v \in VPage |-> IF v < n THEN Image ELSE NULL]
<1>1. \A v \in VPage : See(p, v)' = g[v]
  BY Zenon
<1>2. g = [v \in VPage |-> g[v]]
  BY Zenon
<1> HIDE DEF g
<1>3. View' = [View EXCEPT ![p] = g]
  BY <1>1, <1>2, ViewChange, Zenon
<1>4. PM!Exec(p, n)
  BY <1>3, Zenon DEF PM!Exec, g
<1>5. \E k \in VPage : n = k + 1
  <2>1. n - 1 \in VPage /\ n = (n - 1) + 1
    BY SizeAssumption DEF VPage
  <2> QED
    BY <2>1, Zenon
<1> QED
  BY <1>4, <1>5, Zenon DEF PM!Next

(* p sees no more. *)
LEMMA ExitStep ==
  ASSUME NEW p \in Proc,
         \A q \in Proc, v \in VPage : q # p => See(q, v)' = See(q, v),
         \A v \in VPage : See(p, v)' = NULL
  PROVE  PM!Next
<1> DEFINE g == [v \in VPage |-> NULL]
<1>1. \A v \in VPage : See(p, v)' = g[v]
  BY Zenon
<1>2. g = [v \in VPage |-> g[v]]
  BY Zenon
<1> HIDE DEF g
<1>3. View' = [View EXCEPT ![p] = g]
  BY <1>1, <1>2, ViewChange, Zenon
<1>4. PM!Exit(p)
  BY <1>3, Zenon DEF PM!Exit, PM!Empty, g
<1> QED
  BY <1>4, Zenon DEF PM!Next

(* c sees what p sees. *)
LEMMA ForkStep ==
  ASSUME NEW p \in Proc, NEW c \in Proc,
         \A q \in Proc, v \in VPage : q # c => See(q, v)' = See(q, v),
         \A v \in VPage : See(c, v) = NULL,
         \A v \in VPage : See(c, v)' = See(p, v)
  PROVE  PM!Next
<1> DEFINE g == View[p]
<1>1. \A v \in VPage : See(c, v)' = g[v]
  BY ViewIs, Zenon
<1>2. g = [v \in VPage |-> g[v]]
  BY ViewOf, Zenon
<1> HIDE DEF g
<1>3. View' = [View EXCEPT ![c] = g]
  BY <1>1, <1>2, ViewChange, Zenon
<1>4. View[c] = [v \in VPage |-> NULL]
  <2>1. \A v \in VPage : View[c][v] = NULL
    BY ViewIs, Zenon
  <2> QED
    BY <2>1, ViewOf, Zenon
<1>5. PM!Fork(p, c)
  BY <1>3, <1>4, Zenon DEF PM!Fork, PM!Empty, g
<1> QED
  BY <1>5, Zenon DEF PM!Next

-----------------------------------------------------------------------------
(* Steps that are not seen.                                                *)

(* Faults, and system calls that begin. *)
LEMMA PrivateCalls ==
  ASSUME ThreadInv, SizeInv, ViewInv, NEW p \in Proc, NEW a, NEW b,
         \/ StorePageFault(p, a) \/ is_cowpage(p) \/ Leave(p) \/ SysCopyout(p, a, b)
         \/ wait(p, a) \/ exec(p)
  PROVE  ViewInv' /\ UNCHANGED View
<1>1. /\ th[p].pc \in {"user", "is_cowpage"} /\ th[p].op \in {"none", "trap"} /\ th[p] \in Thread
      /\ UNCHANGED <<leaf, content, sz, state>>
  <2>1. th[p].pc \in {"user", "is_cowpage"} /\ UNCHANGED <<leaf, content, sz, state>>
    BY Zenon DEF StorePageFault, is_cowpage, Leave, SysCopyout, wait, exec, Running, space, procs
  <2> QED
    BY <2>1, OpAt, PagesNat, Zenon
<1>2. SUFFICES ASSUME \A q \in Proc : q # p => th'[q] = th[q]
               PROVE  /\ th'[p].pc \in {"exit", "is_cowpage", "cow_alloc", "copyout", "uvmfree",
                                        "proc_pagetable"}
                      /\ th'[p].op \in {"none", "trap", "read", "wait", "exec"}
  <2>1. OnlyThread(p) \/ ~\A q \in Proc : q # p => th'[q] = th[q]
    BY <1>1, Zenon DEF OnlyThread
  <2>2. \A q \in Proc : q # p => th'[q] = th[q]
    <3>1. \E r : th' = [th EXCEPT ![p] = r]
      <4>1. CASE wait(p, a)
        BY <4>1, Zenon DEF wait
      <4> QED
        BY <4>1, Zenon DEF StorePageFault, is_cowpage, Leave, SysCopyout, exec
    <3> QED
      BY <3>1, SetThread, Zenon
  <2> QED
    BY <1>1, <2>1, <2>2, PlainStep, Zenon
<1>3. CASE StorePageFault(p, a)
  <2>1. th'[p] = IF a > sz[p] THEN [User EXCEPT !.pc = "exit"]
                    ELSE [User EXCEPT !.pc = "is_cowpage", !.op = "trap", !.i = Page(a)]
    BY <1>3, SetThread, Zenon DEF StorePageFault
  <2> QED
    BY <2>1, Zenon DEF User, Idle
<1>4. CASE is_cowpage(p)
  <2>1. th'[p] = [User EXCEPT !.pc = "exit"] \/ th'[p] = [th[p] EXCEPT !.pc = "cow_alloc"]
    BY <1>4, SetThread, Zenon DEF is_cowpage
  <2> QED
    BY <1>1, <2>1, UserIs, ZenonT(30) DEF Thread
<1>5. CASE Leave(p)
  <2>1. th'[p] = [User EXCEPT !.pc = "exit"]
    BY <1>5, SetThread, Zenon DEF Leave
  <2> QED
    BY <2>1, UserIs, Zenon
<1>6. CASE SysCopyout(p, a, b)
  <2>1. th'[p] = [User EXCEPT !.pc = "copyout", !.op = "read",
                                 !.i = Page(a), !.n = Page(a + b - 1) + 1]
    BY <1>6, SetThread, Zenon DEF SysCopyout
  <2> QED
    BY <2>1, Zenon DEF User, Idle
<1>7. CASE wait(p, a)
  <2>1. PICK c \in Proc : th' = [th EXCEPT ![p] =
                      IF a = NULL THEN Reap(c)
                      ELSE [User EXCEPT !.pc = "copyout", !.op = "wait", !.np = c,
                                        !.i = Page(a), !.n = Page(a) + 1]]
    BY <1>7, Zenon DEF wait
  <2>2. th'[p] = Reap(c) \/ th'[p] = [User EXCEPT !.pc = "copyout", !.op = "wait", !.np = c,
                                        !.i = Page(a), !.n = Page(a) + 1]
    BY <2>1, SetThread, Zenon
  <2> QED
    BY <2>2, Zenon DEF Reap, User, Idle
<1>8. CASE exec(p)
  <2>1. th'[p] = [User EXCEPT !.pc = "proc_pagetable", !.op = "exec",
              !.np = -p, !.n = Len(EXECIMAGE), !.newsz = Len(EXECIMAGE) * PGSIZE]
    BY <1>8, SetThread, Zenon DEF exec
  <2> QED
    BY <2>1, Zenon DEF User, Idle
<1> QED
  BY <1>3, <1>4, <1>5, <1>6, <1>7, <1>8, Zenon

(* sbrk begins to grow: it has no new page yet. *)
LEMMA PrivateSbrkGrow ==
  ASSUME ThreadInv, SizeInv, ViewInv, NEW p \in Proc, NEW n, SbrkGrow(p, n)
  PROVE  ViewInv' /\ UNCHANGED View
<1>1. th[p].pc = "user" /\ th[p].op = "none" /\ UNCHANGED <<leaf, content, sz, state>>
  BY OpAt, Zenon DEF SbrkGrow, Running, space, procs
<1>2. /\ th'[p] = [User EXCEPT !.pc = "uvmalloc", !.op = "sbrk", !.np = p,
                   !.i = Pages(sz[p]), !.n = Pages(sz[p] + n), !.newsz = sz[p] + n]
      /\ \A q \in Proc : q # p => th'[q] = th[q]
  BY SetThread, Zenon DEF SbrkGrow
<1>3. /\ th'[p].pc = "uvmalloc" /\ th'[p].op = "sbrk" /\ th'[p].np = p
      /\ th'[p].i = Pages(sz[p]) /\ th'[p].mem = NULL
  BY <1>2, Zenon DEF User, Idle
<1>4. PICK k \in Nat : k = Pages(sz[p])
  BY PagesNat
<1>5. ~\E v \in VPage : v < k /\ k <= v
  BY DEF VPage
<1>6. FreshContent(p)'
  BY <1>1, <1>3, <1>4, <1>5, Zenon DEF FreshContent
<1>7. OnlyThread(p)
  BY <1>1, <1>2, Zenon DEF OnlyThread
<1> QED
  BY <1>1, <1>3, <1>6, <1>7, CalmStep, Zenon

(* cow_alloc asks for a page.  Without one a store's process is killed. *)
LEMMA PrivateCowKalloc ==
  ASSUME ThreadInv, SizeInv, ViewInv, CopyoutServed, NEW p \in Proc, cow_kalloc(p)
  PROVE  ViewInv' /\ UNCHANGED View
<1>1. /\ th[p].pc = "cow_kalloc" /\ th[p].op \in {"trap", "read", "wait"} /\ th[p] \in Thread
      /\ UNCHANGED <<leaf, content, sz, state>> /\ CowSetsW(p) /\ LiveThread(p)
  <2>1. th[p].pc = "cow_kalloc" /\ UNCHANGED <<leaf, content, sz, state>>
    BY Zenon DEF cow_kalloc, Running, space
  <2> QED
    BY <2>1, OpAt, PagesNat, Zenon DEF ViewInv, ThreadSees
<1>2. CASE \E pa \in PA : th' = [th EXCEPT ![p].pc = "cow_copy", ![p].mem = pa]
  <2>1. PICK pa \in PA : th' = [th EXCEPT ![p] = [th[p] EXCEPT !.pc = "cow_copy", !.mem = pa]]
    BY <1>2, Zenon
  <2>2. th'[p] = [th[p] EXCEPT !.pc = "cow_copy", !.mem = pa] /\ \A q \in Proc : q # p => th'[q] = th[q]
    BY <2>1, SetThread, Zenon
  <2>3. th'[p].pc = "cow_copy" /\ th'[p].op = th[p].op /\ th'[p].i = th[p].i
    BY <1>1, <2>2, Zenon DEF Thread
  <2>4. OnlyThread(p)
    BY <1>1, <2>2, Zenon DEF OnlyThread
  <2>5. StillExcused(p)
    BY <1>1, <2>3, Zenon DEF StillExcused, Excused
  <2>6. ThreadSees(p)'
    BY <1>1, <2>3, Zenon DEF ThreadSees, CowSetsW, LiveThread, ForkShares, FreshContent
  <2> QED
    BY <1>1, <2>3, <2>4, <2>5, <2>6, QuietStep, Zenon
<1>3. CASE kalloc_fails /\ CowFails(p)
  <2>1. th[p].op = "trap"
    BY <1>1, <1>3, Zenon DEF CopyoutServed, kalloc_fails
  <2>2. th'[p] = [User EXCEPT !.pc = "exit"] /\ \A q \in Proc : q # p => th'[q] = th[q]
    BY <1>3, <2>1, SetThread, Zenon DEF CowFails
  <2>3. th'[p].pc = "exit" /\ th'[p].op = "none"
    BY <2>2, UserIs, Zenon
  <2>4. OnlyThread(p)
    BY <1>1, <2>2, Zenon DEF OnlyThread
  <2>5. StillExcused(p)
    BY <2>3, Zenon DEF StillExcused, Excused
  <2>6. ThreadSees(p)'
    BY <1>1, <2>1, <2>3, Zenon DEF ThreadSees, CowSetsW, LiveThread, ForkShares, FreshContent
  <2> QED
    BY <1>1, <2>1, <2>3, <2>4, <2>5, <2>6, QuietStep, Zenon
<1> QED
  BY <1>2, <1>3, Zenon DEF cow_kalloc

(* cow_alloc lets go of the old page. *)
LEMMA PrivateCowKfree ==
  ASSUME ThreadInv, SizeInv, ViewInv, NEW p \in Proc, cow_kfree(p)
  PROVE  ViewInv' /\ UNCHANGED View
<1>1. /\ th[p].pc = "cow_kfree" /\ th[p].op \in {"trap", "read", "wait"} /\ th[p] \in Thread
      /\ UNCHANGED <<leaf, content, sz, state>> /\ CowSetsW(p)
  <2>1. th[p].pc = "cow_kfree" /\ UNCHANGED <<leaf, content, sz, state>>
    BY Zenon DEF cow_kfree, Running, space, procs
  <2> QED
    BY <2>1, OpAt, PagesNat, Zenon DEF ViewInv, ThreadSees
<1>2. th'[p] = CowDone(th[p]) /\ \A q \in Proc : q # p => th'[q] = th[q]
  BY SetThread, Zenon DEF cow_kfree
<1>3. th'[p].pc \in {"retry", "memmove"} /\ th'[p].op = th[p].op /\ th'[p].i = th[p].i
  BY <1>1, <1>2, Zenon DEF CowDone, Thread
<1>4. OnlyThread(p)
  BY <1>1, <1>2, Zenon DEF OnlyThread
<1>5. leaf[p][th'[p].i].w
  BY <1>1, <1>3, Zenon DEF CowSetsW
<1> QED
  BY <1>1, <1>3, <1>4, <1>5, CalmStep, Zenon

(* kfree's second half fills a page that nobody refers to. *)
LEMMA PrivateFinishKfree ==
  ASSUME ThreadInv, SizeInv, SoleRefs, ViewInv, NEW p \in Proc, FinishKfree(p)
  PROVE  ViewInv' /\ UNCHANGED View
<1>1. UNCHANGED <<leaf, sz, state, th>>
  BY Zenon DEF FinishKfree, space, procs
<1>2. PICK x \in PA : x = freeing[p] /\ Unreferred(x)
  <2>1. freeing[p] # NULL /\ freeing[p] \in PA \cup {NULL}
    BY Zenon DEF FinishKfree, kfree_push, ThreadInv, TypeOK
  <2> QED
    BY <2>1, Zenon DEF SoleRefs
<1>3. \A y \in PA : y # x => content'[y] = content[y]
  BY <1>2, Zenon DEF FinishKfree, ThreadInv, TypeOK
<1>4. ASSUME NEW q \in Proc PROVE Untouched(q)
  <2>1. ASSUME NEW s \in Space, NEW v \in VPage PROVE SameContent(leaf[s][v].pa)
    BY <1>2, <1>3, Zenon DEF SameContent, Unreferred
  <2>2. SameContent(th[q].mem) /\ q \in Space
    BY <1>2, <1>3, Zenon DEF SameContent, Unreferred, Space
  <2>3. th[q].pc = "uvmalloc" => th[q].np \in Space
    BY WorksFor, Zenon DEF Works
  <2> QED
    BY <1>1, <2>1, <2>2, <2>3, Zenon DEF Untouched
<1>5. \A q \in Proc : ThreadSees(q)' /\ \A v \in VPage : See(q, v)' = See(q, v)
  BY <1>4, UntouchedSees, Zenon
<1>6. PrivateWhenWritable'
  BY <1>1, ZenonT(30) DEF ViewInv, PrivateWhenWritable, Excused
<1> QED
  BY <1>5, <1>6, ViewSame, Zenon DEF ViewInv

-----------------------------------------------------------------------------
(* Building and freeing tables.                                            *)

(* A thread that stays where it is keeps its part of the invariant. *)
LEMMA SameSees ==
  ASSUME ThreadInv, SizeInv, ViewInv, NEW p \in Proc, th[p].pc # "none", th[p].op # "shrink",
         UNCHANGED <<leaf, content, sz, state, th>>
  PROVE  ViewInv' /\ UNCHANGED View
<1>1. OnlyThread(p) /\ StillExcused(p)
  BY SameExcused, Zenon DEF OnlyThread
<1>2. ThreadSees(p)
  BY Zenon DEF ViewInv
<1>3. ThreadSees(p)'
  BY <1>2, Zenon DEF ThreadSees, CowSetsW, LiveThread, ForkShares, FreshContent
<1> QED
  BY <1>1, <1>3, QuietStep, Zenon

(* fork, exec or sbrk gives up. *)
LEMMA PrivateUndo ==
  ASSUME ThreadInv, SizeInv, ViewInv, NEW p \in Proc, Undo(p),
         th[p].pc \in {"proc_pagetable", "uvmcopy", "uvmalloc"},
         UNCHANGED <<leaf, content, sz, state>>
  PROVE  ViewInv' /\ UNCHANGED View
<1>1. /\ \A q \in Proc : q # p => th'[q] = th[q]
      /\ th'[p].op = th[p].op /\ th'[p].pc \in {"uvmfree", "uvmdealloc"}
  BY UndoIs, Zenon
<1>2. OnlyThread(p)
  BY <1>1, Zenon DEF OnlyThread
<1>3. th[p].op # "shrink"
  BY WorksFor, Zenon
<1> QED
  BY <1>1, <1>2, <1>3, PlainStep, Zenon

(* proc_pagetable concerns no user page. *)
LEMMA PrivateProcPagetable ==
  ASSUME ThreadInv, SizeInv, ViewInv, NEW p \in Proc, proc_pagetable(p)
  PROVE  ViewInv' /\ UNCHANGED View
<1>1. th[p].pc = "proc_pagetable" /\ UNCHANGED <<leaf, content, sz, state>>
  BY Zenon DEF proc_pagetable, Running, procs
<1>2. th[p].op \in {"fork", "userinit", "exec"} /\ Works(th[p])
  BY <1>1, WorksFor, Zenon DEF Works
<1>3. CASE UNCHANGED th
  BY <1>1, <1>2, <1>3, SameSees, Zenon
<1>4. CASE Undo(p)
  BY <1>1, <1>4, PrivateUndo, Zenon
<1>5. CASE th' = [th EXCEPT ![p].pc = IF th[p].op = "fork" THEN "uvmcopy" ELSE "uvmalloc"]
  <2> DEFINE pc == IF th[p].op = "fork" THEN "uvmcopy" ELSE "uvmalloc"
  <2>1. th' = [th EXCEPT ![p] = [th[p] EXCEPT !.pc = pc]]
    BY <1>5, Zenon
  <2>2. th'[p] = [th[p] EXCEPT !.pc = pc] /\ \A q \in Proc : q # p => th'[q] = th[q]
    BY <2>1, SetThread, Zenon
  <2>3. LoopBounds(th[p], sz[p]) /\ th[p] \in Thread /\ Locals(th[p])
    BY <1>2, InLoop, Zenon DEF ThreadInv
  <2>4. /\ th'[p].pc \in {"uvmcopy", "uvmalloc"} /\ th'[p].op = th[p].op
        /\ th'[p].i = 0 /\ th'[p].mem = NULL
    BY <1>1, <2>2, <2>3, Zenon DEF Thread, Locals, LoopBounds
  <2>5. ~\E v \in VPage : v < 0
    BY DEF VPage
  <2>6. ForkShares(p)' /\ FreshContent(p)'
    BY <2>4, <2>5, Zenon DEF ForkShares, FreshContent
  <2>7. OnlyThread(p)
    BY <1>1, <2>2, Zenon DEF OnlyThread
  <2> QED
    BY <1>1, <1>2, <2>4, <2>6, <2>7, CalmStep, Zenon
<1> QED
  BY <1>3, <1>4, <1>5, Zenon DEF proc_pagetable

(* freewalk frees pages that nobody sees. *)
LEMMA PrivateFreewalk ==
  ASSUME ThreadInv, SizeInv, ViewInv, NEW p \in Proc, freewalk(p)
  PROVE  ViewInv' /\ UNCHANGED View
<1>1. th[p].pc = "uvmfree" /\ UNCHANGED <<leaf, content, sz, state, th>>
  BY Zenon DEF freewalk, Running, procs
<1> QED
  BY <1>1, WorksFor, SameSees, Zenon

(* fork takes a slot that sees nothing. *)
LEMMA PrivateFork ==
  ASSUME ThreadInv, SizeInv, ViewInv, NEW p \in Proc, fork(p)
  PROVE  ViewInv' /\ UNCHANGED View
<1>1. th[p].pc = "user" /\ th[p].op = "none" /\ UNCHANGED <<leaf, content, sz>>
  BY OpAt, Zenon DEF fork, Running, space
<1>2. PICK c \in Proc :
       /\ state[c] = "UNUSED"
       /\ state' = [state EXCEPT ![c] = "USED"]
       /\ th' = [th EXCEPT ![p] = [User EXCEPT !.pc = "proc_pagetable",
                                               !.op = "fork", !.np = c]]
  BY Zenon DEF fork
<1>3. /\ th'[p] = [User EXCEPT !.pc = "proc_pagetable", !.op = "fork", !.np = c]
      /\ \A q \in Proc : q # p => th'[q] = th[q]
  BY <1>2, SetThread, Zenon
<1>4. th'[p].pc = "proc_pagetable" /\ th'[p].op = "fork"
  BY <1>3, Zenon DEF User, Idle
<1>5. state'[c] = "USED" /\ \A q \in Proc : q # c => state'[q] = state[q]
  BY <1>2, Zenon DEF ThreadInv, TypeOK
<1>6. th[c] = Idle /\ LiveThread(p)
  BY <1>2, Zenon DEF ThreadInv, DeadIsIdle, ViewInv, ThreadSees
<1>7. p # c
  BY <1>1, <1>6, UserIs, Zenon
<1>8. state[p] = "RUNNABLE"
  BY <1>1, <1>6, Zenon DEF LiveThread
<1>9. \A q \in Proc : StillExcused(q)
  <2>1. StillExcused(p)
    BY <1>1, NotExcused, Zenon
  <2>2. StillExcused(c)
    BY <1>2, <1>6, UserIs, Zenon DEF StillExcused, Excused
  <2> QED
    BY <1>3, <1>5, <2>1, <2>2, SameExcused, Zenon
<1>10. PrivateWhenWritable'
  BY <1>1, <1>9, StillPrivate, Zenon DEF ViewInv
<1>11. ThreadSees(p)'
  BY <1>4, <1>5, <1>7, <1>8, Zenon DEF ThreadSees, CowSetsW, LiveThread, ForkShares, FreshContent
<1>12. ThreadSees(c)' /\ \A v \in VPage : See(c, v)' = See(c, v)
  BY <1>2, <1>3, <1>5, <1>6, <1>7, DeadSees, Zenon
<1>13. OthersStayBut(p, c) /\ Elsewhere(p) /\ WritesMine(p)
  BY <1>1, <1>3, <1>5, Zenon DEF OthersStayBut, Elsewhere, WritesMine
<1>14. \A v \in VPage : See(p, v)' = See(p, v)
  BY <1>1, <1>4, <1>5, <1>7, Zenon DEF See, Seen
<1> QED
  BY <1>1, <1>10, <1>11, <1>12, <1>13, <1>14, TwoStep, ViewSame, ZenonT(30)

(* freeproc ends: its process no longer ran, or it was exec's old table. *)
LEMMA PrivateFreeproc ==
  ASSUME ThreadInv, SizeInv, ViewInv, NEW p \in Proc, freeproc(p)
  PROVE  ViewInv' /\ UNCHANGED View
<1>1. th[p].pc = "uvmfree" /\ th[p].i >= th[p].n /\ UNCHANGED <<leaf, content>>
  BY Zenon DEF freeproc, Running
<1>2. th[p].op \in {"fork", "wait", "exec"} /\ Works(th[p])
  BY <1>1, WorksFor, Zenon DEF Works
<1>3. th'[p] = User /\ \A q \in Proc : q # p => th'[q] = th[q]
  BY SetThread, Zenon DEF freeproc
<1>4. Target(p, th[p]) /\ DeadIsIdle /\ LiveThread(p) /\ p \in Space /\ -p \notin Proc
  <2>1. -p \notin Proc
    BY ProcAssumption
  <2> QED
    BY <2>1, Zenon DEF ThreadInv, ViewInv, ThreadSees, Space
<1>5. CASE th[p].op = "exec"
  <2>1. th[p].np \notin Proc
    BY <1>4, <1>5, Zenon DEF Target
  <2>2. UNCHANGED <<state, sz>>
    BY <2>1, Zenon DEF freeproc
  <2>3. OnlyThread(p)
    BY <1>1, <1>3, <2>2, Zenon DEF OnlyThread
  <2> QED
    BY <1>1, <1>3, <1>5, <2>3, UserIs, PlainStep, Zenon
<1>6. CASE th[p].op # "exec"
  <2>1. PICK c \in Proc : c = th[p].np /\ state[c] # "RUNNABLE" /\ th[c] = Idle
    BY <1>2, <1>4, <1>6, Zenon DEF Target, DeadIsIdle
  <2>2. state' = [state EXCEPT ![c] = "UNUSED"] /\ sz' = [sz EXCEPT ![c] = 0]
    BY <2>1, Zenon DEF freeproc
  <2>3. /\ state'[c] = "UNUSED"
        /\ \A q \in Proc : q # c => state'[q] = state[q] /\ sz'[q] = sz[q]
    BY <2>2, Zenon DEF ThreadInv, TypeOK
  <2>4. p # c /\ state[p] = "RUNNABLE"
    BY <1>1, <1>2, <1>4, <2>1, UserIs, Zenon DEF LiveThread
  <2>5. PartMapped(th[p], sz[p], leaf[c]) /\ th[p].i \in Nat /\ th[p].n \in Nat
    BY <1>2, <2>1, InLoop, PagesNat, Zenon
  <2>6. \A v \in VPage : leaf[c][v].pa = NULL
    BY <1>1, <2>5, SMTT(40) DEF PartMapped, VPage
  <2>7. \A q \in Proc : StillExcused(q)
    <3>1. StillExcused(p)
      BY <1>1, NotExcused, Zenon
    <3>2. StillExcused(c)
      BY <2>6, Zenon DEF StillExcused
    <3> QED
      BY <1>3, <2>3, <3>1, <3>2, SameExcused, Zenon
  <2>8. PrivateWhenWritable'
    BY <1>1, <2>7, StillPrivate, Zenon DEF ViewInv
  <2>9. ThreadSees(p)'
    BY <1>3, <2>3, <2>4, UserIs, Zenon DEF ThreadSees, CowSetsW, LiveThread, ForkShares, FreshContent
  <2>10. ThreadSees(c)' /\ \A v \in VPage : See(c, v)' = See(c, v)
    BY <1>3, <2>1, <2>3, <2>4, DeadSees, Zenon
  <2>11. OthersStayBut(p, c) /\ Elsewhere(p) /\ WritesMine(p)
    BY <1>1, <1>3, <2>3, Zenon DEF OthersStayBut, Elsewhere, WritesMine
  <2>12. \A v \in VPage : See(p, v)' = See(p, v)
    BY <1>1, <1>3, <2>3, <2>4, UserIs, Zenon DEF See, Seen
  <2> QED
    BY <1>1, <2>8, <2>9, <2>10, <2>11, <2>12, TwoStep, ViewSame, ZenonT(30)
<1> QED
  BY <1>5, <1>6, Zenon

-----------------------------------------------------------------------------
(* exit, fork, sbrk and exec take effect.                                  *)

(* What a process sees is a value. *)
LEMMA SeeVal ==
  ASSUME ThreadInv, SizeInv, ViewInv, NEW p \in Proc, NEW v \in VPage
  PROVE  See(p, v) # NULL <=> Seen(p, v)
<1>1. Seen(p, v) => content[leaf[p][v].pa] \in Val
  BY SeenMapped, Zenon DEF ThreadInv, TypeOK
<1> QED
  BY <1>1, ValAssumption, Zenon DEF See

(* exit: the process sees nothing any more. *)
LEMMA PrivateExit ==
  ASSUME ThreadInv, SizeInv, ViewInv, NEW p \in Proc, exit(p)
  PROVE  ViewInv' /\ PM!Next
<1>1. th[p].pc = "exit" /\ UNCHANGED <<leaf, content, sz>>
  BY Zenon DEF exit, Running, space
<1>2. th'[p] = Idle /\ \A q \in Proc : q # p => th'[q] = th[q]
  BY SetThread, Zenon DEF exit
<1>3. state'[p] = "ZOMBIE" /\ \A q \in Proc : q # p => state'[q] = state[q]
  BY Zenon DEF exit, ThreadInv, TypeOK
<1>4. \A q \in Proc : StillExcused(q)
  <2>1. StillExcused(p)
    BY <1>3, Zenon DEF StillExcused, Excused
  <2> QED
    BY <1>2, <1>3, <2>1, SameExcused, Zenon
<1>5. PrivateWhenWritable'
  BY <1>1, <1>4, StillPrivate, Zenon DEF ViewInv
<1>6. ThreadSees(p)'
  BY <1>2, UserIs, Zenon DEF ThreadSees, CowSetsW, LiveThread, ForkShares, FreshContent
<1>7. OthersStay(p) /\ Elsewhere(p) /\ WritesMine(p)
  BY <1>1, <1>2, <1>3, Zenon DEF OthersStay, Elsewhere, WritesMine
<1>8. ViewInv' /\ \A q \in Proc, v \in VPage : q # p => See(q, v)' = See(q, v)
  BY <1>1, <1>5, <1>6, <1>7, OwnStep, Zenon
<1>9. \A v \in VPage : See(p, v)' = NULL
  BY <1>3, Zenon DEF See, Seen
<1> QED
  BY <1>8, <1>9, ExitStep, Zenon

(* fork returns: the child sees what the parent sees. *)
LEMMA PrivateForkReturns ==
  ASSUME ThreadInv, SizeInv, ViewInv, NEW p \in Proc, ForkReturns(p)
  PROVE  ViewInv' /\ PM!Next
<1>1. th[p].pc = "uvmcopy" /\ th[p].i >= Pages(sz[p]) /\ UNCHANGED <<leaf, content>>
  BY Zenon DEF ForkReturns, Running
<1>2. th[p].op = "fork" /\ Target(p, th[p]) /\ ForkShares(p) /\ LiveThread(p)
  BY <1>1, WorksFor, Zenon DEF ThreadInv, ViewInv, ThreadSees
<1>3. PICK c \in Proc : c = th[p].np /\ state[c] = "USED" /\ th[c] = Idle
  BY <1>2, Zenon DEF Target
<1>4. p # c /\ state[p] = "RUNNABLE"
  BY <1>1, <1>2, <1>3, UserIs, Zenon DEF LiveThread
<1>5. /\ sz' = [sz EXCEPT ![c] = sz[p]] /\ state' = [state EXCEPT ![c] = "RUNNABLE"]
      /\ th' = [th EXCEPT ![p] = User, ![c] = User]
  BY <1>3, Zenon DEF ForkReturns
<1>6. /\ th'[p] = User /\ th'[c] = User /\ state'[c] = "RUNNABLE" /\ sz'[c] = sz[p]
      /\ \A q \in Proc : q # c => state'[q] = state[q] /\ sz'[q] = sz[q]
      /\ \A q \in Proc : q # p /\ q # c => th'[q] = th[q]
  BY <1>4, <1>5, Zenon DEF ThreadInv, TypeOK
<1>7. \A q \in Proc : StillExcused(q)
  <2>1. StillExcused(p)
    BY <1>1, NotExcused, Zenon
  <2>2. StillExcused(c)
    BY <1>3, UserIs, Zenon DEF StillExcused, Excused
  <2> QED
    BY <1>6, <2>1, <2>2, SameExcused, Zenon
<1>8. PrivateWhenWritable'
  BY <1>1, <1>7, StillPrivate, Zenon DEF ViewInv
<1>9. ThreadSees(p)' /\ ThreadSees(c)'
  BY <1>4, <1>6, UserIs, Zenon DEF ThreadSees, CowSetsW, LiveThread, ForkShares, FreshContent
<1>10. OthersStayBut(p, c) /\ Elsewhere(p) /\ WritesMine(p)
  BY <1>1, <1>6, Zenon DEF OthersStayBut, Elsewhere, WritesMine
<1>11. ViewInv' /\ \A q \in Proc, v \in VPage : q # p /\ q # c => See(q, v)' = See(q, v)
  BY <1>1, <1>8, <1>9, <1>10, TwoStep, Zenon
<1>12. \A v \in VPage : See(p, v)' = See(p, v)
  BY <1>1, <1>4, <1>6, UserIs, Zenon DEF See, Seen
<1>13. \A v \in VPage : See(c, v) = NULL
  BY <1>3, Zenon DEF See, Seen
<1>14. ASSUME NEW v \in VPage PROVE See(c, v)' = See(p, v)
  <2>1. Seen(c, v)' <=> v < Pages(sz[p])
    BY <1>6, UserIs, Zenon DEF Seen
  <2>2. Seen(p, v) <=> v < Pages(sz[p])
    BY <1>1, <1>4, Zenon DEF Seen
  <2>3. v < Pages(sz[p]) => v < th[p].i
    BY <1>1, PagesNat, SMTT(40) DEF VPage
  <2>4. v < Pages(sz[p]) => leaf[c][v].pa = leaf[p][v].pa
    BY <1>1, <1>2, <1>3, <2>3, Zenon DEF ForkShares
  <2> QED
    BY <1>1, <2>1, <2>2, <2>4, Zenon DEF See
<1>15. \A q \in Proc, v \in VPage : q # c => See(q, v)' = See(q, v)
  BY <1>11, <1>12, Zenon
<1> QED
  BY <1>11, <1>13, <1>14, <1>15, ForkStep, Zenon

(* A thread whose p->sz changes, and nothing else that others depend on. *)
LEMMA SizeStep ==
  ASSUME ThreadInv, SizeInv, ViewInv, NEW p \in Proc,
         th[p].pc \in {"user", "uvmalloc", "uvmdealloc"}, UNCHANGED <<leaf, content>>,
         th'[p].pc \in {"user", "uvmdealloc"}, th'[p].op # "userinit", state'[p] = "RUNNABLE",
         OthersStay(p)
  PROVE  ViewInv' /\ \A q \in Proc, v \in VPage : q # p => See(q, v)' = See(q, v)
<1>1. \A q \in Proc : StillExcused(q)
  BY NotExcused, SameExcused, Zenon DEF OthersStay
<1>2. PrivateWhenWritable'
  BY <1>1, StillPrivate, Zenon DEF ViewInv
<1>3. ThreadSees(p)'
  BY Zenon DEF ThreadSees, CowSetsW, LiveThread, ForkShares, FreshContent
<1>4. Elsewhere(p) /\ WritesMine(p)
  BY Zenon DEF Elsewhere, WritesMine
<1> QED
  BY <1>2, <1>3, <1>4, OwnStep, Zenon

(* sbrk shrinks: the pages above the new size are gone at once. *)
LEMMA PrivateSbrkShrink ==
  ASSUME ThreadInv, SizeInv, ViewInv, NEW p \in Proc, NEW n \in Int, SbrkShrink(p, n)
  PROVE  ViewInv' /\ PM!Next
<1> DEFINE new == sz[p] + n
<1>1. th[p].pc = "user" /\ UNCHANGED <<leaf, content, sz, state>> /\ n < 0 /\ new >= 0
  BY Zenon DEF SbrkShrink, Running, space, procs
<1>2. /\ th'[p] = [User EXCEPT !.pc = "uvmdealloc", !.op = "shrink",
                      !.np = p, !.i = DeallocFrom(new), !.n = Pages(sz[p]), !.newsz = new]
      /\ \A q \in Proc : q # p => th'[q] = th[q]
  BY SetThread, Zenon DEF SbrkShrink
<1>3. th'[p].pc = "uvmdealloc" /\ th'[p].op = "shrink" /\ th'[p].newsz = new
  BY <1>2, Zenon DEF User, Idle
<1>4. new \in Nat /\ new <= sz[p] /\ sz[p] \in Nat /\ new \in 0..(MAXVP * PGSIZE)
  BY <1>1, SizeType, SMTT(40) DEF ThreadInv, TypeOK
<1>5. PICK k \in 0..MAXVP : k = Pages(new) /\ k <= Pages(sz[p])
  BY <1>4, PagesType, PagesMono, Zenon
<1>6. OthersStay(p) /\ LiveThread(p)
  BY <1>1, <1>2, Zenon DEF OthersStay, ViewInv, ThreadSees
<1>7. state[p] = "RUNNABLE"
  BY <1>1, <1>6, OpAt, Zenon DEF LiveThread
<1>8. ViewInv' /\ \A q \in Proc, v \in VPage : q # p => See(q, v)' = See(q, v)
  BY <1>1, <1>3, <1>6, <1>7, SizeStep, Zenon
<1>9. ASSUME NEW v \in VPage
      PROVE  See(p, v)' = IF v >= k THEN NULL ELSE IF See(p, v) = NULL THEN Zero ELSE See(p, v)
  <2>1. Seen(p, v)' <=> v < k
    BY <1>1, <1>3, <1>5, <1>7, Zenon DEF Seen, Keeps
  <2>2. v < k => Seen(p, v)
    BY <1>1, <1>5, <1>7, PagesNat, SMTT(40) DEF Seen, VPage
  <2>3. v >= k <=> ~(v < k)
    BY <1>5 DEF VPage
  <2> QED
    BY <1>1, <2>1, <2>2, <2>3, SeeVal, Zenon DEF See
<1> QED
  BY <1>8, <1>9, ResizeStep, Zenon

(* uvmdealloc is complete: p->sz is what View already showed. *)
LEMMA PrivateUvmdeallocDone ==
  ASSUME ThreadInv, SizeInv, ViewInv, NEW p \in Proc, UvmdeallocDone(p)
  PROVE  ViewInv' /\ UNCHANGED View
<1>1. th[p].pc = "uvmdealloc" /\ UNCHANGED <<leaf, content, state>>
  BY Zenon DEF UvmdeallocDone, Running, procs
<1>2. th'[p] = User /\ \A q \in Proc : q # p => th'[q] = th[q]
  BY SetThread, Zenon DEF UvmdeallocDone
<1>3. sz'[p] = Keeps(th[p], sz[p]) /\ \A q \in Proc : q # p => sz'[q] = sz[q]
  BY Zenon DEF UvmdeallocDone, Keeps, ThreadInv, TypeOK
<1>4. OthersStay(p) /\ LiveThread(p)
  BY <1>1, <1>2, <1>3, Zenon DEF OthersStay, ViewInv, ThreadSees
<1>5. state[p] = "RUNNABLE"
  BY <1>1, <1>4, WorksFor, Zenon DEF LiveThread
<1>6. ViewInv' /\ \A q \in Proc, v \in VPage : q # p => See(q, v)' = See(q, v)
  BY <1>1, <1>2, <1>4, <1>5, UserIs, SizeStep, Zenon
<1>7. \A v \in VPage : See(p, v)' = See(p, v)
  BY <1>1, <1>2, <1>3, UserIs, Zenon DEF See, Seen
<1> QED
  BY <1>6, <1>7, ViewSame, Zenon

(* A new image of n pages, possibly none. *)
LEMMA ImageStep ==
  ASSUME NEW p \in Proc, NEW n \in 0..MAXVP,
         \A q \in Proc, v \in VPage : q # p => See(q, v)' = See(q, v),
         \A v \in VPage : See(p, v)' = IF v < n THEN Image ELSE NULL
  PROVE  PM!Next
<1>1. CASE n = 0
  <2>1. \A v \in VPage : v >= n /\ ~(v < n)
    BY <1>1 DEF VPage
  <2> QED
    BY <2>1, ResizeStep, Zenon
<1>2. CASE n # 0
  <2>1. n \in 1..MAXVP
    BY <1>2, SizeAssumption, SMTT(40)
  <2> QED
    BY <2>1, ExecStep, Zenon
<1> QED
  BY <1>1, <1>2, Zenon

(* uvmalloc is complete: the new pages are zeroes, or the first program. *)
LEMMA PrivateUvmallocDone ==
  ASSUME ThreadInv, SizeInv, ViewInv, NEW p \in Proc, UvmallocDone(p)
  PROVE  ViewInv' /\ PM!Next
<1>1. th[p].pc = "uvmalloc" /\ th[p].i >= th[p].n /\ th[p].op # "exec" /\ UNCHANGED <<leaf, content>>
  BY Zenon DEF UvmallocDone, Running
<1>2. th'[p] = User /\ \A q \in Proc : q # p => th'[q] = th[q]
  BY SetThread, Zenon DEF UvmallocDone
<1>3. /\ sz'[p] = th[p].newsz /\ state'[p] = "RUNNABLE"
      /\ \A q \in Proc : q # p => sz'[q] = sz[q] /\ state'[q] = state[q]
  BY Zenon DEF UvmallocDone, ThreadInv, TypeOK
<1>4. OthersStay(p) /\ LiveThread(p) /\ FreshContent(p)
  BY <1>2, <1>3, Zenon DEF OthersStay, ViewInv, ThreadSees
<1>5. ViewInv' /\ \A q \in Proc, v \in VPage : q # p => See(q, v)' = See(q, v)
  BY <1>1, <1>2, <1>3, <1>4, UserIs, SizeStep, Zenon
<1>6. th[p].op \in {"sbrk", "userinit"} /\ th[p].np = p /\ Works(th[p])
  BY <1>1, WorksFor, Zenon DEF ThreadInv, Target, Works
<1>7. PICK n \in 0..MAXVP : n = Pages(th[p].newsz) /\ n = th[p].i
  BY <1>1, <1>6, InLoop, PagesNat, SMTT(40) DEF LoopBounds
<1>8. \A v \in VPage : Seen(p, v)' <=> v < n
  BY <1>2, <1>3, <1>7, UserIs, Zenon DEF Seen
<1>9. \A v \in VPage : v < n /\ (th[p].op = "sbrk" => Pages(sz[p]) <= v)
                         => content[leaf[p][v].pa] = NewContent(th[p].op)
  BY <1>1, <1>4, <1>6, <1>7, Zenon DEF FreshContent
<1>10. CASE th[p].op = "sbrk"
  <2>1. PICK k \in Nat : k = Pages(sz[p]) /\ k <= n
    BY <1>1, <1>6, <1>7, <1>10, InLoop, PagesNat, SMTT(40) DEF LoopBounds
  <2>2. state[p] = "RUNNABLE"
    BY <1>1, <1>4, <1>10, Zenon DEF LiveThread
  <2>3. \A v \in VPage : Seen(p, v) <=> v < k
    BY <1>1, <2>1, <2>2, Zenon DEF Seen
  <2>4. ASSUME NEW v \in VPage
        PROVE  See(p, v)' = IF v >= n THEN NULL ELSE IF See(p, v) = NULL THEN Zero ELSE See(p, v)
    <3>1. (v >= n <=> ~(v < n)) /\ (k <= v <=> ~(v < k))
      BY <2>1 DEF VPage
    <3>2. CASE v < n /\ ~(v < k)
      <4>1. content[leaf[p][v].pa] = Zero
        BY <1>9, <1>10, <2>1, <3>1, <3>2, Zenon DEF NewContent
      <4>2. See(p, v) = NULL
        BY <2>3, <3>2, SeeVal, Zenon
      <4> QED
        BY <1>1, <1>8, <3>1, <3>2, <4>1, <4>2, Zenon DEF See
    <3>3. CASE v < n /\ v < k
      BY <1>1, <1>8, <2>3, <3>1, <3>3, SeeVal, Zenon DEF See
    <3>4. CASE ~(v < n)
      BY <1>8, <3>1, <3>4, Zenon DEF See
    <3> QED
      BY <3>2, <3>3, <3>4, Zenon
  <2> QED
    BY <1>5, <2>4, ResizeStep, Zenon
<1>11. CASE th[p].op = "userinit"
  <2>1. \A v \in VPage : See(p, v)' = IF v < n THEN Image ELSE NULL
    BY <1>1, <1>8, <1>9, <1>11, Zenon DEF See, NewContent
  <2> QED
    BY <1>5, <2>1, ImageStep, Zenon
<1> QED
  BY <1>6, <1>10, <1>11, Zenon

(* exec commits: the process sees the new program. *)
LEMMA PrivateExecCommit ==
  ASSUME ThreadInv, SizeInv, ViewInv, NEW p \in Proc, ExecCommit(p)
  PROVE  ViewInv' /\ PM!Next
<1>1. /\ th[p].pc = "uvmalloc" /\ th[p].i >= th[p].n /\ th[p].op = "exec"
      /\ UNCHANGED <<content, state>>
      /\ leaf' = [leaf EXCEPT ![p] = leaf[-p], ![-p] = leaf[p]]
      /\ sz' = [sz EXCEPT ![p] = th[p].newsz]
  BY Zenon DEF ExecCommit, Running, procs
<1>2. /\ th'[p] = [th[p] EXCEPT !.pc = "uvmfree", !.i = 0, !.n = OldPages(p)]
      /\ \A q \in Proc : q # p => th'[q] = th[q]
  BY SetThread, Zenon DEF ExecCommit
<1>3. p \in Space /\ -p \in Space /\ -p \notin Proc /\ -p # p /\ th[p].np = -p /\ Works(th[p])
  BY <1>1, TargetIdle, Zenon DEF Space, ThreadInv, Target, Works
<1>4. th[p] \in Thread /\ LoopBounds(th[p], sz[p]) /\ LiveThread(p) /\ FreshContent(p)
  BY <1>3, InLoop, Zenon DEF ViewInv, ThreadSees
<1>5. th'[p].pc = "uvmfree" /\ th'[p].op = "exec"
  BY <1>1, <1>2, <1>4, Zenon DEF Thread
<1>6. /\ leaf'[p] = leaf[-p] /\ leaf'[-p] = leaf[p]
      /\ \A s \in Space : s # p /\ s # -p => leaf'[s] = leaf[s]
  BY <1>1, <1>3, Zenon DEF ThreadInv, TypeOK
<1>7. sz'[p] = th[p].newsz /\ \A q \in Proc : q # p => sz'[q] = sz[q]
  BY <1>1, Zenon DEF ThreadInv, TypeOK
<1>8. state[p] = "RUNNABLE"
  BY <1>1, <1>4, Zenon DEF LiveThread
<1>9. PrivateWhenWritable'
  <2>1. SUFFICES ASSUME NEW s \in Space, NEW t \in Space, NEW v \in VPage,
                    leaf'[s][v].w, leaf'[s][v].pa # NULL, leaf'[t][v].pa = leaf'[s][v].pa
                 PROVE  Excused(s, v)' \/ t = s
    BY Zenon DEF PrivateWhenWritable
  <2> DEFINE sw(x) == IF x = p THEN -p ELSE IF x = -p THEN p ELSE x
  <2>2. sw(s) \in Space /\ sw(t) \in Space /\ leaf'[s] = leaf[sw(s)] /\ leaf'[t] = leaf[sw(t)]
    BY <1>3, <1>6, Zenon
  <2>3. sw(t) = sw(s) => t = s
    BY <1>3, Zenon
  <2>4. ~Excused(p, v) /\ ~Excused(-p, v)
    <3>1. ~Excused(p, v)
      BY <1>1, NotExcused, Zenon
    <3> QED
      BY <1>3, <3>1, Zenon DEF Excused
  <2>5. Excused(sw(s), v) => s # p /\ s # -p /\ Excused(s, v)
    BY <1>3, <2>4, Zenon
  <2>6. s # p /\ Excused(s, v) => Excused(s, v)'
    BY <1>1, <1>2, Zenon DEF Excused
  <2>7. Excused(sw(s), v) \/ sw(t) = sw(s)
    <3>1. ASSUME NEW x \in Space, NEW y \in Space, leaf[x][v].w, leaf[x][v].pa # NULL,
                 leaf[y][v].pa = leaf[x][v].pa
          PROVE  Excused(x, v) \/ y = x
      BY <3>1, Zenon DEF ViewInv, PrivateWhenWritable
    <3> HIDE DEF sw
    <3>2. leaf[sw(s)][v].w /\ leaf[sw(s)][v].pa # NULL /\ leaf[sw(t)][v].pa = leaf[sw(s)][v].pa
      BY <2>1, <2>2, Zenon
    <3> QED
      BY <2>2, <3>1, <3>2, Zenon
  <2> QED
    BY <2>3, <2>5, <2>6, <2>7, Zenon
<1>10. ThreadSees(p)'
  BY <1>1, <1>5, <1>8, Zenon DEF ThreadSees, CowSetsW, LiveThread, ForkShares, FreshContent
<1>11. OthersStay(p) /\ Elsewhere(p) /\ WritesMine(p)
  BY <1>1, <1>2, <1>6, <1>7, Zenon DEF OthersStay, Elsewhere, WritesMine
<1>12. ViewInv' /\ \A q \in Proc, v \in VPage : q # p => See(q, v)' = See(q, v)
  BY <1>1, <1>9, <1>10, <1>11, OwnStep, Zenon
<1>13. PICK n \in 0..MAXVP : n = Pages(th[p].newsz) /\ n = th[p].i
  BY <1>1, <1>4, PagesNat, SMTT(40) DEF LoopBounds
<1>14. ASSUME NEW v \in VPage PROVE See(p, v)' = IF v < n THEN Image ELSE NULL
  <2>1. Seen(p, v)' <=> v < n
    BY <1>1, <1>5, <1>7, <1>8, <1>13, Zenon DEF Seen
  <2>2. v < n => content[leaf[-p][v].pa] = Image
    BY <1>1, <1>3, <1>4, <1>13, Zenon DEF FreshContent, NewContent
  <2> QED
    BY <1>1, <1>6, <2>1, <2>2, Zenon DEF See
<1> QED
  BY <1>12, <1>14, ImageStep, Zenon

-----------------------------------------------------------------------------
(* Stores and copyout.                                                     *)

(* A page that p has mapped writable, and is not about to copy, is p's. *)
LEMMA WritableMine ==
  ASSUME ThreadInv, SoleRefs, ViewInv, NEW p \in Proc, NEW x \in VPage,
         leaf[p][x].pa # NULL, leaf[p][x].w, ~Excused(p, x)
  PROVE  /\ leaf[p][x].pa \in PA /\ Mine(p, leaf[p][x].pa)
         /\ \A v \in VPage : v # x => leaf[p][v].pa # leaf[p][x].pa
<1>1. p \in Space /\ leaf[p][x] \in PTE
  BY Zenon DEF Space, ThreadInv, TypeOK
<1>2. leaf[p][x].pa \in PA
  BY <1>1, Zenon DEF PTE
<1>3. \A s \in Space, v \in VPage : leaf[s][v].pa = leaf[p][x].pa => v = x
  BY <1>1, Zenon DEF SoleRefs, SameVPage
<1>4. \A s \in Space : leaf[s][x].pa = leaf[p][x].pa => s = p
  BY <1>1, Zenon DEF ViewInv, PrivateWhenWritable
<1>5. ASSUME NEW q \in Proc, th[q].pc = "uvmalloc" PROVE th[q].mem # leaf[p][x].pa
  <2>1. SUFFICES ASSUME th[q].mem # NULL PROVE th[q].mem # leaf[p][x].pa
    BY Zenon
  <2>2. th[q].pc \in {"cow_copy", "uvmalloc"} /\ th[q].mem # NULL
    BY <1>5, <2>1, Zenon
  <2> QED
    BY <1>1, <2>2, Zenon DEF SoleRefs
<1> QED
  BY <1>1, <1>2, <1>3, <1>4, <1>5, Zenon DEF Mine

(* p writes such a page: nobody else sees it. *)
LEMMA WritePage ==
  ASSUME ThreadInv, SizeInv, SoleRefs, ViewInv, NEW p \in Proc, NEW x \in VPage,
         leaf[p][x].pa # NULL, leaf[p][x].w,
         th[p].pc \in {"user", "retry", "copyout", "memmove"},
         content' = [content EXCEPT ![leaf[p][x].pa] = p],
         UNCHANGED <<leaf, sz, state>>, \A q \in Proc : q # p => th'[q] = th[q],
         th'[p].pc \in {"user", "copyout", "uvmfree"}, th'[p].op # "userinit"
  PROVE  ViewInv' /\ PM!Next
<1>1. StillExcused(p) /\ ~Excused(p, x)
  BY NotExcused, Zenon
<1>2. PICK y \in PA : y = leaf[p][x].pa /\ Mine(p, y) /\ \A v \in VPage : v # x => leaf[p][v].pa # y
  BY <1>1, WritableMine, SMTT(40)
<1>3. content \in [PA -> Val]
  BY Zenon DEF ThreadInv, TypeOK
<1>4. content'[y] = p /\ \A z : z # y => content'[z] = content[z]
  BY <1>2, <1>3, SMTT(40)
<1>5. th[p].op # "userinit" /\ LiveThread(p)
  BY OpAt, Zenon DEF ViewInv, ThreadSees
<1>6. state[p] = "RUNNABLE"
  BY <1>5, Zenon DEF LiveThread
<1>7. \A q \in Proc : StillExcused(q)
  BY <1>1, SameExcused, Zenon
<1>8. PrivateWhenWritable'
  BY <1>7, StillPrivate, Zenon DEF ViewInv
<1>9. ThreadSees(p)'
  BY <1>6, Zenon DEF ThreadSees, CowSetsW, LiveThread, ForkShares, FreshContent
<1>10. OthersStay(p) /\ Elsewhere(p) /\ WritesMine(p)
  BY <1>2, <1>4, Zenon DEF OthersStay, Elsewhere, WritesMine
<1>11. ViewInv' /\ \A q \in Proc, v \in VPage : q # p => See(q, v)' = See(q, v)
  BY <1>8, <1>9, <1>10, OwnStep, Zenon
<1>12. \A v \in VPage : /\ Seen(p, v)' <=> v < Pages(sz[p])
                        /\ Seen(p, v) <=> v < Pages(sz[p])
  BY <1>6, Zenon DEF Seen
<1>13. x < Pages(sz[p])
  <2>1. ~Worked(p) /\ p \in Space
    BY OwnNotWorked, Zenon DEF Works
  <2>2. AllMapped(leaf[p], sz[p])
    BY <2>1, Zenon DEF SizeInv, SizeOf
  <2> QED
    BY <2>2, Zenon DEF AllMapped
<1>14. See(p, x) # NULL
  BY <1>12, <1>13, SeeVal, Zenon
<1>15. ASSUME NEW v \in VPage PROVE See(p, v)' = IF v = x THEN p ELSE See(p, v)
  <2>1. CASE v = x
    BY <1>2, <1>4, <1>12, <1>13, <2>1, Zenon DEF See
  <2>2. CASE v # x
    BY <1>2, <1>4, <1>12, <2>2, ZenonT(30) DEF See
  <2> QED
    BY <2>1, <2>2, Zenon
<1> QED
  BY <1>11, <1>14, <1>15, WriteStep, Zenon

(* A store that the PTE lets through. *)
LEMMA PrivateStore ==
  ASSUME ThreadInv, SizeInv, SoleRefs, ViewInv, NEW p \in Proc, NEW a \in StoreAddrs, Store(p, a)
  PROVE  ViewInv' /\ PM!Next
<1>1. PICK x \in VPage : x = Page(a)
  BY PageType, InputAssumption, Zenon
<1>2. /\ th[p].pc = "user" /\ leaf[p][x].pa # NULL /\ leaf[p][x].w
      /\ content' = [content EXCEPT ![leaf[p][x].pa] = p] /\ UNCHANGED <<leaf, sz, state, th>>
  BY <1>1, Zenon DEF Store, Running, Writable, space, procs
<1>3. th[p].op = "none"
  BY <1>2, OpAt, Zenon
<1> QED
  BY <1>2, <1>3, WritePage, Zenon

(* The store that faulted, again. *)
LEMMA PrivateRetry ==
  ASSUME ThreadInv, SizeInv, SoleRefs, ViewInv, NEW p \in Proc, Retry(p)
  PROVE  ViewInv' /\ (PM!Next \/ UNCHANGED View)
<1>1. /\ th[p].pc = "retry" /\ UNCHANGED <<leaf, sz, state>>
      /\ th[p] \in Thread /\ Locals(th[p])
  BY PagesNat, Zenon DEF Retry, Running, space, procs, ThreadInv
<1>2. PICK x \in VPage : x = th[p].i
  BY <1>1, Zenon DEF Locals
<1>3. CASE Writable(leaf[p][x])
  <2>1. th'[p] = User /\ \A q \in Proc : q # p => th'[q] = th[q]
    BY <1>2, <1>3, SetThread, Zenon DEF Retry
  <2>2. /\ leaf[p][x].pa # NULL /\ leaf[p][x].w
        /\ content' = [content EXCEPT ![leaf[p][x].pa] = p]
    BY <1>2, <1>3, Zenon DEF Retry, Writable
  <2> QED
    BY <1>1, <2>1, <2>2, UserIs, WritePage, Zenon
<1>4. CASE ~Writable(leaf[p][x])
  <2>1. th' = [th EXCEPT ![p] = [th[p] EXCEPT !.pc = "is_cowpage"]] /\ UNCHANGED content
    BY <1>2, <1>4, Zenon DEF Retry
  <2>2. th'[p] = [th[p] EXCEPT !.pc = "is_cowpage"] /\ \A q \in Proc : q # p => th'[q] = th[q]
    BY <2>1, SetThread, Zenon
  <2>3. th'[p].pc = "is_cowpage" /\ th'[p].op = th[p].op /\ th[p].op = "trap"
    BY <1>1, <2>2, OpAt, Zenon DEF Thread
  <2>4. OnlyThread(p)
    BY <1>1, <2>1, <2>2, Zenon DEF OnlyThread
  <2> QED
    BY <1>1, <2>3, <2>4, PlainStep, Zenon
<1> QED
  BY <1>3, <1>4, Zenon

(* copyout on one page, and its memmove after cow_alloc. *)
LEMMA PrivateCopyout ==
  ASSUME ThreadInv, SizeInv, SoleRefs, ViewInv, CopyoutServed, NEW p \in Proc,
         copyout(p) \/ CopyoutCow(p)
  PROVE  ViewInv' /\ (PM!Next \/ UNCHANGED View)
<1>1. th[p].pc \in {"copyout", "memmove"} /\ UNCHANGED <<leaf, sz, state>> /\ th[p] \in Thread
  BY PagesNat, Zenon DEF copyout, CopyoutCow, Running, space
<1>2. th[p].op \in {"read", "wait"}
  BY <1>1, OpAt, Zenon
<1>3. ASSUME memmove(p), NEW x \in VPage, x = th[p].i, leaf[p][x].pa # NULL, leaf[p][x].w
      PROVE  ViewInv' /\ PM!Next
  <2>1. th'[p] = CopyoutNext(th[p]) /\ \A q \in Proc : q # p => th'[q] = th[q]
    BY <1>3, SetThread, Zenon DEF memmove
  <2>2. th'[p].pc \in {"user", "copyout", "uvmfree"} /\ th'[p].op # "userinit"
    BY <1>1, <1>2, <2>1, Zenon DEF CopyoutNext, Reap, User, Idle, Thread
  <2>3. content' = [content EXCEPT ![leaf[p][x].pa] = p]
    BY <1>3, Zenon DEF memmove
  <2> QED
    BY <1>1, <1>3, <2>1, <2>2, <2>3, WritePage, Zenon
<1>4. CASE CopyoutCow(p)
  <2>1. th[p].pc = "memmove" /\ memmove(p)
    BY <1>4, Zenon DEF CopyoutCow, Running
  <2>2. FaultPage(th[p], leaf[p]) /\ CowSetsW(p)
    BY Zenon DEF ThreadInv, ViewInv, ThreadSees
  <2> QED
    BY <1>3, <2>1, <2>2, Zenon DEF FaultPage, CowSetsW
<1>5. CASE copyout(p)
  <2>1. th[p].pc = "copyout"
    BY <1>5, Zenon DEF copyout, Running
  <2>2. CASE CopyoutFails(p) /\ UNCHANGED content
    <3>1. th'[p] = User /\ \A q \in Proc : q # p => th'[q] = th[q]
      BY <2>2, SetThread, Zenon DEF CopyoutFails
    <3>2. OnlyThread(p)
      BY <1>1, <2>2, <3>1, Zenon DEF OnlyThread
    <3> QED
      BY <1>2, <2>1, <3>1, <3>2, UserIs, PlainStep, Zenon
  <2>3. CASE th' = [th EXCEPT ![p].pc = "cow_alloc"] /\ UNCHANGED content
    <3>1. th' = [th EXCEPT ![p] = [th[p] EXCEPT !.pc = "cow_alloc"]]
      BY <2>3, Zenon
    <3>2. th'[p] = [th[p] EXCEPT !.pc = "cow_alloc"] /\ \A q \in Proc : q # p => th'[q] = th[q]
      BY <3>1, SetThread, Zenon
    <3>3. th'[p].pc = "cow_alloc" /\ th'[p].op = th[p].op
      BY <1>1, <3>2, Zenon DEF Thread
    <3>4. OnlyThread(p)
      BY <1>1, <2>3, <3>2, Zenon DEF OnlyThread
    <3> QED
      BY <1>2, <2>1, <3>3, <3>4, PlainStep, Zenon
  <2>4. CASE /\ memmove(p) /\ th[p].i \in VPage /\ leaf[p][th[p].i].pa # NULL
             /\ leaf[p][th[p].i].u /\ ~leaf[p][th[p].i].cow
    <3>1. leaf[p][th[p].i].w
      BY <1>2, <2>1, <2>4, Zenon DEF CopyoutServed
    <3> QED
      BY <1>3, <2>4, <3>1, Zenon
  <2> QED
    BY <1>5, <2>2, <2>3, <2>4, Zenon DEF copyout, CopyoutAsksCow
<1> QED
  BY <1>4, <1>5, Zenon

-----------------------------------------------------------------------------
(* Steps that change page tables.                                          *)

(* Only page x of space r changes, or loses its excuse. *)
Unmapped(m) == \A s \in Space, v \in VPage : leaf[s][v].pa # m
OnlyPTE(r, x) == \A s \in Space, v \in VPage : s # r \/ v # x => leaf'[s][v] = leaf[s][v]
OnlyExcuse(r, x) ==
  \A q \in Proc, v \in VPage :
    Excused(q, v) /\ leaf[q][v].pa # NULL /\ (q # r \/ v # x) => Excused(q, v)'

(* A page nobody had mapped is now page x of space r. *)
LEMMA FreshPrivate ==
  ASSUME PrivateWhenWritable, NEW r \in Space, NEW x \in VPage, NEW m,
         leaf'[r][x].pa = m, Unmapped(m), OnlyPTE(r, x), OnlyExcuse(r, x)
  PROVE  PrivateWhenWritable'
<1> SUFFICES ASSUME NEW s \in Space, NEW t \in Space, NEW v \in VPage,
                    leaf'[s][v].w, leaf'[s][v].pa # NULL, leaf'[t][v].pa = leaf'[s][v].pa,
                    t # s
             PROVE  Excused(s, v)'
  BY Zenon DEF PrivateWhenWritable
<1>1. (s # r \/ v # x) /\ (t # r \/ v # x)
  <2>1. ASSUME NEW z \in Space, z # r PROVE leaf'[z][x].pa # m
    <3>1. leaf'[z][x] = leaf[z][x]
      BY <2>1, Zenon DEF OnlyPTE
    <3> QED
      BY <3>1, Zenon DEF Unmapped
  <2> QED
    BY <2>1, Zenon
<1>2. leaf[s][v].w /\ leaf[s][v].pa # NULL /\ leaf[t][v].pa = leaf[s][v].pa
  BY <1>1, Zenon DEF OnlyPTE
<1>3. Excused(s, v)
  BY <1>2, Zenon DEF PrivateWhenWritable
<1>4. s \in Proc
  BY <1>3, Zenon DEF Excused
<1> QED
  BY <1>1, <1>2, <1>3, <1>4, Zenon DEF OnlyExcuse

(* cow_alloc sets PTE_W: the page is p's own, or p is about to copy it. *)
LEMMA PrivateCowAlloc ==
  ASSUME ThreadInv, SizeInv, SoleRefs, ViewInv, NEW p \in Proc, cow_alloc(p)
  PROVE  ViewInv' /\ UNCHANGED View
<1>1. /\ th[p].pc = "cow_alloc" /\ UNCHANGED <<content, sz, state>> /\ th[p] \in Thread
      /\ FaultPage(th[p], leaf[p]) /\ leaf \in [Space -> [VPage -> PTE]] /\ p \in Space
  BY PagesNat, Zenon DEF cow_alloc, Running, procs, ThreadInv, TypeOK, Space
<1>2. PICK x \in VPage : x = th[p].i /\ leaf[p][x].pa # NULL /\ leaf[p][x] \in PTE
  BY <1>1, Zenon DEF FaultPage
<1>3. PICK last \in BOOLEAN : last = LastUser(leaf[p][x].pa)
  BY Zenon DEF LastUser, get_refcount
<1>4. PICK e \in PTE : /\ e.pa = leaf[p][x].pa /\ e.w
                       /\ leaf' = [leaf EXCEPT ![p][x] = e]
  <2>1. ASSUME NEW d \in PTE PROVE /\ Reclaim(d) \in PTE /\ Reclaim(d).pa = d.pa /\ Reclaim(d).w
                                   /\ [d EXCEPT !.w = TRUE] \in PTE
                                   /\ [d EXCEPT !.w = TRUE].pa = d.pa /\ [d EXCEPT !.w = TRUE].w
    BY Zenon DEF Reclaim, PTE
  <2>2. leaf' = [leaf EXCEPT ![p][x] = IF last THEN Reclaim(@) ELSE [@ EXCEPT !.w = TRUE]]
    BY <1>2, <1>3, Zenon DEF cow_alloc
  <2>3. CASE last
    <3>1. leaf' = [leaf EXCEPT ![p][x] = Reclaim(leaf[p][x])]
      BY <2>2, <2>3, Zenon
    <3> QED
      BY <1>2, <2>1, <3>1, Zenon
  <2>4. CASE ~last
    <3>1. leaf' = [leaf EXCEPT ![p][x] = [leaf[p][x] EXCEPT !.w = TRUE]]
      BY <2>2, <2>4, Zenon
    <3> QED
      BY <1>2, <2>1, <3>1, Zenon
  <2> QED
    BY <2>3, <2>4, Zenon
<1>5. /\ leaf'[p][x] = e /\ \A s \in Space : s # p => leaf'[s] = leaf[s]
      /\ \A s \in Space, v \in VPage : s # p \/ v # x => leaf'[s][v] = leaf[s][v]
  BY <1>1, <1>4, Zenon
<1>6. \A s \in Space, v \in VPage : leaf'[s][v].pa = leaf[s][v].pa
  BY <1>4, <1>5, Zenon
<1>7. /\ th'[p] = IF last THEN CowDone(th[p]) ELSE [th[p] EXCEPT !.pc = "cow_kalloc"]
      /\ \A q \in Proc : q # p => th'[q] = th[q]
  BY <1>2, <1>3, SetThread, Zenon DEF cow_alloc
<1>8. /\ th'[p].pc \in {"retry", "memmove", "cow_kalloc"} /\ (~last => th'[p].pc = "cow_kalloc")
      /\ th'[p].i = x /\ th'[p].op = th[p].op
  BY <1>1, <1>2, <1>7, Zenon DEF CowDone, Thread
<1>9. th[p].op \in {"trap", "read", "wait"} /\ LiveThread(p)
  BY <1>1, OpAt, Zenon DEF ViewInv, ThreadSees
<1>10. PrivateWhenWritable'
  <2>1. SUFFICES ASSUME NEW s \in Space, NEW t \in Space, NEW v \in VPage,
                    leaf'[s][v].w, leaf'[s][v].pa # NULL, leaf'[t][v].pa = leaf'[s][v].pa
                 PROVE  Excused(s, v)' \/ t = s
    BY Zenon DEF PrivateWhenWritable
  <2>2. leaf[s][v].pa # NULL /\ leaf[t][v].pa = leaf[s][v].pa
    BY <1>6, <2>1, Zenon
  <2>3. CASE s = p /\ v = x /\ last
    <3>1. refer_count[leaf[s][v].pa] = 1
      BY <1>3, <2>3, Zenon DEF LastUser, get_refcount
    <3> QED
      BY <2>2, <3>1, Zenon DEF SoleRefs
  <2>4. CASE s = p /\ v = x /\ ~last
    BY <1>8, <2>4, Zenon DEF Excused
  <2>5. CASE s # p \/ v # x
    <3>1. leaf[s][v].w
      BY <1>5, <2>1, <2>5, Zenon
    <3>2. Excused(s, v) \/ t = s
      BY <2>2, <3>1, Zenon DEF ViewInv, PrivateWhenWritable
    <3>3. ~Excused(p, v)
      BY <1>1, NotExcused, Zenon
    <3>4. Excused(s, v) => Excused(s, v)'
      BY <1>1, <1>7, <3>3, Zenon DEF Excused
    <3> QED
      BY <3>2, <3>4, Zenon
  <2> QED
    BY <2>3, <2>4, <2>5, Zenon
<1>11. ThreadSees(p)'
  BY <1>1, <1>4, <1>5, <1>8, <1>9, Zenon DEF ThreadSees, CowSetsW, LiveThread, ForkShares, FreshContent
<1>12. OthersStay(p) /\ Elsewhere(p) /\ WritesMine(p)
  BY <1>1, <1>5, <1>7, Zenon DEF OthersStay, Elsewhere, WritesMine
<1>13. \A v \in VPage : See(p, v)' = See(p, v)
  <2>1. \A v \in VPage : Seen(p, v)' <=> Seen(p, v)
    BY <1>1, <1>8, Zenon DEF Seen
  <2> QED
    BY <1>1, <1>6, <2>1, Zenon DEF See
<1> QED
  BY <1>1, <1>10, <1>11, <1>12, <1>13, OwnStep, ViewSame, ZenonT(30)

(* cow_alloc maps the copy, which holds the same. *)
LEMMA PrivateCowCopy ==
  ASSUME ThreadInv, SizeInv, SoleRefs, ViewInv, NEW p \in Proc, cow_copy(p)
  PROVE  ViewInv' /\ UNCHANGED View
<1>1. /\ th[p].pc = "cow_copy" /\ UNCHANGED <<sz, state>> /\ th[p] \in Thread /\ Locals(th[p])
      /\ FaultPage(th[p], leaf[p]) /\ leaf \in [Space -> [VPage -> PTE]] /\ p \in Space
      /\ content \in [PA -> Val] /\ CowSetsW(p) /\ LiveThread(p)
  BY PagesNat, Zenon DEF cow_copy, Running, procs, ThreadInv, TypeOK, Space, ViewInv, ThreadSees
<1>2. PICK x \in VPage : x = th[p].i /\ leaf[p][x].pa # NULL /\ leaf[p][x] \in PTE /\ leaf[p][x].w
  BY <1>1, Zenon DEF FaultPage, CowSetsW
<1>3. PICK m \in PA : m = th[p].mem /\ m # NULL
  BY <1>1, KmemAssumption, Zenon DEF Locals, Thread
<1>4. /\ \A s \in Space, v \in VPage : leaf[s][v].pa # m
      /\ \A q \in Proc : q # p => th[q].mem # m
  BY <1>1, <1>3, Zenon DEF SoleRefs
<1>5. /\ leaf' = [leaf EXCEPT ![p][x].pa = m] /\ content' = [content EXCEPT ![m] = content[leaf[p][x].pa]]
      /\ th' = [th EXCEPT ![p].pc = "cow_kfree", ![p].mem = leaf[p][x].pa]
  BY <1>2, <1>3, Zenon DEF cow_copy, CopyPage
<1>6. /\ leaf'[p][x] = [leaf[p][x] EXCEPT !.pa = m] /\ \A s \in Space : s # p => leaf'[s] = leaf[s]
      /\ \A s \in Space, v \in VPage : s # p \/ v # x => leaf'[s][v] = leaf[s][v]
  BY <1>1, <1>5, Zenon
<1>7. leaf'[p][x].pa = m /\ leaf'[p][x].w
  BY <1>2, <1>6, Zenon DEF PTE
<1>8. content'[m] = content[leaf[p][x].pa] /\ \A z : z # m => content'[z] = content[z]
  BY <1>1, <1>3, <1>5, SMTT(40)
<1>9. /\ th'[p].pc = "cow_kfree" /\ th'[p].i = x /\ th'[p].op = th[p].op
      /\ \A q \in Proc : q # p => th'[q] = th[q]
  BY <1>1, <1>2, <1>5, Zenon DEF ThreadInv, TypeOK, Thread
<1>10. th[p].op \in {"trap", "read", "wait"}
  BY <1>1, OpAt, Zenon
<1>11. state[p] = "RUNNABLE"
  BY <1>1, <1>10, Zenon DEF LiveThread
<1>12. PrivateWhenWritable'
  <2>1. ASSUME NEW q \in Proc, NEW v \in VPage, Excused(q, v), q # p \/ v # x PROVE Excused(q, v)'
    <3>1. CASE q = p
      BY <1>1, <1>2, <1>11, <2>1, <3>1, Zenon DEF Excused
    <3>2. CASE q # p
      BY <1>1, <1>9, <2>1, <3>2, Zenon DEF Excused
    <3> QED
      BY <3>1, <3>2, Zenon
  <2>2. OnlyExcuse(p, x) /\ Unmapped(m) /\ OnlyPTE(p, x) /\ PrivateWhenWritable
    BY <1>4, <1>6, <2>1, Zenon DEF ViewInv, OnlyExcuse, Unmapped, OnlyPTE
  <2> QED
    BY <1>1, <1>7, <2>2, FreshPrivate, Zenon
<1>13. ThreadSees(p)'
  BY <1>1, <1>7, <1>9, <1>10, <1>11, Zenon DEF ThreadSees, CowSetsW, LiveThread, ForkShares, FreshContent
<1>14. OthersStay(p) /\ Elsewhere(p) /\ WritesMine(p)
  <2>1. Mine(p, m)
    BY <1>4, Zenon DEF Mine
  <2> QED
    BY <1>1, <1>6, <1>8, <1>9, <2>1, Zenon DEF OthersStay, Elsewhere, WritesMine
<1>15. ASSUME NEW v \in VPage PROVE See(p, v)' = See(p, v)
  <2>1. Seen(p, v)' <=> Seen(p, v)
    BY <1>1, <1>9, Zenon DEF Seen
  <2>2. CASE v = x
    BY <1>7, <1>8, <2>1, <2>2, Zenon DEF See
  <2>3. CASE v # x
    BY <1>1, <1>4, <1>6, <1>8, <2>1, <2>3, Zenon DEF See
  <2> QED
    BY <2>2, <2>3, Zenon
<1> QED
  BY <1>1, <1>12, <1>13, <1>14, <1>15, OwnStep, ViewSame, Zenon

(* uvmcopy shares one page, read-only on both sides. *)
LEMMA PrivateUvmcopy ==
  ASSUME ThreadInv, SizeInv, ViewInv, NEW p \in Proc, uvmcopy(p)
  PROVE  ViewInv' /\ UNCHANGED View
<1>1. /\ th[p].pc = "uvmcopy" /\ th[p].i < Pages(sz[p]) /\ UNCHANGED <<content, sz, state>>
      /\ leaf[p][th[p].i].pa # NULL
  BY ZenonT(30) DEF uvmcopy, Running, procs
<1>2. Works(th[p]) /\ th[p].op = "fork" /\ ForkShares(p) /\ LiveThread(p) /\ Target(p, th[p])
  BY <1>1, WorksFor, Zenon DEF Works, ViewInv, ThreadSees, ThreadInv
<1>3. PICK s \in Space : s = th[p].np /\ s # p
  BY <1>1, <1>2, WorksFor, UserIs, Zenon DEF Target
<1>4. th[p] \in Thread /\ leaf \in [Space -> [VPage -> PTE]] /\ p \in Space
  BY <1>2, InLoop, Zenon DEF Space
<1>5. PICK v \in VPage : v = th[p].i /\ leaf[p][v].pa # NULL
  BY <1>1, PagesNat, SizeAssumption DEF VPage
<1>6. PICK e \in PTE : e = CowPTE(leaf[p][v]) /\ e.pa = leaf[p][v].pa /\ ~e.w
  <2>1. ASSUME NEW d \in PTE PROVE CowPTE(d) \in PTE /\ CowPTE(d).pa = d.pa /\ ~CowPTE(d).w
    BY Zenon DEF PTE, CowPTE
  <2> QED
    BY <1>4, <2>1, Zenon
<1>7. SUFFICES ASSUME
         \A a \in Space, y \in VPage : leaf'[a][y].w => leaf'[a][y] = leaf[a][y] /\ ~(a = p /\ y = v),
         \A b \in Space, y \in VPage : \/ leaf'[b][y].pa = leaf[b][y].pa
                                       \/ y = v /\ leaf'[b][y].pa = leaf[p][v].pa,
         \A b \in Space : b # p /\ b # s => leaf'[b] = leaf[b],
         \A y \in VPage : leaf'[p][y].pa = leaf[p][y].pa,
         \A q \in Proc : q # p => th'[q] = th[q],
         th'[p].op = "fork", th'[p].pc \in {"uvmcopy", "uvmfree"}, ForkShares(p)'
       PROVE  ViewInv' /\ UNCHANGED View
  <2>1. CASE leaf' = [leaf EXCEPT ![p][v] = e] /\ (UNCHANGED th \/ Undo(p))
    <3>1. /\ leaf'[p][v] = e
          /\ \A a \in Space, y \in VPage : a # p \/ y # v => leaf'[a][y] = leaf[a][y]
          /\ \A b \in Space : b # p => leaf'[b] = leaf[b]
      BY <1>4, <2>1, Zenon
    <3>2. /\ \A a \in Space, y \in VPage : leaf'[a][y].w => leaf'[a][y] = leaf[a][y] /\ ~(a = p /\ y = v)
          /\ \A b \in Space, y \in VPage : leaf'[b][y].pa = leaf[b][y].pa
      BY <1>6, <3>1, Zenon
    <3>3. th'[p].op = "fork" /\ th'[p].pc \in {"uvmcopy", "uvmfree"} /\ \A q \in Proc : q # p => th'[q] = th[q]
      BY <1>1, <1>2, <2>1, UndoIs, Zenon
    <3>4. ForkShares(p)'
      <4>1. CASE UNCHANGED th
        BY <1>2, <1>3, <1>4, <3>2, <4>1, Zenon DEF ForkShares
      <4>2. CASE Undo(p)
        BY <1>2, <4>2, UndoIs, Zenon DEF ForkShares
      <4> QED
        BY <2>1, <4>1, <4>2, Zenon
    <3> QED
      BY <1>4, <1>7, <3>1, <3>2, <3>3, <3>4, ZenonT(30)
  <2>2. CASE leaf' = [leaf EXCEPT ![p][v] = e, ![s][v] = e] /\ th' = [th EXCEPT ![p].i = v + 1]
    <3>1. /\ leaf'[p][v] = e /\ leaf'[s][v] = e
          /\ \A a \in Space, y \in VPage : (a # p /\ a # s) \/ y # v => leaf'[a][y] = leaf[a][y]
          /\ \A b \in Space : b # p /\ b # s => leaf'[b] = leaf[b]
      BY <1>3, <1>4, <2>2, Zenon
    <3>2. /\ \A a \in Space, y \in VPage : leaf'[a][y].w => leaf'[a][y] = leaf[a][y] /\ ~(a = p /\ y = v)
          /\ \A b \in Space, y \in VPage : \/ leaf'[b][y].pa = leaf[b][y].pa
                                           \/ y = v /\ leaf'[b][y].pa = leaf[p][v].pa
          /\ \A y \in VPage : leaf'[p][y].pa = leaf[p][y].pa
      BY <1>4, <1>6, <3>1, Zenon
    <3>3. th' = [th EXCEPT ![p] = [th[p] EXCEPT !.i = v + 1]]
      BY <2>2, Zenon
    <3>4. th'[p] = [th[p] EXCEPT !.i = v + 1] /\ \A q \in Proc : q # p => th'[q] = th[q]
      BY <3>3, SetThread, Zenon
    <3>5. th'[p].op = "fork" /\ th'[p].pc = "uvmcopy" /\ th'[p].np = s /\ th'[p].i = v + 1
      BY <1>1, <1>2, <1>3, <1>4, <3>4, Zenon DEF Thread
    <3>6. ASSUME NEW y \in VPage, y < v + 1 PROVE leaf'[s][y].pa = leaf'[p][y].pa
      <4>1. CASE y = v
        BY <3>1, <4>1, Zenon
      <4>2. CASE y # v
        <5>1. y < v
          BY <3>6, <4>2, SMTT(40) DEF VPage
        <5>2. leaf[s][y].pa = leaf[p][y].pa
          BY <1>1, <1>2, <1>3, <1>5, <5>1, Zenon DEF ForkShares
        <5> QED
          BY <1>4, <3>1, <4>2, <5>2, Zenon
      <4> QED
        BY <4>1, <4>2, Zenon
    <3>7. ForkShares(p)'
      BY <3>5, <3>6, Zenon DEF ForkShares
    <3>8. th'[p].pc \in {"uvmcopy", "uvmfree"}
      BY <3>5, Zenon
    <3> QED
      BY <1>7, <3>1, <3>2, <3>4, <3>5, <3>7, <3>8, Zenon
  <2> QED
    BY <1>3, <1>5, <1>6, <2>1, <2>2, Zenon DEF uvmcopy, MappagesFails
<1>8. state[p] = "RUNNABLE"
  BY <1>1, <1>2, Zenon DEF LiveThread
<1>9. PrivateWhenWritable'
  <2>1. SUFFICES ASSUME NEW a \in Space, NEW b \in Space, NEW y \in VPage,
                    leaf'[a][y].w, leaf'[a][y].pa # NULL, leaf'[b][y].pa = leaf'[a][y].pa, a # b
                 PROVE  Excused(a, y)'
    BY Zenon DEF PrivateWhenWritable
  <2>2. leaf[a][y].w /\ leaf[a][y].pa # NULL /\ leaf'[a][y].pa = leaf[a][y].pa /\ ~(a = p /\ y = v)
    BY <1>7, <2>1, Zenon
  <2>3. PrivateWhenWritable
    BY Zenon DEF ViewInv
  <2>4. Excused(a, y)
    <3>1. CASE leaf[b][y].pa = leaf[a][y].pa
      BY <2>1, <2>2, <2>3, <3>1, Zenon DEF PrivateWhenWritable
    <3>2. CASE y = v /\ leaf[p][v].pa = leaf[a][y].pa
      BY <1>4, <2>2, <2>3, <3>2, Zenon DEF PrivateWhenWritable
    <3> QED
      BY <1>7, <2>1, <2>2, <3>1, <3>2, ZenonT(30)
  <2>5. ~Excused(p, y)
    BY <1>1, NotExcused, Zenon
  <2> QED
    BY <1>1, <1>7, <2>4, <2>5, Zenon DEF Excused
<1>10. ThreadSees(p)'
  BY <1>1, <1>7, <1>8, Zenon DEF ThreadSees, CowSetsW, LiveThread, FreshContent
<1>11. OthersStay(p) /\ Elsewhere(p) /\ WritesMine(p)
  BY <1>1, <1>2, <1>3, <1>7, Zenon DEF OthersStay, Elsewhere, WritesMine
<1>12. ASSUME NEW y \in VPage PROVE See(p, y)' = See(p, y)
  <2>1. Seen(p, y)' <=> Seen(p, y)
    BY <1>1, <1>7, Zenon DEF Seen
  <2> QED
    BY <1>1, <1>7, <2>1, Zenon DEF See
<1> QED
  BY <1>1, <1>9, <1>10, <1>11, <1>12, OwnStep, ViewSame, Zenon

(* uvmunmap takes away a page that nobody sees. *)
LEMMA PrivateUvmunmap ==
  ASSUME ThreadInv, SizeInv, ViewInv, NEW p \in Proc, uvmunmap(p)
  PROVE  ViewInv' /\ UNCHANGED View
<1>1. /\ th[p].pc \in {"uvmfree", "uvmdealloc"} /\ UNCHANGED <<content, sz, state>>
      /\ leaf' = [leaf EXCEPT ![th[p].np][th[p].i] = NoPTE]
      /\ th' = [th EXCEPT ![p].i = th[p].i + 1] /\ th[p].i < th[p].n
  BY Zenon DEF uvmunmap, procs
<1>2. /\ Works(th[p]) /\ th[p].op \in {"wait", "fork", "exec", "sbrk", "shrink"}
      /\ Target(p, th[p]) /\ Locals(th[p]) /\ LiveThread(p)
  BY <1>1, WorksFor, Zenon DEF Works, ThreadInv, ViewInv, ThreadSees
<1>3. PICK s \in Space : s = th[p].np
  BY <1>2, WorksFor, Zenon
<1>4. th[p] \in Thread /\ leaf \in [Space -> [VPage -> PTE]] /\ LoopBounds(th[p], sz[p]) /\ p \in Space
  BY <1>2, InLoop, Zenon DEF Space
<1>5. PICK v \in VPage : v = th[p].i
  BY <1>1, <1>2, <1>4, SizeAssumption, SMTT(40) DEF Locals, VPage, Thread
<1>6. /\ leaf'[s][v] = NoPTE /\ \A b \in Space : b # s => leaf'[b] = leaf[b]
      /\ \A a \in Space, y \in VPage : a # s \/ y # v => leaf'[a][y] = leaf[a][y]
  BY <1>1, <1>3, <1>4, <1>5, Zenon
<1>7. /\ th'[p].pc = th[p].pc /\ th'[p].op = th[p].op /\ th'[p].newsz = th[p].newsz
      /\ \A q \in Proc : q # p => th'[q] = th[q]
  BY <1>1, <1>4, Zenon DEF Thread, ThreadInv, TypeOK
<1>8. PrivateWhenWritable'
  <2>1. \A q \in Proc : StillExcused(q)
    BY <1>1, <1>7, NotExcused, SameExcused, Zenon
  <2>2. \A a \in Space, y \in VPage :
          /\ leaf'[a][y].pa # NULL => leaf'[a][y].pa = leaf[a][y].pa
          /\ leaf'[a][y].w => leaf[a][y].w
    <3>1. NoPTE.pa = NULL /\ ~NoPTE.w
      BY Zenon DEF NoPTE
    <3> QED
      BY <1>6, <3>1, Zenon
  <2> QED
    BY <2>1, <2>2, StillPrivate, Zenon DEF ViewInv
<1>9. ThreadSees(p)'
  BY <1>1, <1>2, <1>7, Zenon DEF ThreadSees, CowSetsW, LiveThread, ForkShares, FreshContent
<1>10. OthersStay(p) /\ Elsewhere(p) /\ WritesMine(p)
  BY <1>1, <1>2, <1>3, <1>6, <1>7, Zenon DEF OthersStay, Elsewhere, WritesMine
<1>11. ASSUME NEW y \in VPage PROVE See(p, y)' = See(p, y)
  <2>1. Seen(p, y)' <=> Seen(p, y)
    BY <1>1, <1>7, Zenon DEF Seen, Keeps
  <2>2. Seen(p, y) => s # p \/ y # v
    <3>1. SUFFICES ASSUME Seen(p, y), s = p, y = v PROVE FALSE
      BY Zenon
    <3>2. th[p].op \in {"sbrk", "shrink"}
      <4>1. p \in Nat \ {0} /\ state[p] = "RUNNABLE"
        BY <3>1, ProcAssumption, Zenon DEF Seen
      <4> QED
        BY <1>2, <1>3, <3>1, <4>1, SMTT(40) DEF Target
    <3>3. th[p].pc = "uvmdealloc"
      BY <1>1, <3>2, WorksFor, Zenon
    <3>4. Pages(Keeps(th[p], sz[p])) \in Nat /\ Pages(Keeps(th[p], sz[p])) <= v
      BY <1>4, <1>5, <3>3, PagesNat, SMTT(40) DEF LoopBounds, Keeps
    <3> QED
      BY <3>1, <3>3, <3>4, SMTT(40) DEF Seen, VPage
  <2>3. Seen(p, y) => leaf'[p][y] = leaf[p][y]
    BY <1>4, <1>6, <2>2, Zenon
  <2>4. content' = content
    BY <1>1, Zenon
  <2> QED
    BY <2>1, <2>3, <2>4, Zenon DEF See
<1> QED
  BY <1>1, <1>8, <1>9, <1>10, <1>11, OwnStep, ViewSame, Zenon

(* uvmalloc takes a page from the free list and fills it. *)
LEMMA PrivateNewPage ==
  ASSUME ThreadInv, SizeInv, SoleRefs, ViewInv, NEW p \in Proc, th[p].pc = "uvmalloc",
         NEW m \in PA, kalloc(m),
         content' = [content EXCEPT ![m] = NewContent(th[p].op)],
         th' = [th EXCEPT ![p].mem = m], UNCHANGED <<leaf, sz, state>>
  PROVE  ViewInv' /\ UNCHANGED View
<1>1. m \in freelist
  BY KmemAssumption, Zenon DEF kalloc, ThreadInv, TypeOK
<1>2. Unreferred(m)
  BY <1>1, Zenon DEF SoleRefs
<1>3. /\ th[p].op \in {"userinit", "exec", "sbrk"} /\ Works(th[p]) /\ th[p] \in Thread
      /\ FreshContent(p) /\ LiveThread(p) /\ p \in Space
  BY WorksFor, PagesNat, Zenon DEF Works, ViewInv, ThreadSees, Space
<1>4. PICK s \in Space : s = th[p].np
  BY <1>3, WorksFor, Zenon
<1>5. content'[m] = NewContent(th[p].op) /\ \A z : z # m => content'[z] = content[z]
  BY DEF ThreadInv, TypeOK
<1>6. /\ th'[p].pc = "uvmalloc" /\ th'[p].op = th[p].op /\ th'[p].np = s
      /\ th'[p].i = th[p].i /\ th'[p].mem = m
      /\ \A q \in Proc : q # p => th'[q] = th[q]
  BY <1>3, <1>4, Zenon DEF ThreadInv, TypeOK, Thread
<1>7. PrivateWhenWritable'
  <2>1. \A q \in Proc : StillExcused(q)
    BY <1>6, NotExcused, SameExcused, Zenon
  <2> QED
    BY <2>1, StillPrivate, Zenon DEF ViewInv
<1>8. ThreadSees(p)'
  <2>1. ASSUME NEW v \in VPage, v < th[p].i, th[p].op = "sbrk" => Pages(sz[p]) <= v
        PROVE  content'[leaf[s][v].pa] = NewContent(th[p].op)
    <3>1. content[leaf[s][v].pa] = NewContent(th[p].op)
      BY <1>3, <1>4, <2>1, Zenon DEF FreshContent
    <3>2. leaf[s][v].pa # m
      BY <1>2, Zenon DEF Unreferred
    <3> QED
      BY <1>5, <3>1, <3>2, Zenon
  <2>2. FreshContent(p)'
    BY <1>5, <1>6, <2>1, Zenon DEF FreshContent
  <2> QED
    BY <1>3, <1>6, <2>2, Zenon DEF ThreadSees, CowSetsW, LiveThread, ForkShares
<1>9. OthersStay(p) /\ Elsewhere(p) /\ WritesMine(p)
  <2>1. Mine(p, m)
    BY <1>2, Zenon DEF Mine, Unreferred
  <2> QED
    BY <1>5, <1>6, <2>1, Zenon DEF OthersStay, Elsewhere, WritesMine
<1>10. ASSUME NEW v \in VPage PROVE See(p, v)' = See(p, v)
  <2>1. Seen(p, v)' <=> Seen(p, v)
    BY <1>6, Zenon DEF Seen
  <2>2. content'[leaf[p][v].pa] = content[leaf[p][v].pa]
    BY <1>2, <1>3, <1>5, Zenon DEF Unreferred
  <2> QED
    BY <2>1, <2>2, Zenon DEF See
<1> QED
  BY <1>7, <1>8, <1>9, <1>10, OwnStep, ViewSame, Zenon

(* uvmalloc maps the page it has filled. *)
LEMMA PrivateMap ==
  ASSUME ThreadInv, SizeInv, SoleRefs, ViewInv, NEW p \in Proc, th[p].pc = "uvmalloc",
         th[p].mem # NULL, th[p].i < th[p].n,
         leaf' = [leaf EXCEPT ![th[p].np][th[p].i] = NewPTE(th[p])],
         th' = [th EXCEPT ![p].i = th[p].i + 1, ![p].mem = NULL],
         UNCHANGED <<content, sz, state>>
  PROVE  ViewInv' /\ UNCHANGED View
<1>1. /\ th[p].op \in {"userinit", "exec", "sbrk"} /\ Works(th[p]) /\ th[p] \in Thread
      /\ FreshContent(p) /\ LiveThread(p) /\ p \in Space /\ Locals(th[p]) /\ Target(p, th[p])
      /\ leaf \in [Space -> [VPage -> PTE]]
  BY WorksFor, PagesNat, Zenon DEF Works, ViewInv, ThreadSees, Space, ThreadInv, TypeOK
<1>2. PICK s \in Space : s = th[p].np
  BY <1>1, WorksFor, Zenon
<1>3. PICK x \in VPage : x = th[p].i
  BY <1>1, SizeAssumption DEF Locals, VPage, Thread
<1>4. PICK m : m = th[p].mem /\ m # NULL
  OBVIOUS
<1>5. Unmapped(m)
  BY <1>4, Zenon DEF SoleRefs, Unmapped
<1>6. PICK e : e = NewPTE(th[p]) /\ e.pa = m
  BY <1>4 DEF NewPTE
<1>7. leaf' = [leaf EXCEPT ![s][x] = e]
  BY <1>2, <1>3, <1>6, Zenon
<1>8. leaf'[s][x] = e /\ OnlyPTE(s, x) /\ \A b \in Space : b # s => leaf'[b] = leaf[b]
  BY <1>1, <1>7, SMTT(40) DEF OnlyPTE
<1>9. /\ th'[p].pc = "uvmalloc" /\ th'[p].op = th[p].op /\ th'[p].np = s
      /\ th'[p].i = x + 1 /\ th'[p].mem = NULL
      /\ \A q \in Proc : q # p => th'[q] = th[q]
  BY <1>1, <1>2, <1>3, Zenon DEF ThreadInv, TypeOK, Thread
<1>10. PrivateWhenWritable'
  <2>1. \A q \in Proc : StillExcused(q)
    BY <1>9, NotExcused, SameExcused, ZenonT(30)
  <2>2. OnlyExcuse(s, x) /\ PrivateWhenWritable
    BY <2>1, Zenon DEF StillExcused, OnlyExcuse, ViewInv
  <2>3. leaf'[s][x].pa = m
    BY <1>6, <1>8, Zenon
  <2> QED
    BY <1>5, <1>8, <2>2, <2>3, FreshPrivate, Zenon
<1>11. ThreadSees(p)'
  <2>1. ASSUME NEW v \in VPage, v < x + 1, th[p].op = "sbrk" => Pages(sz[p]) <= v
        PROVE  content[leaf'[s][v].pa] = NewContent(th[p].op)
    <3>1. CASE v = x
      BY <1>1, <1>4, <1>6, <1>8, <3>1, Zenon DEF FreshContent
    <3>2. CASE v # x
      <4>1. v < th[p].i /\ leaf'[s][v] = leaf[s][v]
        BY <1>3, <1>8, <2>1, <3>2, SMTT(40) DEF VPage, OnlyPTE
      <4> QED
        BY <1>1, <1>2, <2>1, <4>1, Zenon DEF FreshContent
    <3> QED
      BY <3>1, <3>2, ZenonT(30)
  <2>2. FreshContent(p)'
    BY <1>9, <2>1, Zenon DEF FreshContent
  <2> QED
    BY <1>1, <1>9, <2>2, ZenonT(30) DEF ThreadSees, CowSetsW, LiveThread, ForkShares
<1>12. OthersStay(p) /\ Elsewhere(p) /\ WritesMine(p)
  BY <1>1, <1>2, <1>8, <1>9, Zenon DEF OthersStay, Elsewhere, WritesMine
<1>13. ASSUME NEW v \in VPage PROVE See(p, v)' = See(p, v)
  <2>1. Seen(p, v)' <=> Seen(p, v)
    BY <1>9, Zenon DEF Seen
  <2>2. Seen(p, v) => s # p \/ v # x
    <3>1. SUFFICES ASSUME Seen(p, v), s = p, v = x PROVE FALSE
      OBVIOUS
    <3>2. th[p].op = "sbrk"
      <4>1. p \in Nat \ {0} /\ state[p] = "RUNNABLE"
        BY <3>1, ProcAssumption, Zenon DEF Seen
      <4> QED
        BY <1>1, <1>2, <3>1, <4>1, SMTT(40) DEF Target, LiveThread
    <3>3. Pages(sz[p]) \in Nat /\ Pages(sz[p]) <= x
      BY <1>1, <1>3, <3>2, InLoop, PagesNat, SMTT(40) DEF LoopBounds
    <3> QED
      BY <3>1, <3>3 DEF Seen, VPage
  <2>3. Seen(p, v) => leaf'[p][v] = leaf[p][v]
    BY <1>1, <1>8, <2>2, Zenon DEF OnlyPTE
  <2>4. CASE Seen(p, v)
    <3>1. leaf'[p][v].pa = leaf[p][v].pa
      BY <2>3, <2>4, Zenon
    <3>2. content'[leaf'[p][v].pa] = content[leaf[p][v].pa]
      BY <3>1, Zenon
    <3> QED
      BY <2>1, <2>4, <3>2, Zenon DEF See
  <2>5. CASE ~Seen(p, v)
    BY <2>1, <2>5, Zenon DEF See
  <2> QED
    BY <2>4, <2>5, Zenon
<1> QED
  BY <1>10, <1>11, <1>12, <1>13, OwnStep, ViewSame, Zenon

(* uvmalloc on one page. *)
LEMMA PrivateUvmalloc ==
  ASSUME ThreadInv, SizeInv, SoleRefs, ViewInv, NEW p \in Proc, uvmalloc(p)
  PROVE  ViewInv' /\ UNCHANGED View
<1>1. th[p].pc = "uvmalloc" /\ th[p].i < th[p].n /\ UNCHANGED <<sz, state>>
  BY Zenon DEF uvmalloc, Running, procs
<1>2. CASE \E m \in PA : /\ kalloc(m)
                         /\ content' = [content EXCEPT ![m] = IF th[p].op = "sbrk" THEN Zero ELSE Image]
                         /\ th' = [th EXCEPT ![p].mem = m] /\ UNCHANGED leaf
  BY <1>1, <1>2, PrivateNewPage, Zenon DEF NewContent
<1>3. CASE Undo(p) /\ UNCHANGED <<content, leaf>>
  BY <1>1, <1>3, PrivateUndo, Zenon
<1>4. CASE UNCHANGED <<content, leaf, th>>
  BY <1>1, <1>4, WorksFor, SameSees, Zenon
<1>5. CASE /\ th[p].mem # NULL /\ leaf' = [leaf EXCEPT ![th[p].np][th[p].i] = NewPTE(th[p])]
           /\ th' = [th EXCEPT ![p].i = th[p].i + 1, ![p].mem = NULL] /\ UNCHANGED content
  BY <1>1, <1>5, PrivateMap, Zenon
<1> QED
  BY <1>2, <1>3, <1>4, <1>5, Zenon DEF uvmalloc

-----------------------------------------------------------------------------
(* ViewInv holds at first, and every step keeps it and is one of           *)
(* PrivateMem's, or not seen.                                              *)

(* At first nothing is mapped and no process runs. *)
LEMMA PrivateInit == Init => ViewInv /\ PM!Init
<1> SUFFICES ASSUME Init PROVE ViewInv /\ PM!Init
  OBVIOUS
<1>1. \A s \in Space, v \in VPage : leaf[s][v] = NoPTE
  BY Zenon DEF Init
<1>2. PrivateWhenWritable
  BY <1>1 DEF PrivateWhenWritable, NoPTE
<1>3. ASSUME NEW p \in Proc
      PROVE  state[p] # "RUNNABLE" /\ ThreadSees(p)
  <2>1. CASE p = initproc
    <3>1. state[p] = "USED" /\ th[p].pc = "proc_pagetable" /\ th[p].op = "userinit"
      BY <2>1, Zenon DEF Init, Idle
    <3> QED
      BY <3>1, Zenon DEF ThreadSees, CowSetsW, LiveThread, ForkShares, FreshContent
  <2>2. CASE p # initproc
    <3>1. state[p] = "UNUSED" /\ th[p].pc = "none"
      BY <2>2, Zenon DEF Init, Idle
    <3> QED
      BY <3>1, Zenon DEF ThreadSees, CowSetsW, LiveThread, ForkShares, FreshContent
  <2> QED
    BY <2>1, <2>2, Zenon
<1>4. View = [p \in Proc |-> [v \in VPage |-> NULL]]
  BY <1>3, Zenon DEF View
<1> QED
  BY <1>2, <1>3, <1>4, Zenon DEF ViewInv, PM!Init, PM!Empty

(* Every step keeps ViewInv and shows as a step of PrivateMem, or not. *)
LEMMA PrivateNext ==
  ASSUME ThreadInv, SizeInv, SoleRefs, ViewInv, CopyoutServed, [Next]_vars
  PROVE  ViewInv' /\ [PM!Next]_View
<1>1. SUFFICES ViewInv' /\ (PM!Next \/ UNCHANGED View)
  BY Zenon
<1>2. CASE UNCHANGED vars
  <2>1. UNCHANGED <<leaf, content, sz, state, th>>
    BY <1>2, Zenon DEF vars, space, procs
  <2>2. UNCHANGED View
    BY <2>1, Zenon DEF View
  <2>3. PrivateWhenWritable'
    BY <2>1, Zenon DEF ViewInv, PrivateWhenWritable, Excused
  <2>4. ASSUME NEW p \in Proc PROVE ThreadSees(p)'
    <3>1. ThreadSees(p)
      BY Zenon DEF ViewInv
    <3> QED
      BY <2>1, <3>1, Zenon DEF ThreadSees, CowSetsW, LiveThread, ForkShares, FreshContent
  <2> QED
    BY <2>2, <2>3, <2>4, Zenon DEF ViewInv
<1>3. ASSUME NEW p \in Proc, Kernel(p) PROVE ViewInv' /\ (PM!Next \/ UNCHANGED View)
  BY <1>3, PrivateRetry, PrivateCalls, PrivateCowAlloc, PrivateCowKalloc, PrivateCowCopy,
     PrivateCowKfree, PrivateFinishKfree, PrivateCopyout, PrivateProcPagetable, PrivateUvmcopy,
     PrivateForkReturns, PrivateExit, PrivateUvmunmap, PrivateFreewalk, PrivateFreeproc,
     PrivateUvmalloc, PrivateUvmallocDone, PrivateUvmdeallocDone, PrivateExecCommit, Zenon, Zenon
     DEF Kernel
<1>4. ASSUME NEW p \in Proc, UserCode(p) PROVE ViewInv' /\ (PM!Next \/ UNCHANGED View)
  <2>1. \A n \in SbrkArgs : n \in Int
    BY InputAssumption, Zenon
  <2> QED
    BY <1>4, <2>1, PrivateStore, PrivateCalls, PrivateSbrkGrow, PrivateSbrkShrink, PrivateFork, Zenon
       DEF UserCode
<1> QED
  BY <1>2, <1>3, <1>4, Zenon DEF Next

(* The invariant says what WritableIsPrivate asks of a running program. *)
LEMMA ViewPrivate ==
  ASSUME ThreadInv, SoleRefs, ViewInv
  PROVE  WritableIsPrivate
<1> SUFFICES ASSUME NEW p \in Proc, NEW v \in VPage,
                    th[p].pc \in {"user", "retry"}, Writable(leaf[p][v])
             PROVE  LeafRefs(leaf[p][v].pa) = {<<p, v>>}
  BY Zenon DEF WritableIsPrivate
<1>1. leaf[p][v].pa # NULL /\ leaf[p][v].w /\ p \in Space
  BY Zenon DEF Writable, Space
<1>2. ~Excused(p, v)
  BY NotExcused, Zenon
<1>3. \A s \in Space, x \in VPage : leaf[s][x].pa = leaf[p][v].pa => x = v
  BY <1>1, Zenon DEF SoleRefs, SameVPage
<1>4. \A s \in Space : leaf[s][v].pa = leaf[p][v].pa => s = p
  BY <1>1, <1>2, Zenon DEF ViewInv, PrivateWhenWritable
<1> QED
  BY <1>1, <1>3, <1>4, SMTT(40) DEF LeafRefs
=============================================================================
