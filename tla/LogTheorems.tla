------------------------------ MODULE LogTheorems -----------------------------
(***************************************************************************)
(* Theorems about Log, for every number of processes, blocks and log       *)
(* entries: the inductive invariant, one lemma for each action that says   *)
(* that the action keeps it, and what follows from it about pinned         *)
(* buffers, sleepers and crashes.                                          *)
(***************************************************************************)
EXTENDS Log, FiniteSetTheorems, TLAPS

-----------------------------------------------------------------------------
(* The inductive invariant.                                                *)

Calls == {p \in Proc : th[p].pc \in {"op", "locked"}}
Commits(p) == th[p].pc \in {"write_log", "write_head", "install_trans", "clear_head", "committed"}
Installs(p) == th[p].pc \in {"install_trans", "clear_head"}

(* Entry i of the log has been copied to its home. *)
Done(i) == \E p \in Proc : th[p].pc = "clear_head" \/ (th[p].pc = "install_trans" /\ i <= th[p].tail)
Waits(b) == up /\ \E i \in DOMAIN lh : lh[i] = b /\ ~Done(i)

(* The lists name no block twice and fit in the log. *)
Lists ==
  /\ \A i, j \in DOMAIN lh : lh[i] = lh[j] => i = j
  /\ \A i, j \in DOMAIN head : head[i] = head[j] => i = j
  /\ Len(lh) <= Size - 1 /\ Len(head) <= Size - 1

(* The calls that are open are counted, and hold the buffers that are      *)
(* locked.                                                                 *)
Counted ==
  /\ outstanding = Cardinality(Calls)
  /\ \A p \in Proc : th[p].pc = "locked" => th[p].blk \in Block
  /\ \A p \in Proc, b \in Block : holder[b] = p <=> th[p].pc = "locked" /\ th[p].blk = b
  /\ \A b \in Block : holder[b] # NULL => cache[b] # NULL

(* One process commits, when no call is open; what is in the log belongs   *)
(* to open calls or to the commit.                                         *)
Phases ==
  /\ \A p, q \in Proc : Commits(p) /\ Commits(q) => p = q
  /\ committing => outstanding = 0
  /\ up => /\ committing <=> \E p \in Proc : Commits(p)
           /\ lh # <<>> => outstanding > 0 \/ committing
           /\ \A p \in Proc : th[p].pc # "read_head"
           /\ head = IF \E p \in Proc : Installs(p) THEN lh ELSE <<>>
  /\ \A p \in Proc :
       /\ th[p].pc \in {"write_log", "install_trans"} => th[p].tail < Len(lh)
       /\ th[p].pc = "write_head" => lh # <<>> /\ th[p].tail = 0
       /\ th[p].pc = "committed" => lh = <<>>

(* Until the file system is up only the first process runs. *)
Boots ==
  ~up => /\ outstanding = 0 /\ ~committing
         /\ \A p \in Proc : p # initproc => th[p].pc = "idle"
         /\ th[initproc].pc \in {"read_head", "install_trans", "clear_head"}
         /\ th[initproc].pc = "read_head" => lh = <<>> /\ th[initproc].tail = 0
         /\ th[initproc].pc # "read_head" => lh = head

(* What is in the log and at home. *)
Copies ==
  \A p \in Proc :
    /\ th[p].pc = "write_log" => \A j \in DOMAIN lh : j <= th[p].tail => logged[j] = Data(lh[j])
    /\ th[p].pc = "write_head" \/ (up /\ th[p].pc = "install_trans") =>
         \A j \in DOMAIN lh : logged[j] = Data(lh[j])
    /\ th[p].pc = "install_trans" => \A j \in DOMAIN lh : j <= th[p].tail => home[lh[j]] = logged[j]
    /\ th[p].pc = "clear_head" => \A j \in DOMAIN lh : home[lh[j]] = logged[j]

(* A block that waits in the log is pinned in the cache; no other buffer   *)
(* differs from the disk.                                                  *)
Pinned ==
  \A b \in Block : IF Waits(b) THEN pins[b] = 1 /\ cache[b] # NULL
                   ELSE pins[b] = 0 /\ cache[b] \in {NULL, home[b]}

LogInv == TypeOK /\ Lists /\ Counted /\ Phases /\ Boots /\ Copies /\ Pinned
-----------------------------------------------------------------------------
(* Initially.                                                              *)

(* Init, and every state right after a crash, satisfies the invariant. *)
LEMMA InitInv == Init => LogInv
<1> SUFFICES ASSUME Init PROVE LogInv
  OBVIOUS
<1> USE LogAssumption
<1>1. TypeOK
  <2>1. th \in [Proc -> Thread]
    BY DEF Init, Thread, Booting, Idle
  <2>2. home \in [Block -> Val \cup {Torn}] /\ logged \in [Slot -> Val \cup {Torn}]
    BY DEF Init
  <2>3. head \in Seq(Block) /\ lh \in Seq(Block) /\ outstanding \in Nat
    BY DEF Init
  <2>4. committing \in BOOLEAN /\ up \in BOOLEAN
    BY Zenon DEF Init
  <2>5. cache \in [Block -> Val \cup {Torn, NULL}] /\ pins \in [Block -> Nat] /\ holder \in [Block -> Proc \cup {NULL}]
    BY DEF Init
  <2> QED
    BY <2>1, <2>2, <2>3, <2>4, <2>5 DEF TypeOK
<1>2. Lists
  BY DEF Init, Lists
<1>3. Counted
  <2>1. Calls = {}
    BY DEF Init, Calls, Booting, Idle
  <2> QED
    BY <2>1, FS_EmptySet DEF Init, Counted, Booting, Idle
<1>4. Phases
  BY DEF Init, Phases, Booting, Idle, Commits
<1>5. Boots
  BY DEF Init, Boots, Booting, Idle
<1>6. Copies
  BY DEF Init, Copies, Booting, Idle
<1>7. Pinned
  BY DEF Init, Pinned, Waits
<1> QED
  BY <1>1, <1>2, <1>3, <1>4, <1>5, <1>6, <1>7 DEF LogInv
-----------------------------------------------------------------------------
(* Facts about a state.                                                    *)

(* Open calls can be counted, and outstanding is 0 only if there is none. *)
LEMMA CallsFinite ==
  ASSUME LogInv PROVE IsFiniteSet(Calls) /\ (outstanding = 0 <=> Calls = {})
<1>1. IsFiniteSet(Calls)
  BY LogAssumption, FS_Subset DEF Calls
<1> QED
  BY <1>1, FS_EmptySet DEF LogInv, Counted

(* While a call is open, nobody commits and nothing is being installed. *)
LEMMA OpenCall ==
  ASSUME LogInv, NEW p \in Calls
  PROVE  up /\ ~committing /\ (\A q \in Proc : ~Commits(q)) /\ head = <<>> /\ \A i : ~Done(i)
<1>1. up
  BY DEF LogInv, Boots, Calls
<1>2. ~committing
  BY CallsFinite DEF LogInv, Phases
<1>3. \A q \in Proc : ~Commits(q)
  BY <1>1, <1>2 DEF LogInv, Phases
<1> QED
  BY <1>1, <1>2, <1>3 DEF LogInv, Phases, Commits, Installs, Done

(* A block has some data, on disk or in the cache. *)
LEMMA DataType ==
  ASSUME TypeOK, NEW b \in Block PROVE Data(b) \in Val \cup {Torn} /\ Data(b) # NULL
BY LogAssumption DEF TypeOK, Data

(* Appending an element adds it to the set of elements. *)
LEMMA RangeAppend ==
  ASSUME NEW S, NEW s \in Seq(S), NEW e \in S PROVE Range(Append(s, e)) = Range(s) \cup {e}
<1>1. \A i \in DOMAIN s : i \in DOMAIN Append(s, e) /\ Append(s, e)[i] = s[i]
  OBVIOUS
<1>2. Len(s) + 1 \in DOMAIN Append(s, e) /\ Append(s, e)[Len(s) + 1] = e
  OBVIOUS
<1>3. \A i \in DOMAIN Append(s, e) : i \in DOMAIN s \/ i = Len(s) + 1
  OBVIOUS
<1> QED
  BY <1>1, <1>2, <1>3, Zenon DEF Range

-----------------------------------------------------------------------------
(* Steps of calls and of the cache.                                        *)

Quiet(p) == th[p].pc \in {"idle", "begin_op", "sleep", "op", "locked"}

(* A step that leaves the disk, the log and whoever commits alone, and     *)
(* with them what a read finds, disturbs only the counts and the pins.     *)
LEMMA QuietStep ==
  ASSUME LogInv, UNCHANGED <<disk, lh, up, committing>>,
         up \/ UNCHANGED <<outstanding, th>>,
         committing => outstanding' = 0,
         lh # <<>> /\ ~committing => outstanding' > 0 \/ ~up,
         \A q \in Proc : th'[q] = th[q] \/ (Quiet(q) /\ Quiet(q)'),
         \A b \in Block : Data(b)' = Data(b)
  PROVE  Lists' /\ Phases' /\ Boots' /\ Copies' /\ \A b \in Block : Waits(b)' <=> Waits(b)
<1> USE DEF disk
<1>1. \A q \in Proc : Quiet(q) => ~Commits(q) /\ ~Installs(q) /\ th[q].pc # "read_head"
  BY DEF Quiet, Commits, Installs
<1>2. \A q \in Proc : Quiet(q)' => ~Commits(q)' /\ ~Installs(q)' /\ th'[q].pc # "read_head"
  BY DEF Quiet, Commits, Installs
<1>3. \A q \in Proc : (Commits(q)' <=> Commits(q)) /\ (Installs(q)' <=> Installs(q))
                      /\ (Commits(q) \/ th[q].pc = "read_head" \/ th'[q].pc = "read_head" => th'[q] = th[q])
  BY <1>1, <1>2 DEF Commits, Installs
<1>4. Lists'
  BY DEF LogInv, Lists
<1>5. Phases'
  <2>1. \A q, r \in Proc : Commits(q)' /\ Commits(r)' => q = r
    BY <1>3 DEF LogInv, Phases
  <2>2. up => (committing <=> \E q \in Proc : Commits(q)') /\ \A q \in Proc : th'[q].pc # "read_head"
    BY <1>3 DEF LogInv, Phases
  <2>3. up => head = IF \E q \in Proc : Installs(q)' THEN lh ELSE <<>>
    BY <1>3 DEF LogInv, Phases
  <2>4. \A q \in Proc :
          /\ th'[q].pc \in {"write_log", "install_trans"} => th'[q].tail < Len(lh)
          /\ th'[q].pc = "write_head" => lh # <<>> /\ th'[q].tail = 0
          /\ th'[q].pc = "committed" => lh = <<>>
    BY <1>3 DEF LogInv, Phases, Commits
  <2>5. Len(lh') = Len(lh)
    OBVIOUS
  <2> QED
    BY <2>1, <2>2, <2>3, <2>4, <2>5 DEF Phases
<1>6. Boots'
  <2>1. CASE up
    BY <2>1 DEF Boots
  <2>2. CASE ~up
    BY <2>2 DEF LogInv, Boots
  <2> QED
    BY <2>1, <2>2
<1>7. Copies'
  <2> SUFFICES ASSUME NEW q \in Proc, th'[q] = th[q]
               PROVE  /\ th[q].pc = "write_log" => \A j \in DOMAIN lh : j <= th[q].tail => logged[j] = Data(lh[j])'
                      /\ th[q].pc = "write_head" \/ (up /\ th[q].pc = "install_trans") =>
                           \A j \in DOMAIN lh : logged[j] = Data(lh[j])'
                      /\ th[q].pc = "install_trans" => \A j \in DOMAIN lh : j <= th[q].tail => home[lh[j]] = logged[j]
                      /\ th[q].pc = "clear_head" => \A j \in DOMAIN lh : home[lh[j]] = logged[j]
    BY <1>2, <1>3 DEF Copies, Commits
  <2>1. \A j \in DOMAIN lh : Data(lh[j])' = Data(lh[j])
    BY DEF LogInv, TypeOK
  <2> QED
    BY <2>1 DEF LogInv, Copies
<1>8. \A b \in Block : Waits(b)' <=> Waits(b)
  <2>1. \A j : Done(j)' <=> Done(j)
    BY <1>3 DEF Done, Commits
  <2> QED
    BY <2>1 DEF Waits
<1> QED
  BY <1>4, <1>5, <1>6, <1>7, <1>8

(* A call enters the kernel. *)
LEMMA SysCallInv ==
  ASSUME LogInv, NEW p \in Proc, SysCall(p) PROVE LogInv'
<1> USE DEF SysCall, Goto, disk
<1>0. th' = [th EXCEPT ![p] = [@ EXCEPT !.pc = "begin_op"]] /\ th \in [Proc -> Thread]
  BY DEF LogInv, TypeOK
<1>1. TypeOK'
  BY ZenonT(30) DEF LogInv, TypeOK, Thread
<1>2. Calls' = Calls
  BY <1>0 DEF Calls, Thread
<1>3. Counted'
  BY <1>0, <1>2 DEF LogInv, Counted, Thread
<1>4. Lists' /\ Phases' /\ Boots' /\ Copies' /\ \A b \in Block : Waits(b)' <=> Waits(b)
  <2>1. \A q \in Proc : th'[q] = th[q] \/ (Quiet(q) /\ Quiet(q)')
    BY <1>0 DEF Quiet, Thread
  <2>2. \A b \in Block : Data(b)' = Data(b)
    BY DEF Data
  <2> QED
    BY <2>1, <2>2, QuietStep DEF LogInv, Phases
<1>5. Pinned'
  BY <1>4 DEF LogInv, Pinned
<1> QED
  BY <1>1, <1>3, <1>4, <1>5 DEF LogInv

(* begin_op reserves room in the log, or goes to sleep. *)
LEMMA BeginInv ==
  ASSUME LogInv, NEW p \in Proc, begin_op(p) PROVE LogInv'
<1> DEFINE wait == MustWait
<1> USE DEF disk
<1>0. /\ th' = [th EXCEPT ![p] = [@ EXCEPT !.pc = IF wait THEN "sleep" ELSE "op"]]
      /\ th \in [Proc -> Thread] /\ th[p].pc = "begin_op"
      /\ outstanding' = IF wait THEN outstanding ELSE outstanding + 1
      /\ UNCHANGED <<disk, cache, pins, lh, committing, holder, up>>
      /\ committing => wait
  BY DEF LogInv, TypeOK, begin_op, Goto, MustWait
<1> HIDE DEF wait
<1>a. up
  BY <1>0, LogAssumption DEF LogInv, Boots
<1>1. TypeOK'
  <2>1. th' \in [Proc -> Thread]
    BY <1>0 DEF Thread
  <2> QED
    BY <1>0, <2>1 DEF LogInv, TypeOK
<1>2. outstanding' = Cardinality(Calls')
  <2>1. CASE wait
    <3>1. Calls' = Calls
      BY <1>0, <2>1 DEF Calls, Thread
    <3> QED
      BY <1>0, <2>1, <3>1 DEF LogInv, Counted
  <2>2. CASE ~wait
    <3>1. Calls' = Calls \cup {p} /\ p \notin Calls
      BY <1>0, <2>2 DEF Calls, Thread
    <3> QED
      BY <1>0, <2>2, <3>1, CallsFinite, FS_AddElement, Zenon DEF LogInv, Counted
  <2> QED
    BY <2>1, <2>2
<1>3. Counted'
  BY <1>0, <1>2 DEF LogInv, Counted, Thread
<1>4. Lists' /\ Phases' /\ Boots' /\ Copies' /\ \A b \in Block : Waits(b)' <=> Waits(b)
  <2>1. \A q \in Proc : th'[q] = th[q] \/ (Quiet(q) /\ Quiet(q)')
    BY <1>0 DEF Quiet, Thread
  <2>2. \A b \in Block : Data(b)' = Data(b)
    BY <1>0 DEF Data
  <2>3. (committing => outstanding' = 0) /\ (lh # <<>> /\ ~committing => outstanding' > 0)
    BY <1>0, <1>a DEF LogInv, Phases, TypeOK
  <2> QED
    BY <1>0, <1>a, <2>1, <2>2, <2>3, QuietStep
<1>5. Pinned'
  BY <1>0, <1>4 DEF LogInv, Pinned
<1> QED
  BY <1>1, <1>3, <1>4, <1>5 DEF LogInv

(* bread locks a buffer and fills it from the disk. *)
LEMMA BreadInv ==
  ASSUME LogInv, NEW p \in Proc, NEW b \in Block, bread(p, b) PROVE LogInv'
<1> USE DEF disk
<1>0. /\ th' = [th EXCEPT ![p] = [@ EXCEPT !.pc = "locked", !.blk = b]]
      /\ th \in [Proc -> Thread] /\ th[p].pc = "op" /\ holder[b] = NULL
      /\ holder' = [holder EXCEPT ![b] = p]
      /\ cache' = [cache EXCEPT ![b] = Data(b)]
      /\ cache \in [Block -> Val \cup {Torn, NULL}]
      /\ UNCHANGED <<disk, pins, lh, outstanding, committing, up>>
  BY Zenon DEF LogInv, TypeOK, bread
<1>a. up /\ p \in Calls
  BY <1>0, OpenCall DEF Calls
<1>b. Data(b) \in Val \cup {Torn} /\ Data(b) # NULL
  BY DataType DEF LogInv
<1>1. TypeOK'
  <2>0. [th[p] EXCEPT !.pc = "locked", !.blk = b] \in Thread
    BY <1>0, ZenonT(30) DEF Thread
  <2>1. th' \in [Proc -> Thread]
    BY <1>0, <2>0
  <2>2. cache' \in [Block -> Val \cup {Torn, NULL}]
    BY <1>0, <1>b
  <2>3. holder' \in [Block -> Proc \cup {NULL}]
    BY <1>0 DEF LogInv, TypeOK
  <2> QED
    BY <1>0, <2>1, <2>2, <2>3 DEF LogInv, TypeOK
<1>2. Calls' = Calls
  BY <1>0 DEF Calls, Thread
<1>3. Counted'
  <2>1. \A q \in Proc, x \in Block : holder'[x] = q <=> th'[q].pc = "locked" /\ th'[q].blk = x
    BY <1>0, LogAssumption DEF LogInv, Counted, TypeOK, Thread
  <2>2. \A x \in Block : holder'[x] # NULL => cache'[x] # NULL
    BY <1>0, <1>b DEF LogInv, Counted, TypeOK
  <2>3. \A q \in Proc : th'[q].pc = "locked" => th'[q].blk \in Block
    BY <1>0 DEF LogInv, Counted, Thread
  <2> QED
    BY <1>0, <1>2, <2>1, <2>2, <2>3 DEF LogInv, Counted
<1>4. Lists' /\ Phases' /\ Boots' /\ Copies' /\ \A x \in Block : Waits(x)' <=> Waits(x)
  <2>1. \A q \in Proc : th'[q] = th[q] \/ (Quiet(q) /\ Quiet(q)')
    BY <1>0 DEF Quiet, Thread
  <2>2. \A x \in Block : Data(x)' = Data(x)
    BY <1>0, <1>b DEF Data
  <2> QED
    BY <1>0, <1>a, <2>1, <2>2, QuietStep DEF LogInv, Phases
<1>5. Pinned'
  BY <1>0, <1>4, <1>b DEF LogInv, Pinned, Data
<1> QED
  BY <1>1, <1>3, <1>4, <1>5 DEF LogInv

(* brelse unlocks it. *)
LEMMA BrelseInv ==
  ASSUME LogInv, NEW p \in Proc, brelse(p) PROVE LogInv'
<1> USE DEF disk
<1>0. /\ th' = [th EXCEPT ![p] = [@ EXCEPT !.pc = "op", !.blk = NULL]]
      /\ th \in [Proc -> Thread] /\ th[p].pc = "locked"
      /\ holder' = [holder EXCEPT ![th[p].blk] = NULL]
      /\ UNCHANGED <<disk, cache, pins, lh, outstanding, committing, up>>
  BY Zenon DEF LogInv, TypeOK, brelse
<1>a. up /\ p \in Calls
  BY <1>0, OpenCall DEF Calls
<1>1. TypeOK'
  <2>1. th' \in [Proc -> Thread]
    BY <1>0, ZenonT(30) DEF Thread
  <2> QED
    BY <1>0, <2>1, Zenon DEF LogInv, TypeOK
<1>2. Calls' = Calls
  BY <1>0 DEF Calls, Thread
<1>3. Counted'
  <2>1. \A q \in Proc, x \in Block : holder'[x] = q <=> th'[q].pc = "locked" /\ th'[q].blk = x
    BY <1>0, LogAssumption DEF LogInv, Counted, TypeOK, Thread
  <2>2. \A x \in Block : holder'[x] # NULL => cache'[x] # NULL
    BY <1>0 DEF LogInv, Counted, TypeOK
  <2>3. \A q \in Proc : th'[q].pc = "locked" => th'[q].blk \in Block
    BY <1>0 DEF LogInv, Counted, Thread
  <2> QED
    BY <1>0, <1>2, <2>1, <2>2, <2>3 DEF LogInv, Counted
<1>4. Lists' /\ Phases' /\ Boots' /\ Copies' /\ \A x \in Block : Waits(x)' <=> Waits(x)
  <2>1. \A q \in Proc : th'[q] = th[q] \/ (Quiet(q) /\ Quiet(q)')
    BY <1>0 DEF Quiet, Thread
  <2>2. \A x \in Block : Data(x)' = Data(x)
    BY <1>0 DEF Data
  <2> QED
    BY <1>0, <1>a, <2>1, <2>2, QuietStep DEF LogInv, Phases
<1>5. Pinned'
  BY <1>0, <1>4 DEF LogInv, Pinned
<1> QED
  BY <1>1, <1>3, <1>4, <1>5 DEF LogInv

(* A read brings a block into the cache. *)
LEMMA ReadInv ==
  ASSUME LogInv, NEW b \in Block, Read(b) PROVE LogInv'
<1> USE DEF disk
<1>0. /\ cache[b] = NULL /\ up
      /\ cache' = [cache EXCEPT ![b] = home[b]]
      /\ cache \in [Block -> Val \cup {Torn, NULL}] /\ home \in [Block -> Val \cup {Torn}]
      /\ UNCHANGED <<disk, pins, lh, outstanding, committing, holder, up, th>>
  BY DEF LogInv, TypeOK, Read
<1>1. TypeOK'
  <2>1. cache' \in [Block -> Val \cup {Torn, NULL}]
    BY <1>0
  <2> QED
    BY <1>0, <2>1 DEF LogInv, TypeOK
<1>2. \A x \in Block : Data(x)' = Data(x)
  BY <1>0, LogAssumption DEF Data
<1>3. Counted'
  BY <1>0, SMTT(30) DEF LogInv, Counted, Calls
<1>4. Lists' /\ Phases' /\ Boots' /\ Copies' /\ \A x \in Block : Waits(x)' <=> Waits(x)
  BY <1>0, <1>2, QuietStep DEF LogInv, Phases
<1>5. Pinned'
  BY <1>0, <1>4 DEF LogInv, Pinned
<1> QED
  BY <1>1, <1>3, <1>4, <1>5 DEF LogInv

(* A buffer that nobody refers to is recycled; what it held is on disk. *)
LEMMA RecycleInv ==
  ASSUME LogInv, NEW b \in Block, Recycle(b) PROVE LogInv'
<1> USE DEF disk
<1>0. /\ cache[b] # NULL /\ pins[b] = 0 /\ holder[b] = NULL
      /\ cache' = [cache EXCEPT ![b] = NULL]
      /\ cache \in [Block -> Val \cup {Torn, NULL}] /\ home \in [Block -> Val \cup {Torn}]
      /\ UNCHANGED <<disk, pins, lh, outstanding, committing, holder, up, th>>
  BY DEF LogInv, TypeOK, Recycle
<1>1. TypeOK'
  <2>1. cache' \in [Block -> Val \cup {Torn, NULL}]
    BY <1>0
  <2> QED
    BY <1>0, <2>1 DEF LogInv, TypeOK
<1>2. ~Waits(b) /\ cache[b] = home[b]
  BY <1>0 DEF LogInv, Pinned
<1>3. \A x \in Block : Data(x)' = Data(x)
  BY <1>0, <1>2 DEF Data
<1>4. Counted'
  BY <1>0, SMTT(30) DEF LogInv, Counted, Calls
<1>5. Lists' /\ Phases' /\ Boots' /\ Copies' /\ \A x \in Block : Waits(x)' <=> Waits(x)
  BY <1>0, <1>3, QuietStep DEF LogInv, Phases
<1>6. Pinned'
  BY <1>0, <1>2, <1>5 DEF LogInv, Pinned
<1> QED
  BY <1>1, <1>4, <1>5, <1>6 DEF LogInv

(* log_write changes the buffer and appends its block to the log, once. *)
LEMMA LogWriteInv ==
  ASSUME LogInv, NEW p \in Proc, NEW v \in Val, log_write(p, v) PROVE LogInv'
<1> DEFINE b == th[p].blk
<1> USE DEF disk
<1>0. /\ th' = [th EXCEPT ![p] = [@ EXCEPT !.wrote = th[p].wrote \cup {b}]]
      /\ th \in [Proc -> Thread] /\ th[p].pc = "locked" /\ b \in Block
      /\ Absorb(b) /\ ~TooBig
      /\ cache' = [cache EXCEPT ![b] = v]
      /\ cache \in [Block -> Val \cup {Torn, NULL}] /\ pins \in [Block -> Nat] /\ lh \in Seq(Block)
      /\ UNCHANGED <<disk, outstanding, committing, holder, up>>
  <2>1. th \in [Proc -> Thread] /\ th[p].pc = "locked" /\ b \in Block
    BY DEF LogInv, TypeOK, Counted, log_write
  <2>2. th' = [th EXCEPT ![p] = [@ EXCEPT !.wrote = th[p].wrote \cup {b}]]
    BY DEF log_write
  <2> QED
    BY <2>1, <2>2 DEF LogInv, TypeOK, log_write
<1>a. /\ up /\ ~committing /\ head = <<>> /\ p \in Calls
      /\ \A q \in Proc : ~Commits(q)
      /\ \A i : ~Done(i)
  BY <1>0, OpenCall DEF Calls
<1>b. \A q \in Proc : th'[q].pc = th[q].pc /\ th'[q].blk = th[q].blk /\ th'[q].tail = th[q].tail
  BY <1>0 DEF Thread
<1>c. v # NULL /\ v \in Val
  BY LogAssumption
<1> HIDE DEF b
<1>d. (\A q \in Proc : ~Commits(q)') /\ (\A i : ~Done(i)') /\ Calls' = Calls /\ outstanding > 0
  BY <1>0, <1>a, <1>b, CallsFinite DEF Commits, Done, Calls, LogInv, TypeOK
<1>1. \/ /\ b \in Range(lh) /\ lh' = lh /\ pins' = pins
      \/ /\ b \notin Range(lh) /\ lh' = Append(lh, b) /\ pins' = [pins EXCEPT ![b] = @ + 1]
  BY <1>0 DEF Absorb, bpin
<1>2. /\ lh' \in Seq(Block) /\ pins' \in [Block -> Nat] /\ Len(lh') <= Size - 1
      /\ \A i, j \in DOMAIN lh' : lh'[i] = lh'[j] => i = j
  <2>1. CASE b \in Range(lh)
    BY <1>0, <1>1, <2>1 DEF LogInv, Lists
  <2>2. CASE b \notin Range(lh)
    <3>1. lh' = Append(lh, b) /\ \A i \in DOMAIN lh : lh[i] # b
      BY <1>1, <2>2 DEF Range
    <3>2. Len(lh) < Size - 1
      BY <1>0, LogAssumption DEF TooBig
    <3>3. \A i, j \in DOMAIN lh' : lh'[i] = lh'[j] => i = j
      BY <1>0, <3>1 DEF LogInv, Lists
    <3>4. lh' \in Seq(Block) /\ Len(lh') = Len(lh) + 1
      BY <1>0, <3>1
    <3>5. pins' \in [Block -> Nat]
      <4>1. pins \in [Block -> Nat] /\ b \in Block /\ pins' = [pins EXCEPT ![b] = @ + 1]
        BY <1>0, <1>1, <2>2
      <4> HIDE DEF b
      <4> QED
        BY <4>1
    <3>6. Len(lh') <= Size - 1
      BY <1>0, <3>2, <3>4, LogAssumption
    <3> QED
      BY <3>3, <3>4, <3>5, <3>6
  <2> QED
    BY <2>1, <2>2
<1>3. TypeOK'
  <2>0. [th[p] EXCEPT !.wrote = th[p].wrote \cup {b}] \in Thread
    BY <1>0, Zenon DEF Thread
  <2>1. th' \in [Proc -> Thread]
    BY <1>0, <2>0
  <2>2. cache' \in [Block -> Val \cup {Torn, NULL}]
    BY <1>0
  <2> QED
    BY <1>0, <1>2, <2>1, <2>2 DEF LogInv, TypeOK
<1>4. Lists'
  BY <1>0, <1>2 DEF LogInv, Lists
<1>5. Counted'
  <2>1. \A x \in Block : holder'[x] # NULL => cache'[x] # NULL
    BY <1>0, <1>c DEF LogInv, Counted
  <2> QED
    BY <1>0, <1>b, <1>d, <2>1 DEF LogInv, Counted
<1>6. Phases'
  BY <1>0, <1>a, <1>b, <1>d DEF LogInv, Phases, Commits, Installs
<1>7. Boots'
  BY <1>0, <1>a DEF Boots
<1>8. Copies'
  BY <1>d DEF Copies, Commits
<1>9. Pinned'
  <2>1. \A x \in Block : (Waits(x) <=> x \in Range(lh)) /\ (Waits(x)' <=> x \in Range(lh'))
    BY <1>0, <1>a, <1>d DEF Waits, Range
  <2>2. \A x \in Block : x \in Range(lh') <=> x \in Range(lh) \/ x = b
    <3>1. Range(Append(lh, b)) = Range(lh) \cup {b}
      BY <1>0, RangeAppend
    <3> QED
      BY <1>1, <3>1, Zenon
  <2> SUFFICES ASSUME NEW x \in Block
               PROVE  IF x \in Range(lh') THEN pins'[x] = 1 /\ cache'[x] # NULL
                      ELSE pins'[x] = 0 /\ cache'[x] \in {NULL, home'[x]}
    BY <2>1 DEF Pinned
  <2>3. IF x \in Range(lh) THEN pins[x] = 1 /\ cache[x] # NULL
        ELSE pins[x] = 0 /\ cache[x] \in {NULL, home[x]}
    BY <2>1 DEF LogInv, Pinned
  <2>4. CASE x = b
    BY <1>0, <1>1, <1>c, <2>2, <2>3, <2>4
  <2>5. CASE x # b
    BY <1>0, <1>1, <2>2, <2>3, <2>5
  <2> QED
    BY <2>4, <2>5
<1> QED
  BY <1>3, <1>4, <1>5, <1>6, <1>7, <1>8, <1>9 DEF LogInv

(* end_op: the last call out becomes the one that commits. *)
LEMMA EndInv ==
  ASSUME LogInv, NEW p \in Proc, end_op(p) PROVE LogInv'
<1> USE DEF disk
<1>0. /\ th \in [Proc -> Thread] /\ th[p].pc = "op" /\ outstanding' = outstanding - 1
      /\ outstanding \in Nat
      /\ UNCHANGED <<disk, cache, pins, lh, holder, up>>
  BY DEF LogInv, TypeOK, end_op
<1>a. /\ up /\ ~committing /\ head = <<>> /\ p \in Calls
      /\ \A q \in Proc : ~Commits(q)
      /\ \A i : ~Done(i)
  BY <1>0, OpenCall DEF Calls
<1>b. IsFiniteSet(Calls) /\ outstanding = Cardinality(Calls) /\ outstanding > 0
  BY <1>0, <1>a, CallsFinite DEF LogInv, Counted
<1>c. Cardinality(Calls \ {p}) = outstanding - 1 /\ IsFiniteSet(Calls \ {p})
  BY <1>0, <1>a, <1>b, FS_RemoveElement
<1>1. CASE outstanding' # 0
  <2>0. /\ \A q \in Proc : th'[q] = IF q = p THEN [Idle EXCEPT !.pc = "idle"]
                                    ELSE IF th[q].pc = "sleep" THEN [th[q] EXCEPT !.pc = "begin_op"]
                                    ELSE th[q]
        /\ UNCHANGED committing
    BY <1>1 DEF end_op, EndOthers, WakeAll
  <2>1. th' \in [Proc -> Thread]
    <3>a. [Idle EXCEPT !.pc = "idle"] \in Thread
      BY DEF Thread, Idle
    <3>b. \A q \in Proc : [th[q] EXCEPT !.pc = "begin_op"] \in Thread
      BY <1>0 DEF Thread
    <3>1. \A q \in Proc : th'[q] \in Thread
      BY <1>0, <2>0, <3>a, <3>b, Zenon
    <3>2. th' = [q \in Proc |-> th'[q]]
      BY <1>1 DEF end_op, EndOthers, WakeAll
    <3> QED
      BY <3>1, <3>2
  <2>2. TypeOK'
    BY <1>0, <2>0, <2>1, <1>b DEF LogInv, TypeOK
  <2>3. Calls' = Calls \ {p}
    BY <1>0, <2>0, ZenonT(30) DEF Calls, Thread, Idle
  <2>4. Counted'
    <3>1. \A q \in Proc : th'[q].pc = "locked" <=> th[q].pc = "locked"
      BY <1>0, <2>0, Zenon DEF Thread, Idle
    <3>2. \A q \in Proc : th'[q].pc = "locked" => th'[q].blk = th[q].blk
      BY <1>0, <2>0, Zenon DEF Thread, Idle
    <3> QED
      BY <1>0, <1>c, <2>3, <3>1, <3>2 DEF LogInv, Counted
  <2>5. Lists' /\ Phases' /\ Boots' /\ Copies' /\ \A x \in Block : Waits(x)' <=> Waits(x)
    <3>1. \A q \in Proc : th'[q] = th[q] \/ (Quiet(q) /\ Quiet(q)')
      BY <1>0, <2>0, Zenon DEF Quiet, Thread, Idle
    <3>2. \A x \in Block : Data(x)' = Data(x)
      BY <1>0 DEF Data
    <3>3. outstanding' > 0
      BY <1>0, <1>b, <1>1
    <3> QED
      BY <1>0, <1>a, <2>0, <3>1, <3>2, <3>3, QuietStep
  <2>6. Pinned'
    BY <1>0, <2>5 DEF LogInv, Pinned
  <2> QED
    BY <2>2, <2>4, <2>5, <2>6 DEF LogInv
<1>2. CASE outstanding' = 0
  <2> DEFINE pc == IF lh # <<>> THEN "write_log" ELSE "committed"
  <2>0. th' = [th EXCEPT ![p] = [Idle EXCEPT !.pc = pc]] /\ committing' = TRUE
    BY <1>2, Zenon DEF end_op
  <2>a. /\ th'[p].pc = pc /\ th'[p].tail = 0
        /\ \A q \in Proc : q # p => th'[q] = th[q]
    BY <1>0, <2>0 DEF Idle
  <2>b. Calls \ {p} = {}
    BY <1>0, <1>2, <1>c, FS_EmptySet
  <2>1. TypeOK'
    <3>1. [Idle EXCEPT !.pc = pc] \in Thread
      BY DEF Idle, Thread
    <3>2. th' \in [Proc -> Thread]
      BY <1>0, <2>0, <3>1
    <3> QED
      BY <1>0, <1>2, <2>0, <3>2 DEF LogInv, TypeOK
  <2>2. Calls' = {}
    BY <2>a, <2>b DEF Calls
  <2>3. Counted'
    <3>1. \A q \in Proc : th'[q].pc = "locked" <=> th[q].pc = "locked"
      BY <1>0, <2>a
    <3> QED
      BY <1>0, <1>2, <2>2, <2>a, <3>1, FS_EmptySet DEF LogInv, Counted
  <2>4. Lists'
    BY <1>0 DEF LogInv, Lists
  <2>5. Phases'
    <3>1. \A q \in Proc : Commits(q)' <=> q = p
      BY <1>a, <2>a DEF Commits
    <3>2. \A q \in Proc : ~Installs(q)'
      BY <1>a, <2>a DEF Commits, Installs
    <3>3. \A q \in Proc : th'[q].pc # "read_head"
      BY <1>a, <2>a DEF LogInv, Phases
    <3>4. lh # <<>> => 0 < Len(lh)
      BY DEF LogInv, TypeOK
    <3>5. \A q \in Proc :
            /\ th'[q].pc \in {"write_log", "install_trans"} => th'[q].tail < Len(lh)
            /\ th'[q].pc = "write_head" => lh # <<>> /\ th'[q].tail = 0
            /\ th'[q].pc = "committed" => lh = <<>>
      BY <1>a, <2>a, <3>4 DEF Commits
    <3> QED
      BY <1>0, <1>2, <1>a, <2>0, <3>1, <3>2, <3>3, <3>5 DEF Phases
  <2>6. Boots'
    BY <1>0, <1>a DEF Boots
  <2>7. Copies'
    <3>1. \A j \in DOMAIN lh : ~(j <= 0)
      BY DEF LogInv, TypeOK
    <3> QED
      BY <1>0, <1>a, <2>a, <3>1 DEF Copies, Commits
  <2>8. Pinned'
    <3>1. \A i : ~Done(i)'
      BY <1>a, <2>a DEF Done, Commits
    <3>2. \A x \in Block : Waits(x)' <=> Waits(x)
      BY <1>0, <1>a, <3>1 DEF Waits
    <3> QED
      BY <1>0, <3>2 DEF LogInv, Pinned
  <2> QED
    BY <2>1, <2>3, <2>4, <2>5, <2>6, <2>7, <2>8 DEF LogInv
<1> QED
  BY <1>1, <1>2

-----------------------------------------------------------------------------
(* Steps of a commit.                                                      *)

(* Whoever commits is alone; once the file system is up, no call is open. *)
LEMMA OneCommits ==
  ASSUME LogInv, NEW p \in Proc, Commits(p)
  PROVE  /\ \A q \in Proc : q # p => ~Commits(q) /\ ~Installs(q)
         /\ up => committing /\ outstanding = 0 /\ Calls = {}
         /\ \A i : Done(i) <=> th[p].pc = "clear_head" \/ (th[p].pc = "install_trans" /\ i <= th[p].tail)
         /\ head = IF Installs(p) THEN lh ELSE <<>>
         /\ up \/ (Installs(p) /\ p = initproc)
<1>1. \A q \in Proc : q # p => ~Commits(q) /\ ~Installs(q)
  BY DEF LogInv, Phases, Commits, Installs
<1>2. up => committing /\ outstanding = 0 /\ Calls = {}
  BY CallsFinite DEF LogInv, Phases
<1>3. up \/ (Installs(p) /\ p = initproc)
  BY DEF LogInv, Boots, Commits, Installs
<1>4. head = IF Installs(p) THEN lh ELSE <<>>
  BY <1>1, <1>3 DEF LogInv, Phases, Boots, Installs
<1>5. \A i : Done(i) <=> th[p].pc = "clear_head" \/ (th[p].pc = "install_trans" /\ i <= th[p].tail)
  BY <1>1 DEF Done, Installs
<1> QED
  BY <1>1, <1>2, <1>3, <1>4, <1>5

(* end_commit lets the others in again. *)
LEMMA EndCommitInv ==
  ASSUME LogInv, NEW p \in Proc, end_commit(p) PROVE LogInv'
<1> USE DEF disk
<1>0. /\ th \in [Proc -> Thread] /\ th[p].pc = "committed" /\ committing' = FALSE
      /\ \A q \in Proc : th'[q] = IF q = p THEN [Idle EXCEPT !.pc = "idle"]
                                  ELSE IF th[q].pc = "sleep" THEN [th[q] EXCEPT !.pc = "begin_op"]
                                  ELSE th[q]
      /\ UNCHANGED <<disk, cache, pins, lh, outstanding, holder, up>>
  BY DEF LogInv, TypeOK, end_commit, WakeAll
<1>a. Commits(p) /\ ~Installs(p)
  BY <1>0 DEF Commits, Installs
<1>b. /\ up /\ outstanding = 0 /\ Calls = {} /\ head = <<>> /\ lh = <<>>
      /\ \A q \in Proc : q # p => ~Commits(q) /\ ~Installs(q)
  BY <1>0, <1>a, OneCommits DEF LogInv, Phases
<1>c. \A q \in Proc : (th'[q].pc = "locked" <=> th[q].pc = "locked")
                      /\ (th'[q].pc = "locked" => th'[q].blk = th[q].blk)
                      /\ ~Commits(q)' /\ ~Installs(q)' /\ th'[q].pc # "read_head"
  <2>1. \A q \in Proc : th[q].pc # "read_head"
    BY <1>b DEF LogInv, Phases
  <2> QED
    BY <1>0, <1>b, <2>1, ZenonT(30) DEF Thread, Idle, Commits, Installs
<1>1. TypeOK'
  <2>1. [Idle EXCEPT !.pc = "idle"] \in Thread
    BY DEF Thread, Idle
  <2>2. \A q \in Proc : [th[q] EXCEPT !.pc = "begin_op"] \in Thread
    BY <1>0 DEF Thread
  <2>3. \A q \in Proc : th'[q] \in Thread
    BY <1>0, <2>1, <2>2, Zenon
  <2>4. th' = [q \in Proc |-> th'[q]]
    BY DEF end_commit, WakeAll
  <2>5. th' \in [Proc -> Thread]
    BY <2>3, <2>4
  <2> QED
    BY <1>0, <2>5, Zenon DEF LogInv, TypeOK
<1>2. Calls' = {}
  <2>1. \A q \in Proc : th[q] \in Thread
    BY <1>0
  <2>2. \A q \in Proc : th'[q].pc \in {"idle", "begin_op", th[q].pc}
    BY <1>0, <2>1, ZenonT(30) DEF Thread, Idle
  <2> QED
    BY <1>b, <2>2 DEF Calls
<1>3. Counted'
  BY <1>0, <1>b, <1>c, <1>2, FS_EmptySet DEF LogInv, Counted
<1>4. Lists'
  BY <1>0 DEF LogInv, Lists
<1>5. Phases'
  BY <1>0, <1>b, <1>c DEF Phases, Commits
<1>6. Boots'
  BY <1>0, <1>b DEF Boots
<1>7. Copies'
  BY <1>c DEF Copies, Commits
<1>8. Pinned'
  <2>1. \A x \in Block : ~Waits(x) /\ ~Waits(x)'
    BY <1>0, <1>b DEF Waits
  <2> QED
    BY <1>0, <2>1 DEF LogInv, Pinned
<1> QED
  BY <1>1, <1>3, <1>4, <1>5, <1>6, <1>7, <1>8 DEF LogInv

(* write_log copies the next buffer, which is cached, to the log. *)
LEMMA WriteLogInv ==
  ASSUME LogInv, NEW p \in Proc, write_log(p) PROVE LogInv'
<1> DEFINE i == th[p].tail + 1
<1> USE DEF disk
<1>0. /\ th \in [Proc -> Thread] /\ th[p].pc = "write_log"
      /\ cache' = [cache EXCEPT ![lh[i]] = Data(lh[i])]
      /\ logged' = [logged EXCEPT ![i] = Data(lh[i])]
      /\ NextTail(p, "write_head")
      /\ lh \in Seq(Block) /\ cache \in [Block -> Val \cup {Torn, NULL}] /\ logged \in [Slot -> Val \cup {Torn}]
      /\ UNCHANGED <<home, head, pins, lh, outstanding, committing, holder, up>>
  BY DEF LogInv, TypeOK, write_log
<1>a. Commits(p) /\ ~Installs(p)
  BY <1>0 DEF Commits, Installs
<1>b. /\ up /\ committing /\ outstanding = 0 /\ Calls = {} /\ head = <<>>
      /\ \A q \in Proc : q # p => ~Commits(q) /\ ~Installs(q)
      /\ \A j : ~Done(j)
  BY <1>0, <1>a, OneCommits
<1>c. i \in DOMAIN lh /\ i \in Slot /\ lh[i] \in Block /\ i \in Nat /\ th[p].tail \in Nat
  <2>1. th[p].tail \in Nat /\ th[p].tail < Len(lh) /\ Len(lh) <= Size - 1
    BY <1>0 DEF LogInv, Phases, Lists, Thread
  <2> QED
    BY <1>0, <2>1, LogAssumption DEF Slot
<1>d. \A x \in Block : Waits(x) <=> \E j \in DOMAIN lh : lh[j] = x
  BY <1>b DEF Waits
<1>e. cache[lh[i]] # NULL /\ cache' = cache
  BY <1>0, <1>c, <1>d, SMTT(30) DEF LogInv, Pinned, Data
<1>f. \A x \in Block : Data(x)' = Data(x)
  BY <1>0, <1>e DEF Data
<1>g. /\ \A q \in Proc : q # p => th'[q] = th[q]
      /\ th'[p].pc = IF i < Len(lh) THEN "write_log" ELSE "write_head"
      /\ th'[p].tail = IF i < Len(lh) THEN i ELSE 0
      /\ th' \in [Proc -> Thread]
  <2>1. CASE i < Len(lh)
    <3>1. th' = [th EXCEPT ![p] = [th[p] EXCEPT !.tail = i]]
      BY <1>0, <2>1 DEF NextTail
    <3>2. [th[p] EXCEPT !.tail = i] \in Thread
      BY <1>0, <1>c, Zenon DEF Thread
    <3> QED
      BY <1>0, <2>1, <3>1, <3>2, Zenon DEF Thread
  <2>2. CASE ~(i < Len(lh))
    <3>1. th' = [th EXCEPT ![p] = [Idle EXCEPT !.pc = "write_head"]]
      BY <1>0, <2>2 DEF NextTail
    <3>2. [Idle EXCEPT !.pc = "write_head"] \in Thread
      BY DEF Idle, Thread
    <3> QED
      BY <1>0, <2>2, <3>1, <3>2 DEF Idle
  <2> QED
    BY <2>1, <2>2
<1> HIDE DEF i
<1>1. TypeOK'
  <2>1. logged' \in [Slot -> Val \cup {Torn}]
    BY <1>0, <1>c, DataType DEF LogInv
  <2> QED
    BY <1>0, <1>e, <1>g, <2>1, Zenon DEF LogInv, TypeOK
<1>2. Calls' = {}
  BY <1>b, <1>g, SMTT(30) DEF Calls
<1>3. Counted'
  <2>1. \A q \in Proc : th'[q].pc = "locked" <=> th[q].pc = "locked"
    BY <1>0, <1>g
  <2> QED
    BY <1>0, <1>b, <1>e, <1>g, <1>2, <2>1, FS_EmptySet DEF LogInv, Counted
<1>4. Lists'
  BY <1>0 DEF LogInv, Lists
<1>5. Phases'
  <2>1. \A q \in Proc : (Commits(q)' <=> q = p) /\ ~Installs(q)'
    BY <1>a, <1>b, <1>g DEF Commits, Installs
  <2>2. \A q \in Proc : th'[q].pc # "read_head"
    BY <1>b, <1>g DEF LogInv, Phases
  <2>3. lh # <<>>
    BY <1>0, <1>c
  <2>4. \A q \in Proc :
          /\ th'[q].pc \in {"write_log", "install_trans"} => th'[q].tail < Len(lh)
          /\ th'[q].pc = "write_head" => lh # <<>> /\ th'[q].tail = 0
          /\ th'[q].pc = "committed" => lh = <<>>
    BY <1>b, <1>g, <2>3, SMTT(30) DEF Commits
  <2> QED
    BY <1>0, <1>b, <2>1, <2>2, <2>4 DEF Phases
<1>6. Boots'
  BY <1>0, <1>b DEF Boots
<1>7. Copies'
  <2>1. \A j \in DOMAIN lh : j < i => logged[j] = Data(lh[j])
    BY <1>0, <1>c DEF LogInv, Copies, i
  <2>2. \A j \in DOMAIN lh : j <= i => logged'[j] = Data(lh[j])
    BY <1>0, <1>c, <2>1
  <2>3. \A j \in DOMAIN lh : Data(lh[j])' = Data(lh[j])
    BY <1>0, <1>f
  <2>4. \A j \in DOMAIN lh : i < Len(lh) \/ j <= i
    BY <1>0, <1>c
  <2> QED
    BY <1>0, <1>b, <1>g, <2>2, <2>3, <2>4, SMTT(30) DEF Copies, Commits
<1>8. Pinned'
  <2>1. \A j : ~Done(j)'
    BY <1>b, <1>g DEF Done, Commits
  <2>2. \A x \in Block : Waits(x)' <=> Waits(x)
    BY <1>0, <1>b, <2>1 DEF Waits
  <2> QED
    BY <1>0, <1>e, <2>2 DEF LogInv, Pinned
<1> QED
  BY <1>1, <1>3, <1>4, <1>5, <1>6, <1>7, <1>8 DEF LogInv

(* write_head: the transaction is on disk. *)
LEMMA WriteHeadInv ==
  ASSUME LogInv, NEW p \in Proc, write_head(p) PROVE LogInv'
<1> USE DEF disk
<1>0. /\ th \in [Proc -> Thread] /\ th[p].pc = "write_head" /\ head' = lh
      /\ th' = [th EXCEPT ![p] = [@ EXCEPT !.pc = "install_trans"]]
      /\ lh \in Seq(Block)
      /\ UNCHANGED <<home, logged, cache, pins, lh, outstanding, committing, holder, up>>
  BY DEF LogInv, TypeOK, write_head, Goto
<1>a. Commits(p) /\ ~Installs(p)
  BY <1>0 DEF Commits, Installs
<1>b. /\ up /\ committing /\ outstanding = 0 /\ Calls = {}
      /\ \A q \in Proc : q # p => ~Commits(q) /\ ~Installs(q)
      /\ \A j : ~Done(j)
      /\ lh # <<>> /\ th[p].tail = 0
  BY <1>0, <1>a, OneCommits DEF LogInv, Phases
<1>c. /\ \A q \in Proc : q # p => th'[q] = th[q]
      /\ th'[p].pc = "install_trans" /\ th'[p].tail = 0
  BY <1>0, <1>b DEF Thread
<1>d. \A j \in DOMAIN lh : ~(j <= 0)
  BY <1>0
<1>1. TypeOK'
  <2>1. th' \in [Proc -> Thread]
    BY <1>0, ZenonT(30) DEF Thread
  <2> QED
    BY <1>0, <2>1 DEF LogInv, TypeOK
<1>2. Calls' = {}
  BY <1>b, <1>c DEF Calls
<1>3. Counted'
  BY <1>0, <1>b, <1>c, <1>2, FS_EmptySet DEF LogInv, Counted
<1>4. Lists'
  BY <1>0 DEF LogInv, Lists
<1>5. Phases'
  <2>1. \A q \in Proc : (Commits(q)' <=> q = p) /\ (Installs(q)' <=> q = p)
    BY <1>b, <1>c DEF Commits, Installs
  <2>2. \A q \in Proc : th'[q].pc # "read_head"
    BY <1>b, <1>c DEF LogInv, Phases
  <2>3. 0 < Len(lh)
    BY <1>0, <1>b
  <2>4. \A q \in Proc :
          /\ th'[q].pc \in {"write_log", "install_trans"} => th'[q].tail < Len(lh)
          /\ th'[q].pc = "write_head" => lh # <<>> /\ th'[q].tail = 0
          /\ th'[q].pc = "committed" => lh = <<>>
    BY <1>b, <1>c, <2>3 DEF Commits
  <2> QED
    BY <1>0, <1>b, <2>1, <2>2, <2>4 DEF Phases
<1>6. Boots'
  BY <1>0, <1>b DEF Boots
<1>7. Copies'
  <2>1. \A j \in DOMAIN lh : logged[j] = Data(lh[j]) /\ Data(lh[j])' = Data(lh[j])
    BY <1>0 DEF LogInv, Copies, Data
  <2> QED
    BY <1>0, <1>b, <1>c, <1>d, <2>1 DEF Copies, Commits
<1>8. Pinned'
  <2>1. \A j \in DOMAIN lh : ~Done(j)'
    BY <1>b, <1>c, <1>d DEF Done, Commits
  <2>2. \A x \in Block : Waits(x)' <=> Waits(x)
    BY <1>0, <1>b, <2>1 DEF Waits
  <2> QED
    BY <1>0, <2>2 DEF LogInv, Pinned
<1> QED
  BY <1>1, <1>3, <1>4, <1>5, <1>6, <1>7, <1>8 DEF LogInv


-----------------------------------------------------------------------------
(* Steps that install the log, crashes and recovery.                       *)

(* read_head starts the recovery. *)
LEMMA ReadHeadInv ==
  ASSUME LogInv, NEW p \in Proc, read_head(p) PROVE LogInv'
<1> USE DEF disk
<1>0. /\ th \in [Proc -> Thread] /\ th[p].pc = "read_head" /\ lh' = head /\ head \in Seq(Block)
      /\ th' = [th EXCEPT ![p] = [@ EXCEPT !.pc = RecoverNext]]
      /\ RecoverNext = IF head = <<>> THEN "clear_head" ELSE "install_trans"
      /\ UNCHANGED <<disk, cache, pins, outstanding, committing, holder, up>>
  BY DEF LogInv, TypeOK, read_head, Goto, RecoverNext
<1>a. /\ ~up /\ p = initproc /\ outstanding = 0 /\ ~committing /\ th[p].tail = 0
      /\ \A q \in Proc : q # p => th[q].pc = "idle"
  BY <1>0 DEF LogInv, Phases, Boots
<1>b. /\ \A q \in Proc : q # p => th'[q] = th[q]
      /\ th'[p].pc = RecoverNext /\ th'[p].tail = 0
  BY <1>0, <1>a DEF Thread
<1>c. Calls = {} /\ Calls' = {}
  BY <1>0, <1>a, <1>b DEF Calls
<1>1. TypeOK'
  <2>1. [th[p] EXCEPT !.pc = RecoverNext] \in Thread
    BY <1>0 DEF Thread
  <2>2. th' \in [Proc -> Thread]
    BY <1>0, <2>1
  <2> QED
    BY <1>0, <2>2 DEF LogInv, TypeOK
<1>3. Counted'
  <2>1. \A q \in Proc : th[q].pc # "locked" /\ th'[q].pc # "locked"
    BY <1>0, <1>a, <1>b
  <2> QED
    BY <1>0, <1>a, <1>c, <2>1, ZenonT(30) DEF LogInv, Counted
<1>4. Lists'
  BY <1>0 DEF LogInv, Lists
<1>5. Phases'
  <2>1. \A q \in Proc : Commits(q)' => q = p
    BY <1>a, <1>b DEF Commits
  <2>2. head # <<>> => 0 < Len(head)
    BY <1>0
  <2> QED
    BY <1>0, <1>a, <1>b, <2>1, <2>2 DEF Phases
<1>6. Boots'
  BY <1>0, <1>a, <1>b DEF Boots
<1>7. Copies'
  <2>1. \A j \in DOMAIN head : ~(j <= 0)
    BY <1>0
  <2> QED
    BY <1>0, <1>a, <1>b, <2>1 DEF Copies
<1>8. Pinned'
  BY <1>0, <1>a DEF LogInv, Pinned, Waits
<1> QED
  BY <1>1, <1>3, <1>4, <1>5, <1>6, <1>7, <1>8 DEF LogInv

(* clear_head: nothing is left to install. *)
LEMMA ClearHeadInv ==
  ASSUME LogInv, NEW p \in Proc, clear_head(p) PROVE LogInv'
<1> DEFINE pc == IF up THEN "committed" ELSE "idle"
<1> USE DEF disk
<1>0. /\ th \in [Proc -> Thread] /\ th[p].pc = "clear_head" /\ lh' = <<>> /\ head' = <<>>
      /\ th' = [th EXCEPT ![p] = [@ EXCEPT !.pc = pc]] /\ up' = TRUE
      /\ UNCHANGED <<home, logged, cache, pins, outstanding, committing, holder>>
  BY DEF LogInv, TypeOK, clear_head, Goto
<1>a. Commits(p) /\ Installs(p)
  BY <1>0 DEF Commits, Installs
<1>b. /\ \A q \in Proc : q # p => ~Commits(q) /\ ~Installs(q)
      /\ up => committing
      /\ \A j : Done(j)
  BY <1>0, <1>a, OneCommits
<1>c. Calls = {} /\ outstanding = 0 /\ (~up => ~committing)
  BY <1>0, <1>a, <1>b, OneCommits DEF LogInv, Boots, Calls
<1>d. \A q \in Proc : q # p => th'[q] = th[q] /\ th'[q].pc # "read_head"
  BY <1>0 DEF LogInv, Phases, Boots
<1>e. th'[p].pc = pc
  BY <1>0 DEF Thread
<1>1. TypeOK'
  <2>1. [th[p] EXCEPT !.pc = pc] \in Thread
    BY <1>0, Zenon DEF Thread
  <2>2. th' \in [Proc -> Thread]
    BY <1>0, <2>1
  <2>3. lh' \in Seq(Block) /\ head' \in Seq(Block)
    BY <1>0
  <2> QED
    BY <1>0, <2>2, <2>3 DEF LogInv, TypeOK
<1>2. Calls' = {}
  BY <1>c, <1>d, <1>e DEF Calls
<1>3. Counted'
  <2>1. \A q \in Proc : th'[q].pc = "locked" <=> th[q].pc = "locked"
    BY <1>0, <1>d, <1>e
  <2> QED
    BY <1>0, <1>c, <1>d, <1>2, <2>1, FS_EmptySet DEF LogInv, Counted
<1>4. Lists'
  BY <1>0, LogAssumption DEF Lists
<1>5. Phases'
  <2>1. \A q \in Proc : (Commits(q)' <=> q = p /\ up) /\ ~Installs(q)' /\ th'[q].pc # "read_head"
    BY <1>b, <1>d, <1>e DEF Commits, Installs
  <2>2. \A q \in Proc : th'[q].pc \notin {"write_log", "install_trans", "write_head"}
    BY <1>b, <1>d, <1>e DEF Commits
  <2> QED
    BY <1>0, <1>b, <1>c, <2>1, <2>2 DEF Phases
<1>6. Boots'
  BY <1>0 DEF Boots
<1>7. Copies'
  BY <1>b, <1>d, <1>e DEF Copies, Commits
<1>8. Pinned'
  <2>1. \A x \in Block : ~Waits(x) /\ ~Waits(x)'
    BY <1>0, <1>b DEF Waits
  <2> QED
    BY <1>0, <2>1 DEF LogInv, Pinned
<1> QED
  BY <1>1, <1>3, <1>4, <1>5, <1>6, <1>7, <1>8 DEF LogInv

(* A crash leaves the disk, with at most one block torn. *)
LEMMA CrashInv ==
  ASSUME LogInv, Crash PROVE LogInv'
<1> USE LogAssumption
<1>0. /\ th' = Booting /\ cache' = [b \in Block |-> NULL] /\ pins' = [b \in Block |-> 0]
      /\ lh' = <<>> /\ outstanding' = 0 /\ committing' = FALSE /\ holder' = [b \in Block |-> NULL]
      /\ up' = FALSE /\ head' = head
  BY DEF Crash
<1>a. \A p \in Proc : th'[p].pc = (IF p = initproc THEN "read_head" ELSE "idle") /\ th'[p].tail = 0
  BY <1>0 DEF Booting, Idle
<1>1. TypeOK'
  <2>1. home' \in [Block -> Val \cup {Torn}] /\ logged' \in [Slot -> Val \cup {Torn}]
    BY Zenon DEF Crash, LogInv, TypeOK
  <2>2. th' \in [Proc -> Thread]
    BY <1>0 DEF Thread, Booting, Idle
  <2>3. lh' \in Seq(Block) /\ head' \in Seq(Block) /\ outstanding' \in Nat
    BY <1>0 DEF LogInv, TypeOK
  <2>4. cache' \in [Block -> Val \cup {Torn, NULL}] /\ pins' \in [Block -> Nat] /\ holder' \in [Block -> Proc \cup {NULL}]
    BY <1>0
  <2>5. committing' \in BOOLEAN /\ up' \in BOOLEAN
    BY <1>0, Zenon
  <2> QED
    BY <2>1, <2>2, <2>3, <2>4, <2>5 DEF TypeOK
<1>2. Lists'
  BY <1>0 DEF LogInv, Lists
<1>3. Counted'
  <2>1. Calls' = {}
    BY <1>a DEF Calls
  <2> QED
    BY <1>0, <1>a, <2>1, FS_EmptySet DEF Counted
<1>4. Phases'
  BY <1>0, <1>a DEF Phases, Commits
<1>5. Boots'
  BY <1>0, <1>a DEF Boots
<1>6. Copies'
  BY <1>a DEF Copies
<1>7. Pinned'
  BY <1>0 DEF Pinned, Waits
<1> QED
  BY <1>1, <1>2, <1>3, <1>4, <1>5, <1>6, <1>7 DEF LogInv

(* install_trans copies the next block of the log to its home. *)
LEMMA InstallInv ==
  ASSUME LogInv, NEW p \in Proc, install_trans(p) PROVE LogInv'
<1> DEFINE i == th[p].tail + 1
           b == lh[i]
<1> USE DEF disk
<1>s. /\ th \in [Proc -> Thread] /\ th[p] \in Thread /\ th[p].pc = "install_trans"
      /\ NextTail(p, "clear_head")
  BY DEF LogInv, TypeOK, install_trans
<1>t. /\ th[p].tail \in Nat /\ th[p].tail < Len(lh) /\ Len(lh) <= Size - 1
      /\ lh \in Seq(Block) /\ Size \in Nat
  BY <1>s, LogAssumption DEF LogInv, TypeOK, Phases, Lists, Thread
<1>0. /\ th[p].pc = "install_trans" /\ holder[b] = NULL
      /\ cache' = [cache EXCEPT ![b] = logged[i]]
      /\ home' = [home EXCEPT ![b] = logged[i]]
      /\ Unpin(b)
      /\ lh \in Seq(Block) /\ pins \in [Block -> Nat] /\ logged \in [Slot -> Val \cup {Torn}]
      /\ cache \in [Block -> Val \cup {Torn, NULL}] /\ home \in [Block -> Val \cup {Torn}]
      /\ UNCHANGED <<logged, head, lh, outstanding, committing, holder, up>>
  BY DEF LogInv, TypeOK, install_trans
<1>a. Commits(p) /\ Installs(p)
  BY <1>0 DEF Commits, Installs
<1>b. /\ \A q \in Proc : q # p => ~Commits(q) /\ ~Installs(q)
      /\ up => committing
      /\ \A j : Done(j) <=> j <= th[p].tail
      /\ head = lh /\ (up \/ p = initproc)
  BY <1>0, <1>a, OneCommits
<1>c. Calls = {} /\ outstanding = 0 /\ (~up => ~committing)
  BY <1>0, <1>a, <1>b, OneCommits DEF LogInv, Boots, Calls
<1>d. /\ i \in DOMAIN lh /\ i \in Slot /\ b \in Block /\ i \in Nat /\ th[p].tail \in Nat
      /\ logged[i] \in Val \cup {Torn} /\ logged[i] # NULL
  <2>1. i \in DOMAIN lh /\ i \in Slot /\ b \in Block /\ i \in Nat
    BY <1>t DEF Slot
  <2>2. logged \in [Slot -> Val \cup {Torn}]
    BY DEF LogInv, TypeOK
  <2> QED
    BY <1>t, <2>1, <2>2, LogAssumption
<1>e. \A j \in DOMAIN lh : lh[j] = b => j = i
  BY <1>d DEF LogInv, Lists
<1>f. pins' = IF up THEN [pins EXCEPT ![b] = @ - 1] ELSE pins
  BY <1>0 DEF Unpin, bunpin
<1>g. /\ \A q \in Proc : q # p => th'[q] = th[q]
      /\ th'[p].pc = IF i < Len(lh) THEN "install_trans" ELSE "clear_head"
      /\ th'[p].tail = IF i < Len(lh) THEN i ELSE 0
      /\ th' \in [Proc -> Thread]
  <2>1. CASE i < Len(lh)
    <3>1. th' = [th EXCEPT ![p] = [th[p] EXCEPT !.tail = i]]
      BY <1>s, <2>1 DEF NextTail
    <3>2. [th[p] EXCEPT !.tail = i] \in Thread
      BY <1>s, <1>d DEF Thread
    <3> QED
      BY <1>s, <2>1, <3>1, <3>2, Zenon DEF Thread
  <2>2. CASE ~(i < Len(lh))
    <3>1. th' = [th EXCEPT ![p] = [Idle EXCEPT !.pc = "clear_head"]]
      BY <1>s, <2>2 DEF NextTail
    <3>2. [Idle EXCEPT !.pc = "clear_head"] \in Thread
      BY DEF Idle, Thread
    <3> QED
      BY <1>s, <2>2, <3>1, <3>2 DEF Idle
  <2> QED
    BY <2>1, <2>2
<1>h. \A j \in DOMAIN lh : (i < Len(lh) \/ j <= i) /\ (j <= th[p].tail <=> j < i) /\ (j <= i <=> j < i \/ j = i)
  BY <1>t, <1>d
<1>i. up => pins[b] = 1
  <2>1. ~Done(i)
    BY <1>b, <1>t
  <2>2. up => Waits(b)
    BY <1>d, <2>1 DEF Waits
  <2> QED
    BY <1>d, <2>2 DEF LogInv, Pinned
<1> HIDE DEF i, b
<1>1. TypeOK'
  <2>1. cache' \in [Block -> Val \cup {Torn, NULL}] /\ home' \in [Block -> Val \cup {Torn}]
    BY <1>0, <1>d, ZenonT(30)
  <2>2. pins' \in [Block -> Nat]
    <3>1. pins \in [Block -> Nat] /\ b \in Block
      BY <1>0, <1>d
    <3> QED
      BY <1>f, <1>i, <3>1
  <2> QED
    BY <1>0, <1>g, <2>1, <2>2 DEF LogInv, TypeOK
<1>2. Calls' = {}
  BY <1>c, <1>g DEF Calls
<1>3. Counted'
  <2>1. \A q \in Proc : th'[q].pc = "locked" <=> th[q].pc = "locked"
    BY <1>0, <1>g, ZenonT(30)
  <2>2. \A q \in Proc : th'[q].pc = "locked" => th'[q] = th[q]
    BY <1>0, <1>g
  <2>3. \A x \in Block : holder'[x] # NULL => cache'[x] # NULL
    BY <1>0, <1>d DEF LogInv, Counted
  <2> QED
    BY <1>0, <1>c, <1>2, <2>1, <2>2, <2>3, FS_EmptySet, SMTT(30) DEF LogInv, Counted
<1>4. Lists'
  BY <1>0, ZenonT(30) DEF LogInv, Lists
<1>5. Phases'
  <2>1. \A q \in Proc : (Commits(q)' <=> q = p) /\ (Installs(q)' <=> q = p)
    BY <1>b, <1>g DEF Commits, Installs
  <2>2. up => \A q \in Proc : th'[q].pc # "read_head"
    BY <1>b, <1>g DEF LogInv, Phases
  <2>3. \A q \in Proc :
          /\ th'[q].pc \in {"write_log", "install_trans"} => th'[q].tail < Len(lh)
          /\ th'[q].pc = "write_head" => lh # <<>> /\ th'[q].tail = 0
          /\ th'[q].pc = "committed" => lh = <<>>
    BY <1>b, <1>g DEF Commits
  <2> QED
    BY <1>0, <1>b, <1>c, <2>1, <2>2, <2>3, Zenon DEF Phases
<1>6. Boots'
  <2>1. ~up => p = initproc /\ \A q \in Proc : q # initproc => th'[q].pc = "idle"
    BY <1>b, <1>g DEF LogInv, Boots
  <2> QED
    BY <1>0, <1>b, <1>c, <1>g, <2>1, Zenon DEF Boots
<1>7. Copies'
  <2>1. \A j \in DOMAIN lh : j <= i => home'[lh[j]] = logged[j]
    <3> SUFFICES ASSUME NEW j \in DOMAIN lh, j <= i PROVE home'[lh[j]] = logged[j]
      OBVIOUS
    <3>1. lh[j] \in Block
      BY <1>0, SMTT(30)
    <3>2. CASE j = i
      BY <1>0, <1>d, <3>2 DEF b
    <3>3. CASE j # i
      <4>1. home[lh[j]] = logged[j] /\ lh[j] # b
        BY <1>0, <1>e, <1>h, <3>3, Zenon DEF LogInv, Copies
      <4> QED
        BY <1>0, <3>1, <4>1
    <3> QED
      BY <3>2, <3>3
  <2>2. up => \A j \in DOMAIN lh : logged[j] = Data(lh[j])'
    <3> SUFFICES ASSUME up, NEW j \in DOMAIN lh PROVE logged[j] = Data(lh[j])'
      OBVIOUS
    <3>1. logged[j] = Data(lh[j]) /\ lh[j] \in Block
      BY <1>0 DEF LogInv, Copies
    <3>2. CASE j = i
      BY <1>0, <1>d, <3>1, <3>2 DEF Data, b
    <3>3. CASE j # i
      <4>1. lh[j] # b
        BY <1>e, <3>3
      <4> QED
        BY <1>0, <3>1, <4>1 DEF Data
    <3> QED
      BY <3>2, <3>3
  <2>3. \A q \in Proc : th'[q].pc \notin {"write_log", "write_head"}
    BY <1>b, <1>g DEF Commits
  <2>4. \A q \in Proc : th'[q].pc \in {"install_trans", "clear_head"} => q = p
    BY <1>b, <1>g DEF Installs
  <2>5. UNCHANGED <<lh, logged, up>>
    BY <1>0
  <2>6. th'[p].pc = "clear_head" => \A j \in DOMAIN lh : j <= i
    BY <1>g, <1>h
  <2>7. th'[p].pc = "install_trans" => th'[p].tail = i
    BY <1>g
  <2> QED
    BY <2>1, <2>2, <2>3, <2>4, <2>5, <2>6, <2>7 DEF Copies
<1>8. Pinned'
  <2>1. \A j \in DOMAIN lh : Done(j)' <=> j <= i
    BY <1>b, <1>g, <1>h DEF Done, Installs
  <2>2. \A x \in Block : Waits(x)' <=> Waits(x) /\ x # b
    BY <1>0, <1>b, <1>d, <1>e, <1>h, <2>1 DEF Waits, b
  <2> SUFFICES ASSUME NEW x \in Block
               PROVE  IF Waits(x) /\ x # b THEN pins'[x] = 1 /\ cache'[x] # NULL
                      ELSE pins'[x] = 0 /\ cache'[x] \in {NULL, home'[x]}
    BY <2>2 DEF Pinned
  <2>3. CASE x = b
    <3>1. ~up => pins[b] = 0
      BY <1>d DEF LogInv, Pinned, Waits
    <3>2. pins'[b] = 0
      BY <1>0, <1>d, <1>f, <1>i, <3>1, SMTT(30)
    <3> QED
      BY <1>0, <1>d, <2>3, <3>2
  <2>4. CASE x # b
    <3>1. pins'[x] = pins[x] /\ cache'[x] = cache[x] /\ home'[x] = home[x]
      BY <1>0, <1>f, <2>4, Zenon
    <3> QED
      BY <2>4, <3>1 DEF LogInv, Pinned
  <2> QED
    BY <2>3, <2>4
<1> QED
  BY <1>1, <1>3, <1>4, <1>5, <1>6, <1>7, <1>8 DEF LogInv

-----------------------------------------------------------------------------
(* Results.                                                                *)

(* Steps that leave the variables alone leave the invariant alone. *)
LEMMA StutterInv ==
  ASSUME LogInv, UNCHANGED vars PROVE LogInv'
<1>0. UNCHANGED <<home, logged, head, cache, pins, lh, outstanding, committing, holder, up, th>>
  BY DEF vars, disk, mem
<1>1. TypeOK' /\ Lists'
  BY <1>0 DEF LogInv, TypeOK, Lists
<1>2. Counted' /\ Phases'
  BY <1>0 DEF LogInv, Counted, Phases, Calls, Commits, Installs
<1>3. Boots' /\ Copies'
  BY <1>0 DEF LogInv, Boots, Copies, Data
<1>4. Pinned'
  <2>1. \A b \in Block : Waits(b)' <=> Waits(b)
    BY <1>0 DEF Waits, Done
  <2> QED
    BY <1>0, <2>1 DEF LogInv, Pinned
<1> QED
  BY <1>1, <1>2, <1>3, <1>4 DEF LogInv

(* Every step keeps the invariant. *)
LEMMA NextInv ==
  ASSUME LogInv, [Next]_vars PROVE LogInv'
<1>1. ASSUME NEW p \in Proc, Kernel(p) PROVE LogInv'
  BY <1>1, BeginInv, BrelseInv, EndInv, WriteLogInv, WriteHeadInv, InstallInv, ClearHeadInv,
     EndCommitInv, ReadHeadInv DEF Kernel
<1> QED
  BY <1>1, StutterInv, SysCallInv, BreadInv, LogWriteInv, ReadInv, RecycleInv, CrashInv DEF Next

(* begin_op, log_write, end_op, the commit, recovery and a crash at any    *)
(* step keep the invariant of kernel/log.c: LogInv, and with it TypeOK,    *)
(* holds in every state.                                                   *)
THEOREM LogInvariant == Spec => []LogInv
<1> QED
  BY InitInv, NextInv, PTL DEF Spec

(* A buffer is pinned by log_write and unpinned by install_trans exactly   *)
(* while its block waits in the log.                                       *)
THEOREM PinsExact == Spec => []PinsMatchLog
<1>1. ASSUME LogInv PROVE PinsMatchLog
  <2> DEFINE W(b) == {i \in DOMAIN lh : lh[i] = b /\ ~Done(i)}
  <2> SUFFICES ASSUME up, NEW b \in Block PROVE pins[b] = Cardinality(W(b))
    BY DEF PinsMatchLog, Done
  <2>1. CASE Waits(b)
    <3>1. PICK i \in DOMAIN lh : lh[i] = b /\ ~Done(i)
      BY <2>1 DEF Waits
    <3>2. W(b) = {i}
      BY <1>1, <3>1 DEF LogInv, Lists
    <3> QED
      BY <1>1, <2>1, <3>2, FS_Singleton, Zenon DEF LogInv, Pinned
  <2>2. CASE ~Waits(b)
    <3>1. W(b) = {}
      BY <2>2 DEF Waits
    <3> QED
      BY <1>1, <2>2, <3>1, FS_EmptySet DEF LogInv, Pinned
  <2> QED
    BY <2>1, <2>2
<1> QED
  BY LogInvariant, <1>1, PTL

-----------------------------------------------------------------------------
(* Wakeups.                                                                *)

(* A step that puts nobody to sleep, and leaves no more room in the log    *)
(* than there was, leaves nobody asleep in vain.                           *)
LEMMA SleepersStay ==
  ASSUME LogInv, NoLostWakeup, UNCHANGED <<outstanding, committing>>,
         lh' \in Seq(Block), Len(lh') >= Len(lh),
         \A q \in Proc : th'[q].pc = "sleep" => th[q].pc = "sleep"
  PROVE  NoLostWakeup'
<1>1. NoRoom => NoRoom'
  <2> DEFINE m == (outstanding + 1) * MAXOPBLOCKS
  <2>1. m \in Int /\ LOGSIZE \in Int /\ Len(lh) \in Int /\ Len(lh') \in Int
    BY LogAssumption DEF LogInv, TypeOK
  <2>2. (NoRoom <=> Len(lh) + m > LOGSIZE) /\ (NoRoom' <=> Len(lh') + m > LOGSIZE)
    BY DEF NoRoom
  <2> HIDE DEF m
  <2> QED
    BY <2>1, <2>2
<1> QED
  BY <1>1 DEF NoLostWakeup, MustWait

(* With no call open and no commit going on begin_op finds room. *)
LEMMA BeginWake ==
  ASSUME LogInv, NoLostWakeup, NEW p \in Proc, begin_op(p) PROVE NoLostWakeup'
<1>0. /\ th \in [Proc -> Thread] /\ th[p].pc = "begin_op" /\ UNCHANGED <<lh, committing>>
      /\ outstanding \in Nat
  BY DEF LogInv, TypeOK, begin_op
<1>1. CASE MustWait
  <2>1. th' = [th EXCEPT ![p] = [@ EXCEPT !.pc = "sleep"]] /\ UNCHANGED outstanding
    BY <1>1 DEF begin_op, Goto
  <2>2. MustWait'
    BY <1>0, <1>1, <2>1 DEF MustWait, NoRoom
  <2>3. committing \/ outstanding > 0
    <3> SUFFICES ASSUME ~committing, outstanding = 0 PROVE FALSE
      BY <1>0
    <3>1. up
      BY <1>0 DEF LogInv, Boots
    <3>2. Len(lh) = 0
      BY <3>1 DEF LogInv, Phases
    <3>3. (outstanding + 1) * MAXOPBLOCKS = MAXOPBLOCKS
      BY LogAssumption
    <3> QED
      BY <1>1, <3>2, <3>3, LogAssumption DEF MustWait, NoRoom
  <2> QED
    BY <1>0, <2>1, <2>2, <2>3 DEF NoLostWakeup
<1>2. CASE ~MustWait
  <2>1. th' = [th EXCEPT ![p] = [@ EXCEPT !.pc = "op"]]
    BY <1>2 DEF begin_op, Goto
  <2> QED
    BY <1>0, <1>2, <2>1 DEF NoLostWakeup
<1> QED
  BY <1>1, <1>2

(* end_op starts a commit or wakes everybody up. *)
LEMMA EndWake ==
  ASSUME LogInv, NEW p \in Proc, end_op(p) PROVE NoLostWakeup'
<1>0. th \in [Proc -> Thread]
  BY DEF LogInv, TypeOK
<1>1. CASE outstanding' = 0
  BY <1>1, Zenon DEF end_op, NoLostWakeup, MustWait
<1>2. CASE outstanding' # 0
  <2>1. \A q \in Proc : th'[q] = IF q = p THEN [Idle EXCEPT !.pc = "idle"]
                                 ELSE IF th[q].pc = "sleep" THEN [th[q] EXCEPT !.pc = "begin_op"]
                                 ELSE th[q]
    BY <1>2 DEF end_op, EndOthers, WakeAll
  <2>2. \A q \in Proc : th'[q].pc # "sleep"
    BY <1>0, <2>1, Zenon DEF Thread, Idle
  <2> QED
    BY <2>2 DEF NoLostWakeup
<1> QED
  BY <1>1, <1>2

(* A commit that ends wakes everybody up. *)
LEMMA EndCommitWake ==
  ASSUME LogInv, NEW p \in Proc, end_commit(p) PROVE NoLostWakeup'
<1>0. th \in [Proc -> Thread]
  BY DEF LogInv, TypeOK
<1>1. \A q \in Proc : th'[q] = IF q = p THEN [Idle EXCEPT !.pc = "idle"]
                               ELSE IF th[q].pc = "sleep" THEN [th[q] EXCEPT !.pc = "begin_op"]
                               ELSE th[q]
  BY DEF end_commit, WakeAll
<1>2. \A q \in Proc : th'[q].pc # "sleep"
  BY <1>0, <1>1, Zenon DEF Thread, Idle
<1> QED
  BY <1>2 DEF NoLostWakeup

(* The log is emptied during a commit, or before anybody can sleep. *)
LEMMA ClearHeadWake ==
  ASSUME LogInv, NoLostWakeup, NEW p \in Proc, clear_head(p) PROVE NoLostWakeup'
<1> DEFINE pc == IF up THEN "committed" ELSE "idle"
<1>0. /\ th \in [Proc -> Thread] /\ th[p].pc = "clear_head" /\ UNCHANGED committing
      /\ th' = [th EXCEPT ![p] = [@ EXCEPT !.pc = pc]]
  BY DEF LogInv, TypeOK, clear_head, Goto
<1>1. th'[p].pc # "sleep" /\ \A q \in Proc : q # p => th'[q] = th[q]
  BY <1>0 DEF Thread
<1>2. CASE up
  <2>1. committing
    BY <1>0, <1>2, OneCommits DEF Commits
  <2> QED
    BY <1>0, <2>1 DEF NoLostWakeup, MustWait
<1>3. CASE ~up
  <2>1. \A q \in Proc : th'[q].pc # "sleep"
    BY <1>0, <1>1, <1>3 DEF LogInv, Boots
  <2> QED
    BY <2>1 DEF NoLostWakeup
<1> QED
  BY <1>2, <1>3

(* No other step wakes, or puts anybody to sleep. *)
LEMMA OtherWake ==
  ASSUME LogInv, NoLostWakeup, NEW p \in Proc,
         \/ brelse(p) \/ write_log(p) \/ write_head(p) \/ install_trans(p) \/ SysCall(p)
         \/ \E b \in Block : bread(p, b) \/ Read(b) \/ Recycle(b)
         \/ UNCHANGED vars
  PROVE  NoLostWakeup'
<1>0. th \in [Proc -> Thread] /\ lh \in Seq(Block)
  BY SMTT(30) DEF LogInv, TypeOK
<1>1. UNCHANGED <<lh, outstanding, committing>>
  BY DEF brelse, write_log, write_head, install_trans, SysCall, bread, Read, Recycle, vars, mem
<1>2. \A q \in Proc : th'[q].pc = "sleep" => th[q].pc = "sleep"
  <2>1. CASE brelse(p)
    BY <1>0, <2>1 DEF brelse, Thread
  <2>2. CASE write_head(p) \/ SysCall(p)
    <3>1. \E pc \in {"install_trans", "begin_op"} : th' = [th EXCEPT ![p] = [@ EXCEPT !.pc = pc]]
      BY <2>2 DEF write_head, SysCall, Goto
    <3> QED
      BY <1>0, <3>1 DEF Thread
  <2>3. CASE write_log(p) \/ install_trans(p)
    <3>1. \E done \in {"write_head", "clear_head"} : NextTail(p, done)
      BY <2>3, Zenon DEF write_log, install_trans
    <3>2. \A q \in Proc : q # p => th'[q] = th[q]
      BY <1>0, <3>1 DEF NextTail
    <3>3. th'[p].pc \in {th[p].pc, "write_head", "clear_head"}
      BY <1>0, <3>1 DEF NextTail, Thread, Idle
    <3> QED
      BY <3>2, <3>3
  <2>4. CASE \E b \in Block : bread(p, b)
    BY <1>0, <2>4, ZenonT(30) DEF bread, Thread
  <2>5. CASE UNCHANGED th
    BY <2>5
  <2> QED
    BY <2>1, <2>2, <2>3, <2>4, <2>5, Zenon DEF Read, Recycle, vars, mem
<1>3. lh' \in Seq(Block) /\ Len(lh') >= Len(lh)
  BY <1>0, <1>1
<1> QED
  BY <1>1, <1>2, <1>3, SleepersStay

(* Nobody sleeps in begin_op when it need not, and whoever sleeps there    *)
(* will be woken up by a call or by a commit that is going on.             *)
THEOREM NobodySleepsInVain == Spec => []NoLostWakeup
<1>1. Init => NoLostWakeup
  BY DEF Init, NoLostWakeup, Booting, Idle
<1>2. ASSUME LogInv, NoLostWakeup, [Next]_vars PROVE NoLostWakeup'
  <2>0. th \in [Proc -> Thread] /\ lh \in Seq(Block) /\ initproc \in Proc
    BY <1>2, LogAssumption DEF LogInv, TypeOK
  <2>1. ASSUME NEW p \in Proc, NEW v \in Val, log_write(p, v) PROVE NoLostWakeup'
    <3>1. UNCHANGED <<outstanding, committing>>
      BY <2>1 DEF log_write
    <3>2. \A q \in Proc : th'[q].pc = th[q].pc
      BY <2>0, <2>1 DEF log_write, Thread
    <3>3. lh' \in Seq(Block) /\ Len(lh') >= Len(lh)
      <4>1. th[p].blk \in Block
        BY <1>2, <2>1 DEF log_write, LogInv, Counted
      <4> QED
        BY <2>0, <2>1, <4>1 DEF log_write, Absorb
    <3> QED
      BY <1>2, <3>1, <3>2, <3>3, SleepersStay
  <2>2. ASSUME NEW p \in Proc, read_head(p) PROVE NoLostWakeup'
    <3>1. ~up
      BY <1>2, <2>2 DEF read_head, LogInv, Phases
    <3>2. \A q \in Proc : th[q].pc # "sleep"
      BY <1>2, <3>1 DEF LogInv, Boots
    <3>3. th' = [th EXCEPT ![p] = [@ EXCEPT !.pc = RecoverNext]] /\ RecoverNext # "sleep"
      BY <2>2 DEF read_head, Goto, RecoverNext
    <3>4. \A q \in Proc : th'[q].pc # "sleep"
      BY <2>0, <3>2, <3>3 DEF Thread
    <3> QED
      BY <3>4 DEF NoLostWakeup
  <2>3. CASE Crash
    BY <2>3 DEF Crash, Booting, Idle, NoLostWakeup
  <2>4. ASSUME NEW p \in Proc, Kernel(p) PROVE NoLostWakeup'
    BY <1>2, <2>2, <2>4, BeginWake, EndWake, EndCommitWake, ClearHeadWake, OtherWake DEF Kernel
  <2> QED
    BY <1>2, <2>0, <2>1, <2>3, <2>4, OtherWake DEF Next
<1> QED
  BY LogInvariant, <1>1, <1>2, PTL DEF Spec

-----------------------------------------------------------------------------
(* The log implements an atomic disk.                                      *)

(* The refinement mapping of AD. *)
Cur    == [b \in Block |-> IF up THEN Data(b) ELSE Recovered(b)]
Stable == [b \in Block |-> Recovered(b)]

(* In a list that names no block twice, the last place of a block is its   *)
(* only one.                                                               *)
LEMMA LastPlace ==
  ASSUME NEW S, NEW s \in Seq(S), \A i, j \in DOMAIN s : s[i] = s[j] => i = j, NEW k \in DOMAIN s
  PROVE  /\ s[k] \in Range(s)
         /\ k = CHOOSE i \in DOMAIN s : s[i] = s[k] /\ \A j \in DOMAIN s : s[j] = s[k] => j <= i
<1>1. \A j \in DOMAIN s : s[j] = s[k] => j <= k
  <2>1. k \in Int
    OBVIOUS
  <2> QED
    BY <2>1
<1>2. \A i \in DOMAIN s : s[i] = s[k] /\ (\A j \in DOMAIN s : s[j] = s[k] => j <= i) => i = k
  OBVIOUS
<1> QED
  BY <1>1, <1>2 DEF Range

(* Recovery finds a block of the header in the log, and any other block at *)
(* home.                                                                   *)
LEMMA RecoveredIs ==
  ASSUME LogInv
  PROVE  /\ \A k \in DOMAIN head : Recovered(head[k]) = logged[k]
         /\ \A b \in Block : b \in Range(head) <=> \E k \in DOMAIN head : head[k] = b
         /\ \A b \in Block : b \notin Range(head) => Recovered(b) = home[b]
         /\ head = <<>> => \A b \in Block : Recovered(b) = home[b]
<1>1. \A k \in DOMAIN head : Recovered(head[k]) = logged[k]
  <2> TAKE k \in DOMAIN head
  <2>1. head \in Seq(Block) /\ \A i, j \in DOMAIN head : head[i] = head[j] => i = j
    BY DEF LogInv, TypeOK, Lists
  <2> QED
    BY <2>1, LastPlace DEF Recovered
<1>2. \A b \in Block : b \in Range(head) <=> \E k \in DOMAIN head : head[k] = b
  BY DEF Range
<1>3. head = <<>> => Range(head) = {}
  BY DEF Range
<1> QED
  BY <1>1, <1>2, <1>3, Zenon DEF Recovered

(* A crash, which may tear the block being written, in a commit or in      *)
(* recovery, loses no block that is committed.                             *)
LEMMA CrashStable ==
  ASSUME LogInv, Crash PROVE Cur' = Stable /\ Stable' = Stable /\ outstanding' = 0
<1>1. head' = head /\ ~up' /\ outstanding' = 0
  BY DEF Crash
<1>2. \A b \in Block : Recovered(b)' = Recovered(b)
  <2>1. CASE UNCHANGED <<home, logged>>
    BY <1>1, <2>1 DEF Recovered
  <2>2. ASSUME NEW p \in Proc, th[p].pc = "write_log", UNCHANGED home PROVE \A b \in Block : Recovered(b)' = Recovered(b)
    <3>1. up /\ head = <<>>
      <4>1. Commits(p) /\ ~Installs(p) /\ up
        BY <2>2 DEF LogInv, Boots, Commits, Installs
      <4> QED
        BY <4>1, OneCommits DEF LogInv, Phases
    <3>2. Range(head) = {}
      BY <3>1 DEF Range
    <3> QED
      BY <1>1, <2>2, <3>2 DEF Recovered
  <2>3. ASSUME NEW p \in Proc, th[p].pc = "install_trans", UNCHANGED logged,
               home' = [home EXCEPT ![lh[th[p].tail + 1]] = Torn]
        PROVE  \A b \in Block : Recovered(b)' = Recovered(b)
    <3>1. head = lh
      BY <2>3, OneCommits DEF Commits, Installs
    <3>2. th[p].tail \in Nat /\ th[p].tail < Len(lh) /\ lh \in Seq(Block) /\ home \in [Block -> Val \cup {Torn}]
      BY <2>3 DEF LogInv, TypeOK, Thread, Phases
    <3>3. lh[th[p].tail + 1] \in Range(head)
      BY <3>1, <3>2 DEF Range
    <3>4. \A b \in Block : b \notin Range(head) => home'[b] = home[b]
      BY <2>3, <3>2, <3>3
    <3> QED
      BY <1>1, <2>3, <3>4 DEF Recovered
  <2> QED
    BY <2>1, <2>2, <2>3 DEF Crash
<1> QED
  BY <1>1, <1>2 DEF Cur, Stable

(* A step that changes no disk block, and no data that bread would find,   *)
(* changes nothing a caller can see.                                       *)
LEMMA NothingSeen ==
  ASSUME LogInv, UNCHANGED <<disk, up>>, \A b \in Block : Data(b)' = Data(b)
  PROVE  UNCHANGED <<Cur, Stable>>
<1>1. \A b \in Block : Recovered(b)' = Recovered(b)
  BY DEF Recovered, disk
<1> QED
  BY <1>1 DEF Cur, Stable

(* Filling a buffer from the disk, and dropping one that nothing refers    *)
(* to, does not change what is read.                                       *)
LEMMA CacheSeen ==
  ASSUME LogInv,
         \/ \E p \in Proc, b \in Block : bread(p, b)
         \/ \E b \in Block : Read(b) \/ Recycle(b)
  PROVE  UNCHANGED <<Cur, Stable, outstanding>>
<1>0. /\ UNCHANGED <<disk, up, outstanding, home>>
      /\ cache \in [Block -> Val \cup {Torn, NULL}] /\ home \in [Block -> Val \cup {Torn}]
  BY Zenon DEF bread, Read, Recycle, disk, LogInv, TypeOK
<1>1. \A b \in Block : Data(b)' = Data(b)
  <2>1. ASSUME NEW b \in Block, cache' = [cache EXCEPT ![b] = Data(b)]
        PROVE  \A c \in Block : Data(c)' = Data(c)
    BY <1>0, <2>1, DataType DEF Data, LogInv
  <2>2. ASSUME NEW b \in Block, Read(b) PROVE \A c \in Block : Data(c)' = Data(c)
    <3>1. cache' = [cache EXCEPT ![b] = Data(b)]
      BY <2>2 DEF Read, Data
    <3> QED
      BY <2>1, <3>1, Zenon
  <2>3. ASSUME NEW b \in Block, Recycle(b) PROVE \A c \in Block : Data(c)' = Data(c)
    <3>1. pins[b] = 0 /\ cache[b] # NULL /\ cache' = [cache EXCEPT ![b] = NULL]
      BY <2>3, ZenonT(30) DEF Recycle
    <3>2. cache[b] = home[b]
      BY <3>1 DEF LogInv, Pinned
    <3> QED
      BY <1>0, <3>1, <3>2 DEF Data
  <2> QED
    BY <2>1, <2>2, <2>3, Zenon DEF bread
<1> QED
  BY <1>0, <1>1, NothingSeen

(* log_write is the only step that changes what is read, and it is made by *)
(* an open call.                                                           *)
LEMMA LogWriteSeen ==
  ASSUME LogInv, NEW p \in Proc, NEW v \in Val, log_write(p, v) PROVE AD!Write
<1> DEFINE b == th[p].blk
<1>0. /\ th[p].pc = "locked" /\ b \in Block /\ cache' = [cache EXCEPT ![b] = v]
      /\ cache \in [Block -> Val \cup {Torn, NULL}] /\ UNCHANGED <<disk, up, home, outstanding>>
      /\ outstanding \in Nat /\ v # NULL
  BY LogAssumption DEF log_write, LogInv, Counted, TypeOK, disk
<1>1. outstanding > 0 /\ up
  BY <1>0, OpenCall, CallsFinite, SMTT(30) DEF Calls
<1>2. \A c \in Block : Recovered(c)' = Recovered(c)
  BY <1>0 DEF Recovered, disk
<1>3. \A c \in Block : Data(c)' = IF c = b THEN v ELSE Data(c)
  BY <1>0 DEF Data
<1>4. Cur' = [Cur EXCEPT ![b] = v]
  BY <1>0, <1>1, <1>3, ZenonT(30) DEF Cur
<1>5. Stable' = Stable
  BY <1>2 DEF Stable
<1> QED
  BY <1>0, <1>1, <1>4, <1>5, ZenonT(30) DEF AD!Write, Cur, Stable

(* write_log writes where a crash does not look. *)
LEMMA WriteLogSeen ==
  ASSUME LogInv, NEW p \in Proc, write_log(p) PROVE UNCHANGED <<Cur, Stable, outstanding>>
<1> DEFINE i == th[p].tail + 1
           b == lh[i]
<1>0. /\ th[p].pc = "write_log" /\ cache' = [cache EXCEPT ![b] = Data(b)]
      /\ UNCHANGED <<home, head, up, outstanding>>
      /\ cache \in [Block -> Val \cup {Torn, NULL}]
  BY DEF write_log, LogInv, TypeOK
<1>t. lh \in Seq(Block) /\ th[p].tail \in Nat /\ th[p].tail < Len(lh)
  BY <1>0 DEF LogInv, TypeOK, Phases, Thread
<1>1. up /\ head = <<>> /\ b \in Block
  <2>1. b \in Block
    BY <1>t
  <2> QED
    BY <1>0, <2>1, OneCommits DEF Commits, Installs
<1>2. \A c \in Block : Recovered(c)' = Recovered(c)
  <2>1. Range(head) = {}
    BY <1>1 DEF Range
  <2> QED
    BY <1>0, <2>1, Zenon DEF Recovered
<1>3. \A c \in Block : Data(c)' = Data(c)
  BY <1>0, <1>1, DataType, ZenonT(30) DEF Data, LogInv
<1> QED
  BY <1>0, <1>2, <1>3, Zenon DEF Cur, Stable

(* The write of the header is the commit: what was read becomes what a     *)
(* crash goes back to, all at once.                                        *)
LEMMA WriteHeadSeen ==
  ASSUME LogInv, NEW p \in Proc, write_head(p) PROVE AD!Commit
<1>0. /\ th[p].pc = "write_head" /\ head' = lh /\ lh \in Seq(Block)
      /\ UNCHANGED <<home, logged, cache, up, outstanding>>
  BY DEF write_head, LogInv, TypeOK
<1>1. up /\ outstanding = 0 /\ \A k : ~Done(k)
  BY <1>0, OneCommits, ZenonT(30) DEF Commits, Installs
<1>2. \A b \in Block : Data(b)' = Data(b)
  BY <1>0, Zenon DEF Data
<1>3. \A b \in Block : Recovered(b)' = Data(b)
  <2> TAKE b \in Block
  <2>1. CASE b \in Range(lh)
    <3>1. PICK k \in DOMAIN lh : lh[k] = b
      BY <2>1 DEF Range
    <3>2. k = CHOOSE i \in DOMAIN lh : lh[i] = lh[k] /\ \A j \in DOMAIN lh : lh[j] = lh[k] => j <= i
      BY <1>0, LastPlace DEF LogInv, Lists
    <3>3. Recovered(b)' = logged[k]
      BY <1>0, <2>1, <3>1, <3>2 DEF Recovered
    <3> QED
      BY <1>0, <3>1, <3>3 DEF LogInv, Copies
  <2>2. CASE b \notin Range(lh)
    <3>1. ~Waits(b)
      BY <2>2 DEF Waits, Range
    <3> QED
      BY <1>0, <2>2, <3>1 DEF LogInv, Pinned, Recovered, Data
  <2> QED
    BY <2>1, <2>2
<1>4. Stable' = Cur /\ Cur' = Cur
  BY <1>0, <1>1, <1>2, <1>3 DEF Cur, Stable
<1> QED
  BY <1>0, <1>1, <1>4, ZenonT(30) DEF AD!Commit, Cur, Stable

(* install_trans overwrites, at home, only what the log still holds. *)
LEMMA InstallSeen ==
  ASSUME LogInv, NEW p \in Proc, install_trans(p) PROVE UNCHANGED <<Cur, Stable, outstanding>>
<1> DEFINE i == th[p].tail + 1
           b == lh[i]
<1>0. /\ th[p].pc = "install_trans"
      /\ cache' = [cache EXCEPT ![b] = logged[i]] /\ home' = [home EXCEPT ![b] = logged[i]]
      /\ UNCHANGED <<logged, head, up, outstanding>>
      /\ cache \in [Block -> Val \cup {Torn, NULL}] /\ home \in [Block -> Val \cup {Torn}]
      /\ logged \in [Slot -> Val \cup {Torn}]
  BY DEF install_trans, LogInv, TypeOK
<1>t. lh \in Seq(Block) /\ th[p].tail \in Nat /\ th[p].tail < Len(lh) /\ Len(lh) <= Size - 1 /\ Size \in Nat
  BY <1>0, LogAssumption DEF LogInv, TypeOK, Phases, Lists, Thread
<1>1. i \in DOMAIN lh /\ i \in Slot /\ b \in Block
  BY <1>t DEF Slot
<1>2. logged[i] # NULL
  BY <1>0, <1>1, LogAssumption
<1>3. head = lh /\ b \in Range(head)
  <2>1. head = lh
    BY <1>0, OneCommits DEF Commits, Installs
  <2> QED
    BY <1>1, <2>1 DEF Range
<1> HIDE DEF i, b
<1>4. \A c \in Block : Recovered(c)' = Recovered(c)
  <2>1. \A c \in Block : c \notin Range(head) => home'[c] = home[c]
    BY <1>0, <1>3
  <2>2. UNCHANGED <<logged, head>>
    BY <1>0
  <2> QED
    BY <2>1, <2>2 DEF Recovered
<1>5. up => \A c \in Block : Data(c)' = Data(c)
  <2>1. up => logged[i] = Data(b)
    BY <1>0, <1>1 DEF LogInv, Copies, b
  <2> QED
    BY <1>0, <1>1, <1>2, <2>1 DEF Data
<1> QED
  BY <1>0, <1>4, <1>5 DEF Cur, Stable

(* When the header is cleared everything in the log is at home, and what   *)
(* recovery leaves in the cache agrees with the disk.                      *)
LEMMA ClearHeadSeen ==
  ASSUME LogInv, NEW p \in Proc, clear_head(p) PROVE UNCHANGED <<Cur, Stable, outstanding>>
<1>0. th[p].pc = "clear_head" /\ head' = <<>> /\ up' /\ UNCHANGED <<home, logged, cache, outstanding>>
  BY ZenonT(30) DEF clear_head
<1>1. head = lh
  BY <1>0, OneCommits, Zenon DEF Commits, Installs
<1>2. \A b \in Block : Recovered(b) = home[b]
  <2> TAKE b \in Block
  <2>1. CASE b \in Range(head)
    <3>1. PICK k \in DOMAIN head : head[k] = b
      BY <2>1, RecoveredIs
    <3>2. home[lh[k]] = logged[k]
      BY <1>0, <1>1, <3>1 DEF LogInv, Copies
    <3> QED
      BY <1>1, <3>1, <3>2, RecoveredIs
  <2> QED
    BY <2>1, RecoveredIs
<1>3. \A b \in Block : Recovered(b)' = home[b]
  <2>1. Range(head)' = {}
    BY <1>0 DEF Range
  <2> QED
    BY <1>0, <2>1 DEF Recovered
<1>4. \A b \in Block : Data(b)' = IF up THEN Data(b) ELSE home[b]
  <2>1. \A b \in Block : ~up => cache[b] \in {NULL, home[b]}
    BY DEF LogInv, Pinned, Waits
  <2> QED
    BY <1>0, <2>1 DEF Data
<1> QED
  BY <1>0, <1>2, <1>3, <1>4 DEF Cur, Stable

(* The other steps touch neither the disk nor the cache. *)
LEMMA OtherSeen ==
  ASSUME LogInv, NEW p \in Proc,
         \/ brelse(p) \/ SysCall(p) \/ begin_op(p) \/ end_op(p) \/ end_commit(p) \/ read_head(p)
         \/ UNCHANGED vars
  PROVE  UNCHANGED <<Cur, Stable>>
<1>1. UNCHANGED <<disk, up, cache>>
  BY DEF brelse, SysCall, begin_op, end_op, end_commit, read_head, vars, mem
<1>2. \A b \in Block : Data(b)' = Data(b)
  BY <1>1, Zenon DEF Data, disk
<1> QED
  BY <1>1, <1>2, NothingSeen

(* Every step of the log is a step of the atomic disk, or changes nothing  *)
(* that its user sees.                                                     *)
LEMMA StepRefines ==
  ASSUME LogInv, [Next]_vars PROVE [AD!Next]_AD!vars
<1> USE DEF Cur, Stable
<1>1. CASE UNCHANGED <<Cur, Stable, outstanding>>
  BY <1>1 DEF AD!vars
<1>2. ASSUME NEW p \in Proc, begin_op(p) PROVE [AD!Next]_AD!vars
  <2>1. UNCHANGED <<Cur, Stable>> /\ (UNCHANGED outstanding \/ outstanding' = outstanding + 1)
    BY <1>2, OtherSeen DEF begin_op
  <2> QED
    BY <1>1, <2>1 DEF AD!Next, AD!Begin
<1>3. ASSUME NEW p \in Proc, end_op(p) PROVE AD!Next
  <2>1. UNCHANGED <<Cur, Stable>>
    BY <1>3, OtherSeen
  <2>2. outstanding > 0 /\ outstanding' = outstanding - 1
    BY <1>3, CallsFinite DEF end_op, Calls, LogInv, TypeOK
  <2> QED
    BY <2>1, <2>2 DEF AD!Next, AD!End
<1>4. CASE Crash
  BY <1>4, CrashStable DEF AD!Next, AD!Crash
<1>5. ASSUME NEW p \in Proc, brelse(p) \/ SysCall(p) \/ end_commit(p) \/ read_head(p)
      PROVE  [AD!Next]_AD!vars
  <2>1. UNCHANGED outstanding
    BY <1>5 DEF brelse, SysCall, end_commit, read_head
  <2> QED
    BY <1>1, <1>5, <2>1, OtherSeen
<1>6. CASE UNCHANGED vars
  <2>1. UNCHANGED outstanding
    BY <1>6 DEF vars, mem
  <2> QED
    BY <1>1, <1>6, <2>1, OtherSeen, LogAssumption
<1>7. ASSUME NEW p \in Proc, Kernel(p) PROVE [AD!Next]_AD!vars
  BY <1>1, <1>2, <1>3, <1>5, <1>7, WriteLogSeen, WriteHeadSeen, InstallSeen, ClearHeadSeen
  DEF Kernel, AD!Next
<1> QED
  BY <1>1, <1>4, <1>5, <1>6, <1>7, CacheSeen, LogWriteSeen DEF Next, AD!Next

(* The log of kernel/log.c, with its commits, crashes and recovery,        *)
(* implements a disk on which the blocks that calls write between begin_op *)
(* and end_op become stable together or not at all.                        *)
THEOREM LogIsAtomicDisk == Spec => CrashAtomic
<1>1. Init => AD!Init
  <2> SUFFICES ASSUME Init PROVE AD!Init
    OBVIOUS
  <2>1. ~up /\ outstanding = 0 /\ home \in [Block -> Val] /\ Range(head) = {}
    BY DEF Init, Range
  <2>2. \A b \in Block : Recovered(b) = home[b]
    BY <2>1 DEF Recovered
  <2> QED
    BY <2>1, <2>2 DEF AD!Init
<1> QED
  BY LogInvariant, <1>1, StepRefines, PTL DEF Spec, CrashAtomic, AD!Spec
=============================================================================
