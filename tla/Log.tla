-------------------------------- MODULE Log ---------------------------------
(***************************************************************************)
(* The redo log of kernel/log.c, under file-system calls that run at the   *)
(* same time, over a buffer cache that may drop any buffer not referred    *)
(* to, and a machine that may crash at any step, recovery included.        *)
(*                                                                         *)
(* A step is a critical section of log.lock or one disk write.  The disk   *)
(* writes a block of two sectors, so a crash can tear the block being      *)
(* written; the log header fits in one sector and is written whole.        *)
(***************************************************************************)
EXTENDS Integers, Sequences, FiniteSets, Functions

CONSTANTS
  Proc, initproc, Block, Val,
  Torn,         \* a block half written when the machine stopped
  NULL,
  LOGSIZE, MAXOPBLOCKS,
  Size,         \* log.size: blocks of the on-disk log, its header included
  OPBLOCKS      \* bound: the distinct blocks one call really writes

ASSUME LogAssumption ==
  /\ IsFiniteSet(Proc) /\ initproc \in Proc
  /\ NULL \notin Proc /\ NULL \notin Block /\ NULL \notin Val \cup {Torn}
  /\ LOGSIZE \in Nat /\ MAXOPBLOCKS \in 1..LOGSIZE /\ OPBLOCKS \in Nat
  /\ Size \in Nat \ {0}

VARIABLES
  home,         \* disk: every block at its home location
  logged,       \* disk: the data blocks of the log
  head,         \* disk: block[0 .. n-1] of the log header
  cache,        \* data of the cached buffers, NULL if not cached
  pins,         \* references that bpin took on the buffer of a block
  lh,           \* log.lh.block[0 .. n-1], in memory
  outstanding, committing,
  holder,       \* the process holding the sleep-lock of a block's buffer
  up,           \* initproc has been through fsinit: calls may come
  th            \* th[p]: pc, blk: the buffer held, tail: loop index, and
                \* wrote: the blocks the call has logged

disk == <<home, logged, head>>
mem  == <<cache, pins, lh, outstanding, committing, holder, up, th>>
vars == <<disk, mem>>

Idle == [pc |-> "idle", blk |-> NULL, tail |-> 0, wrote |-> {}]
Slot == 1..(Size - 1)

(* The first process is in fsinit, there is no other yet. *)
Booting == [p \in Proc |-> IF p = initproc THEN [Idle EXCEPT !.pc = "read_head"] ELSE Idle]

Init ==
  /\ home \in [Block -> Val]
  /\ logged \in [Slot -> {Torn}]
  /\ head = <<>>
  /\ cache = [b \in Block |-> NULL]
  /\ pins = [b \in Block |-> 0]
  /\ lh = <<>> /\ outstanding = 0 /\ committing = FALSE
  /\ holder = [b \in Block |-> NULL]
  /\ up = FALSE
  /\ th = Booting

Goto(p, pc) == th' = [th EXCEPT ![p].pc = pc]

(* What bread finds in block b. *)
Data(b) == IF cache[b] = NULL THEN home[b] ELSE cache[b]

-----------------------------------------------------------------------------
(* Calls.                                                                  *)

SysCall(p) ==
  /\ up /\ th[p].pc = "idle" /\ Goto(p, "begin_op")
  /\ UNCHANGED <<disk, cache, pins, lh, outstanding, committing, holder, up>>

NoRoom == Len(lh) + (outstanding + 1) * MAXOPBLOCKS > LOGSIZE

MustWait == committing \/ NoRoom

begin_op(p) ==
  /\ th[p].pc = "begin_op"
  /\ IF MustWait
     THEN Goto(p, "sleep") /\ UNCHANGED outstanding
     ELSE Goto(p, "op") /\ outstanding' = outstanding + 1
  /\ UNCHANGED <<disk, cache, pins, lh, committing, holder, up>>

(* bread: lock the buffer of block b, read from disk if it is not cached. *)
bread(p, b) ==
  /\ th[p].pc = "op" /\ holder[b] = NULL
  /\ holder' = [holder EXCEPT ![b] = p]
  /\ cache' = [cache EXCEPT ![b] = Data(b)]
  /\ th' = [th EXCEPT ![p].pc = "locked", ![p].blk = b]
  /\ UNCHANGED <<disk, pins, lh, outstanding, committing, up>>

bpin(b) == pins' = [pins EXCEPT ![b] = @ + 1]

(* Append block b to the transaction, unless it is there already. *)
Absorb(b) ==
  IF b \in Range(lh) THEN UNCHANGED <<lh, pins>>
  ELSE lh' = Append(lh, b) /\ bpin(b)

TooBig == Len(lh) >= LOGSIZE \/ Len(lh) >= Size - 1

(* The caller changes the buffer it holds, and log_write.  (If TooBig it   *)
(* panics and the machine stops.)                                          *)
log_write(p, v) ==
  LET b == th[p].blk
  IN  /\ th[p].pc = "locked"
      /\ Cardinality(th[p].wrote \cup {b}) <= OPBLOCKS
      /\ ~TooBig
      /\ Absorb(b)
      /\ cache' = [cache EXCEPT ![b] = v]
      /\ th' = [th EXCEPT ![p].wrote = @ \cup {b}]
      /\ UNCHANGED <<disk, outstanding, committing, holder, up>>

brelse(p) ==
  /\ th[p].pc = "locked"
  /\ holder' = [holder EXCEPT ![th[p].blk] = NULL]
  /\ th' = [th EXCEPT ![p].pc = "op", ![p].blk = NULL]
  /\ UNCHANGED <<disk, cache, pins, lh, outstanding, committing, up>>

(* wakeup(&log), for the sleepers in begin_op; p itself goes to pc. *)
WakeAll(p, pc) ==
  th' = [q \in Proc |-> IF q = p THEN [Idle EXCEPT !.pc = pc]
                        ELSE IF th[q].pc = "sleep" THEN [th[q] EXCEPT !.pc = "begin_op"]
                        ELSE th[q]]

(* Mutant: only the commit wakes the sleepers. *)
EndOthers_no_wakeup(p) == th' = [th EXCEPT ![p] = Idle]
EndOthers(p) == WakeAll(p, "idle")

(* end_op: the last call out commits. *)
end_op(p) ==
  /\ th[p].pc = "op"
  /\ outstanding' = outstanding - 1
  /\ IF outstanding' = 0
     THEN /\ committing' = TRUE
          /\ th' = [th EXCEPT ![p] = [Idle EXCEPT !.pc =
                                        IF lh # <<>> THEN "write_log" ELSE "committed"]]
     ELSE EndOthers(p) /\ UNCHANGED committing
  /\ UNCHANGED <<disk, cache, pins, lh, holder, up>>

-----------------------------------------------------------------------------
(* commit, by the process that found outstanding to be 0.                  *)

(* Mutant: the loop index is not advanced. *)
NextTail_stuck(p, done) ==
  IF th[p].tail + 1 < Len(lh) THEN UNCHANGED th
  ELSE th' = [th EXCEPT ![p] = [Idle EXCEPT !.pc = done]]

(* The next block of a loop over lh, and the step that follows the loop. *)
NextTail(p, done) ==
  LET i == th[p].tail + 1
  IN  th' = [th EXCEPT ![p] = IF i < Len(lh) THEN [@ EXCEPT !.tail = i]
                              ELSE [Idle EXCEPT !.pc = done]]

write_log(p) ==
  LET i == th[p].tail + 1
  IN  /\ th[p].pc = "write_log" /\ holder[lh[i]] = NULL
      /\ cache' = [cache EXCEPT ![lh[i]] = Data(lh[i])]
      /\ logged' = [logged EXCEPT ![i] = Data(lh[i])]
      /\ NextTail(p, "write_head")
      /\ UNCHANGED <<home, head, pins, lh, outstanding, committing, holder, up>>

(* The header reaches the disk: the transaction has committed. *)
write_head(p) ==
  /\ th[p].pc = "write_head" /\ head' = lh
  /\ Goto(p, "install_trans")
  /\ UNCHANGED <<home, logged, cache, pins, lh, outstanding, committing, holder, up>>

(* Mutant: install_trans unpins nothing. *)
bunpin_missing(b) == UNCHANGED pins
bunpin(b) == pins' = [pins EXCEPT ![b] = @ - 1]

Unpin(b) == IF up THEN bunpin(b) ELSE UNCHANGED pins

(* install_trans copies the next log block to its home.  Recovery runs it  *)
(* too, but its buffers are not pinned.                                    *)
install_trans(p) ==
  LET i == th[p].tail + 1
      b == lh[i]
  IN  /\ th[p].pc = "install_trans" /\ holder[b] = NULL
      /\ cache' = [cache EXCEPT ![b] = logged[i]]
      /\ home' = [home EXCEPT ![b] = logged[i]]
      /\ Unpin(b)
      /\ NextTail(p, "clear_head")
      /\ UNCHANGED <<logged, head, lh, outstanding, committing, holder, up>>

(* log.lh.n = 0, and the empty header goes to the disk. *)
clear_head(p) ==
  /\ th[p].pc = "clear_head" /\ lh' = <<>> /\ head' = <<>>
  /\ Goto(p, IF up THEN "committed" ELSE "idle")
  /\ up' = TRUE
  /\ UNCHANGED <<home, logged, cache, pins, outstanding, committing, holder>>

end_commit(p) ==
  /\ th[p].pc = "committed" /\ committing' = FALSE
  /\ WakeAll(p, "idle")
  /\ UNCHANGED <<disk, cache, pins, lh, outstanding, holder, up>>

-----------------------------------------------------------------------------
(* The buffer cache.                                                       *)

(* A read outside any transaction (read, fstat, exec) brings in a block. *)
Read(b) ==
  /\ up /\ holder[b] = NULL /\ cache[b] = NULL
  /\ cache' = [cache EXCEPT ![b] = home[b]]
  /\ UNCHANGED <<disk, pins, lh, outstanding, committing, holder, up, th>>

(* bget recycles a buffer that nothing refers to. *)
Recycle(b) ==
  /\ cache[b] # NULL /\ pins[b] = 0 /\ holder[b] = NULL
  /\ cache' = [cache EXCEPT ![b] = NULL]
  /\ UNCHANGED <<disk, pins, lh, outstanding, committing, holder, up, th>>

-----------------------------------------------------------------------------
(* Crash and recovery.                                                     *)

(* Mutant: the log is cleared without being installed. *)
RecoverNext_clear == "clear_head"
RecoverNext == IF head = <<>> THEN "clear_head" ELSE "install_trans"

(* recover_from_log: read the header, then as in a commit. *)
read_head(p) ==
  /\ th[p].pc = "read_head" /\ lh' = head
  /\ Goto(p, RecoverNext)
  /\ UNCHANGED <<disk, cache, pins, outstanding, committing, holder, up>>

(* The memory is lost.  The block being written may be torn. *)
Crash ==
  /\ \/ UNCHANGED <<home, logged>>
     \/ \E p \in Proc : /\ th[p].pc = "write_log"
                        /\ logged' = [logged EXCEPT ![th[p].tail + 1] = Torn]
                        /\ UNCHANGED home
     \/ \E p \in Proc : /\ th[p].pc = "install_trans"
                        /\ home' = [home EXCEPT ![lh[th[p].tail + 1]] = Torn]
                        /\ UNCHANGED logged
  /\ cache' = [b \in Block |-> NULL]
  /\ pins' = [b \in Block |-> 0]
  /\ lh' = <<>> /\ outstanding' = 0 /\ committing' = FALSE
  /\ holder' = [b \in Block |-> NULL]
  /\ up' = FALSE
  /\ th' = Booting
  /\ UNCHANGED head

-----------------------------------------------------------------------------
(* A step inside the kernel, which always goes on. *)
Kernel(p) ==
  \/ begin_op(p) \/ brelse(p) \/ end_op(p)
  \/ write_log(p) \/ write_head(p) \/ install_trans(p) \/ clear_head(p) \/ end_commit(p)
  \/ read_head(p)

Next ==
  \/ \E p \in Proc : \/ Kernel(p) \/ SysCall(p)
                     \/ \E b \in Block : bread(p, b)
                     \/ \E v \in Val : log_write(p, v)
  \/ \E b \in Block : Read(b) \/ Recycle(b)
  \/ Crash

(* A process in the kernel keeps running, and every call ends. *)
Spec == Init /\ [][Next]_vars /\ \A p \in Proc : WF_vars(Kernel(p))

-----------------------------------------------------------------------------
(* Properties.                                                             *)

Thread ==
  [pc : {"idle", "begin_op", "sleep", "op", "locked", "write_log", "write_head",
         "install_trans", "clear_head", "committed", "read_head"},
   blk : Block \cup {NULL}, tail : Nat, wrote : SUBSET Block]

(* Every variable of the disk, of the log and of its callers has its type. *)
TypeOK ==
  /\ home \in [Block -> Val \cup {Torn}]
  /\ logged \in [Slot -> Val \cup {Torn}]
  /\ head \in Seq(Block)
  /\ cache \in [Block -> Val \cup {Torn, NULL}]
  /\ pins \in [Block -> Nat]
  /\ lh \in Seq(Block)
  /\ outstanding \in Nat /\ committing \in BOOLEAN
  /\ holder \in [Block -> Proc \cup {NULL}]
  /\ up \in BOOLEAN
  /\ th \in [Proc -> Thread]

(* The block as a crash would leave it: recovery installs the blocks of a  *)
(* committed header, the last copy of each winning.                        *)
Recovered(b) ==
  IF b \in Range(head)
  THEN logged[CHOOSE i \in DOMAIN head : head[i] = b /\ \A j \in DOMAIN head : head[j] = b => j <= i]
  ELSE home[b]

AD == INSTANCE AtomicDisk WITH
        cur    <- [b \in Block |-> IF up THEN Data(b) ELSE Recovered(b)],
        stable <- [b \in Block |-> Recovered(b)],
        open   <- outstanding

(* The log is an atomic disk: whenever the machine stops, in a call, in a  *)
(* commit or in recovery itself, what it finds after the next boot is the  *)
(* work of all calls up to the last commit and of no other, and until then *)
(* every read sees the latest write although buffers come and go.          *)
CrashAtomic == AD!Spec

(* Nobody sleeps in begin_op when it need not: there is no room for its    *)
(* call, and a commit or a call is going on that will wake it up.  No      *)
(* wakeup is lost, although the lock is given up between looking at the    *)
(* log and looking at it again.                                            *)
NoLostWakeup ==
  \A p \in Proc : th[p].pc = "sleep" => MustWait /\ (committing \/ outstanding > 0)

(* A buffer is pinned exactly while its block waits in the log: no pin is  *)
(* left behind to fill the cache for ever.                                 *)
PinsMatchLog ==
  \A b \in Block :
    LET waits == {i \in DOMAIN lh : lh[i] = b /\
                    ~\E p \in Proc : th[p].pc = "clear_head" \/ (th[p].pc = "install_trans" /\ i <= th[p].tail)}
    IN  up => pins[b] = Cardinality(waits)

(* A commit ends, so the calls that wait for it go on, unless the machine  *)
(* crashes first; and unless it crashes again and again, it comes up.      *)
LogSettles ==
  /\ committing ~> ~committing
  /\ []<><<Crash>>_vars \/ <>[]up
=============================================================================
