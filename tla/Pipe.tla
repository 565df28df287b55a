-------------------------------- MODULE Pipe --------------------------------
(***************************************************************************)
(* Pipes, kernel/pipe.c, under processes that create them, hand them on by *)
(* fork, duplicate and close their descriptors, read, write, exit and kill *)
(* each other (kernel/sysfile.c, file.c, and the files of fork and exit).  *)
(*                                                                         *)
(* A step is a critical section of ftable.lock, p->lock or pi->lock;       *)
(* pipewrite holds pi->lock over several turns of its loop, and a kill may *)
(* come in between.  wakeup is one step: its callers hold pi->lock, so     *)
(* nobody can join or leave the sleepers meanwhile.                        *)
(***************************************************************************)
EXTENDS File

CONSTANTS
  initproc,    \* never exits
  Page,        \* pages kalloc may hand out for a pipe
  PIPESIZE,
  UINT,        \* nread and nwrite count modulo UINT (2^32)
  Counts,      \* the n of read and write
  Creators,    \* processes that call pipe and dup
  Victims      \* processes that kill is called for

ASSUME PipeAssumption ==
  /\ initproc \in Proc \ Victims /\ NULL \notin Page
  /\ PIPESIZE \in Nat \ {0} /\ UINT \in Nat
  /\ UINT % PIPESIZE = 0 /\ UINT > PIPESIZE
  /\ Counts \subseteq Nat

VARIABLES
  pipe,        \* pipe[pi]: struct pipe; live: the page is allocated
  lock,        \* lock[pi]: who holds pi->lock
  killed,      \* p->killed
  silent,      \* history: pi got bytes that no wakeup(&pi->nread) followed
  th           \* th[p]: pc and locals of the system call p is in

vars == <<ftable, ofile, pipe, lock, killed, silent, th>>

(* files: the files in hand, still to be closed; pi: the pipe worked on;   *)
(* w: the end being closed; i, n: bytes done and wanted; np: fork's child. *)
Idle == [pc |-> "none", files |-> <<>>, pi |-> NULL, w |-> FALSE, i |-> 0, n |-> 0,
         np |-> NULL, then |-> "none"]
User == [Idle EXCEPT !.pc = "user"]

NoPipe == [live |-> FALSE, data |-> [k \in 0..(PIPESIZE - 1) |-> 0],
           nread |-> 0, nwrite |-> 0, readopen |-> FALSE, writeopen |-> FALSE]

Init ==
  /\ FileInit
  /\ pipe = [pi \in Page |-> NoPipe]
  /\ lock = [pi \in Page |-> NULL]
  /\ killed = [p \in Proc |-> FALSE]
  /\ silent = [pi \in Page |-> FALSE]
  /\ th = [p \in Proc |-> IF p = initproc THEN User ELSE Idle]

Goto(p, pc) == th' = [th EXCEPT ![p].pc = pc]

(* A process that has been killed makes no more calls (usertrap). *)
Calls(p) == th[p].pc = "user" /\ ~killed[p]

Empty(pi) == pipe[pi].nread = pipe[pi].nwrite

(* Mutant: full one byte too late. *)
Full_off_by_one(pi) == pipe[pi].nwrite = (pipe[pi].nread + PIPESIZE + 1) % UINT
Full(pi) == pipe[pi].nwrite = (pipe[pi].nread + PIPESIZE) % UINT

(* wakeup(&pi->nread) and wakeup(&pi->nwrite): the sleepers of T go back   *)
(* to their loop.                                                          *)
WakeReaders(T, pi) ==
  [q \in Proc |-> IF T[q].pc = "sleep_nread" /\ T[q].pi = pi
                  THEN [T[q] EXCEPT !.pc = "piperead"] ELSE T[q]]
WakeWriters(T, pi) ==
  [q \in Proc |-> IF T[q].pc = "sleep_nwrite" /\ T[q].pi = pi
                  THEN [T[q] EXCEPT !.pc = "pipewrite"] ELSE T[q]]

-----------------------------------------------------------------------------
(* sys_pipe: two files, a page, two descriptors, and a copyout.            *)

sys_pipe(p) ==
  /\ Calls(p) /\ Goto(p, "filealloc")
  /\ UNCHANGED <<ftable, ofile, pipe, lock, killed, silent>>

(* Give back the files in hand, and return. *)
CloseAll(p, files, then) ==
  th' = [th EXCEPT ![p] = [Idle EXCEPT !.pc = IF files = <<>> THEN then ELSE "fileclose",
                                       !.files = files, !.then = then]]

PipeFile(p) ==
  /\ th[p].pc = "filealloc" /\ Len(th[p].files) < 2
  /\ \/ \E f \in FileNo : /\ filealloc(f)
                          /\ th' = [th EXCEPT ![p].files = Append(@, f)]
     \/ Unused = {} /\ CloseAll(p, th[p].files, "user") /\ UNCHANGED ftable
  /\ UNCHANGED <<ofile, pipe, lock, killed, silent>>

(* kalloc, and the new pipe with its two files. *)
pipealloc(p) ==
  /\ th[p].pc = "filealloc" /\ Len(th[p].files) = 2
  /\ \/ \E pi \in Page :
          LET end(f, w) == [f EXCEPT !.type = "FD_PIPE", !.obj = pi,
                                             !.readable = ~w, !.writable = w]
          IN  /\ ~pipe[pi].live
              /\ pipe' = [pipe EXCEPT ![pi] = [NoPipe EXCEPT !.live = TRUE,
                                                !.readopen = TRUE, !.writeopen = TRUE]]
              /\ ftable' = [ftable EXCEPT ![th[p].files[1]] = end(@, FALSE),
                                          ![th[p].files[2]] = end(@, TRUE)]
              /\ Goto(p, "fdalloc")
     \/ /\ \A pi \in Page : pipe[pi].live
        /\ CloseAll(p, th[p].files, "user")
        /\ UNCHANGED <<ftable, pipe>>
  /\ UNCHANGED <<ofile, lock, killed, silent>>

(* fdalloc twice and copyout of the two numbers: if one of them fails both *)
(* files are closed again.                                                 *)
PipeFds(p) ==
  LET rf == th[p].files[1]
      wf == th[p].files[2]
      fd0 == Lowest(FreeFds(p))
      fd1 == Lowest(FreeFds(p) \ {fd0})
  IN  /\ th[p].pc = "fdalloc"
      /\ \/ /\ Cardinality(FreeFds(p)) >= 2
            /\ ofile' = [ofile EXCEPT ![p][fd0] = rf, ![p][fd1] = wf]
            /\ th' = [th EXCEPT ![p] = User]
         \/ CloseAll(p, th[p].files, "user") /\ UNCHANGED ofile
      /\ UNCHANGED <<ftable, pipe, lock, killed, silent>>

-----------------------------------------------------------------------------
(* Descriptors: dup, close, fork, exit.                                    *)

sys_dup(p, fd) ==
  LET f == ofile[p][fd]
  IN  /\ Calls(p) /\ f # NULL /\ FreeFds(p) # {}
      /\ ofile' = fdalloc(p, f) /\ filedup(f)
      /\ UNCHANGED <<pipe, lock, killed, silent, th>>

sys_close(p, fd) ==
  /\ Calls(p) /\ ofile[p][fd] # NULL
  /\ ofile' = [ofile EXCEPT ![p][fd] = NULL]
  /\ CloseAll(p, <<ofile[p][fd]>>, "user")
  /\ UNCHANGED <<ftable, pipe, lock, killed, silent>>

(* exit closes every file; the slot is free once the parent has waited. *)
exit(p) ==
  /\ th[p].pc = "user" /\ p # initproc
  /\ ofile' = [ofile EXCEPT ![p] = NoFiles]
  /\ CloseAll(p, OpenFiles(p), "none")
  /\ UNCHANGED <<ftable, pipe, lock, killed, silent>>

(* fileclose of the next file in hand. *)
FileClose(p) ==
  LET f == Head(th[p].files)
      rest == [th[p] EXCEPT !.files = Tail(@),
                            !.pc = IF Len(th[p].files) = 1 THEN th[p].then ELSE "fileclose"]
  IN  /\ th[p].pc = "fileclose"
      /\ fileclose(f)
      /\ th' = [th EXCEPT ![p] =
                  IF LastClose(f) /\ ftable[f].type = "FD_PIPE"
                  THEN [rest EXCEPT !.pc = "pipeclose", !.pi = ftable[f].obj,
                                    !.w = ftable[f].writable]
                  ELSE IF rest.pc = "fileclose" THEN rest
                  ELSE [Idle EXCEPT !.pc = rest.pc]]
      /\ UNCHANGED <<ofile, pipe, lock, killed, silent>>

(* Mutant: the other end is not woken up. *)
CloseWakes_not(T, pi, w) == T
CloseWakes(T, pi, w) == IF w THEN WakeReaders(T, pi) ELSE WakeWriters(T, pi)

(* Mutant: the page is freed when the first end is closed. *)
BothClosed_either(P) == ~P.readopen \/ ~P.writeopen
BothClosed(P) == ~P.readopen /\ ~P.writeopen

pipeclose(p) ==
  LET t == th[p]
      P == IF t.w THEN [pipe[t.pi] EXCEPT !.writeopen = FALSE]
           ELSE [pipe[t.pi] EXCEPT !.readopen = FALSE]
      done == IF t.files = <<>> THEN [Idle EXCEPT !.pc = t.then]
              ELSE [t EXCEPT !.pc = "fileclose", !.pi = NULL, !.w = FALSE]
  IN  /\ t.pc = "pipeclose" /\ lock[t.pi] = NULL
      /\ pipe' = [pipe EXCEPT ![t.pi] = IF BothClosed(P) THEN NoPipe ELSE P]
      /\ th' = [CloseWakes(th, t.pi, t.w) EXCEPT ![p] = done]
      /\ silent' = IF t.w THEN [silent EXCEPT ![t.pi] = FALSE] ELSE silent
      /\ UNCHANGED <<ftable, ofile, lock, killed>>

(* fork: a slot that freeproc has cleared; the child's descriptors are     *)
(* filled in one by one.                                                   *)
fork(p) ==
  /\ Calls(p)
  /\ \E c \in Proc :
       /\ th[c].pc = "none"
       /\ th' = [th EXCEPT ![p].pc = "fork", ![p].np = c, ![c].pc = "embryo"]
       /\ killed' = [killed EXCEPT ![c] = FALSE]
  /\ UNCHANGED <<ftable, ofile, pipe, lock, silent>>

ForkFile(p) ==
  LET c == th[p].np
      fd == th[p].i
  IN  /\ th[p].pc = "fork" /\ fd < NOFILE
      /\ IF ofile[p][fd] = NULL THEN UNCHANGED <<ofile, ftable>>
         ELSE /\ filedup(ofile[p][fd])
              /\ ofile' = [ofile EXCEPT ![c][fd] = ofile[p][fd]]
      /\ th' = [th EXCEPT ![p].i = fd + 1]
      /\ UNCHANGED <<pipe, lock, killed, silent>>

ForkReturns(p) ==
  /\ th[p].pc = "fork" /\ th[p].i = NOFILE
  /\ th' = [th EXCEPT ![p] = User, ![th[p].np] = User]
  /\ UNCHANGED <<ftable, ofile, pipe, lock, killed, silent>>

(* kill: a sleeper is made to look at p->killed. *)
kill(p, q) ==
  /\ Calls(p) /\ th[q].pc # "none"
  /\ killed' = [killed EXCEPT ![q] = TRUE]
  /\ th' = [th EXCEPT ![q].pc = CASE @ = "sleep_nread" -> "piperead"
                                  [] @ = "sleep_nwrite" -> "pipewrite"
                                  [] OTHER -> @]
  /\ UNCHANGED <<ftable, ofile, pipe, lock, silent>>

-----------------------------------------------------------------------------
(* Reading.                                                                *)

(* sys_read, fileread *)
sys_read(p, fd, n) ==
  LET f == ofile[p][fd]
  IN  /\ Calls(p) /\ f # NULL /\ ftable[f].readable
      /\ th' = [th EXCEPT ![p] = [User EXCEPT !.pc = "piperead", !.pi = ftable[f].obj, !.n = n]]
      /\ UNCHANGED <<ftable, ofile, pipe, lock, killed, silent>>

(* Mutant: an empty pipe without writers is waited for. *)
NothingYet_no_eof(pi) == Empty(pi)
NothingYet(pi) == Empty(pi) /\ pipe[pi].writeopen

(* The bytes of a pipe that a read of n takes off: all it can, or fewer    *)
(* when copyout fails, in which case the byte that failed is lost.         *)
Taken(pi, n) ==
  LET len == (pipe[pi].nwrite + UINT - pipe[pi].nread) % UINT
      m == IF n < len THEN n ELSE len
  IN  IF m = 0 THEN {0} ELSE 1..m

(* Mutant: the reader does not wake the writers. *)
ReadWakes_not(T, pi) == T
ReadWakes(T, pi) == WakeWriters(T, pi)

(* With pi->lock: on the way to sleep, or copy what there is. *)
piperead(p) ==
  LET pi == th[p].pi
  IN  /\ th[p].pc = "piperead" /\ lock[pi] = NULL
      /\ \/ /\ NothingYet(pi) /\ killed[p]
            /\ th' = [th EXCEPT ![p] = User]
            /\ UNCHANGED <<pipe, lock>>
         \/ /\ NothingYet(pi) /\ ~killed[p]
            /\ lock' = [lock EXCEPT ![pi] = p]
            /\ Goto(p, "read_sleep")
            /\ UNCHANGED pipe
         \/ /\ ~NothingYet(pi)
            /\ \E k \in Taken(pi, th[p].n) :
                 pipe' = [pipe EXCEPT ![pi].nread = (@ + k) % UINT]
            /\ th' = [ReadWakes(th, pi) EXCEPT ![p] = User]
            /\ UNCHANGED lock
      /\ UNCHANGED <<ftable, ofile, killed, silent>>

(* sleep gives up pi->lock with p->lock held: one step. *)
Sleep(p) ==
  /\ th[p].pc \in {"read_sleep", "write_sleep"}
  /\ lock' = [lock EXCEPT ![th[p].pi] = NULL]
  /\ Goto(p, IF th[p].pc = "read_sleep" THEN "sleep_nread" ELSE "sleep_nwrite")
  /\ UNCHANGED <<ftable, ofile, pipe, killed, silent>>

-----------------------------------------------------------------------------
(* Writing.                                                                *)

(* sys_write, filewrite *)
sys_write(p, fd, n) ==
  LET f == ofile[p][fd]
  IN  /\ Calls(p) /\ f # NULL /\ ftable[f].writable
      /\ th' = [th EXCEPT ![p] = [User EXCEPT !.pc = "pipewrite", !.pi = ftable[f].obj, !.n = n]]
      /\ UNCHANGED <<ftable, ofile, pipe, lock, killed, silent>>

(* The last lines of pipewrite. *)
WriteDone(p) ==
  /\ th' = [WakeReaders(th, th[p].pi) EXCEPT ![p] = User]
  /\ lock' = [lock EXCEPT ![th[p].pi] = NULL]
  /\ silent' = [silent EXCEPT ![th[p].pi] = FALSE]

(* Mutant: the byte goes to the place that is read next. *)
Put_nread(P, b) == [P EXCEPT !.data[P.nread % PIPESIZE] = b, !.nwrite = (P.nwrite + 1) % UINT]
Put(P, b) == [P EXCEPT !.data[P.nwrite % PIPESIZE] = b, !.nwrite = (P.nwrite + 1) % UINT]

(* One turn of pipewrite's loop, with pi->lock.  The kernel never looks at *)
(* the bytes: each is named by its number in the stream.  The return for   *)
(* want of a reader, or because p was killed, wakes nobody.                *)
pipewrite(p) ==
  LET pi == th[p].pi
      P == pipe[pi]
  IN  /\ th[p].pc = "pipewrite" /\ lock[pi] \in {NULL, p}
      /\ \/ th[p].i >= th[p].n /\ WriteDone(p) /\ UNCHANGED pipe
         \/ /\ th[p].i < th[p].n /\ (~P.readopen \/ killed[p])
            /\ th' = [th EXCEPT ![p] = User]
            /\ lock' = [lock EXCEPT ![pi] = NULL]
            /\ UNCHANGED <<pipe, silent>>
         \/ /\ th[p].i < th[p].n /\ P.readopen /\ ~killed[p] /\ Full(pi)
            /\ th' = [WakeReaders(th, pi) EXCEPT ![p].pc = "write_sleep"]
            /\ lock' = [lock EXCEPT ![pi] = p]
            /\ silent' = [silent EXCEPT ![pi] = FALSE]
            /\ UNCHANGED pipe
         \/ /\ th[p].i < th[p].n /\ P.readopen /\ ~killed[p] /\ ~Full(pi)
            /\ \/ WriteDone(p) /\ UNCHANGED pipe         \* copyin fails
               \/ /\ pipe' = [pipe EXCEPT ![pi] = Put(P, P.nwrite)]
                  /\ th' = [th EXCEPT ![p].i = @ + 1]
                  /\ silent' = [silent EXCEPT ![pi] = TRUE]
                  /\ lock' = [lock EXCEPT ![pi] = p]
      /\ UNCHANGED <<ftable, ofile, killed>>

-----------------------------------------------------------------------------
(* The steps that take pi->lock. *)
Acquire(p) == piperead(p) \/ pipewrite(p) \/ pipeclose(p)

Kernel(p) ==
  \/ PipeFile(p) \/ pipealloc(p) \/ PipeFds(p)
  \/ FileClose(p) \/ ForkFile(p) \/ ForkReturns(p)
  \/ Sleep(p)

UserCode(p) ==
  \/ fork(p)
  \/ p \in Creators /\ (sys_pipe(p) \/ \E fd \in Fd : sys_dup(p, fd))
  \/ \E fd \in Fd : \/ sys_close(p, fd)
                    \/ \E n \in Counts : sys_read(p, fd, n) \/ sys_write(p, fd, n)
  \/ \E q \in Victims : kill(p, q)

Next == \E p \in Proc : Acquire(p) \/ Kernel(p) \/ UserCode(p) \/ exit(p)

(* A process in the kernel keeps running; a spin lock that is free again   *)
(* and again is got at last; a killed process exits.                       *)
Fairness ==
  \A p \in Proc : /\ WF_vars(Kernel(p)) /\ SF_vars(Acquire(p))
                  /\ WF_vars(killed[p] /\ exit(p))

Spec == Init /\ [][Next]_vars /\ Fairness

-----------------------------------------------------------------------------
(* Properties.                                                             *)

(* Who holds file f: descriptors, and calls that have it in hand. *)
Holders(f) ==
  Cardinality({d \in Proc \X Fd : ofile[d[1]][d[2]] = f})
  + Cardinality({d \in Proc \X (1..NOFILE) : d[2] \in DOMAIN th[d[1]].files
                                             /\ th[d[1]].files[d[2]] = f})

(* The reference count of an open file is the number of its holders, while *)
(* processes that share it dup, fork, close and exit at the same time and  *)
(* while pipe() fails half-way: no file is closed early or left open.      *)
CountsExact == \A f \in FileNo : ftable[f].ref = Holders(f)

(* An end of a pipe is open exactly as long as some file stands for it, or *)
(* its last closer is on the way to pipeclose; and a process in piperead,  *)
(* pipewrite or pipeclose is at a pipe whose page has not been freed.      *)
EndsMatchFiles ==
  \A pi \in Page :
    LET files(w) == {f \in FileNo : ftable[f].type = "FD_PIPE" /\ ftable[f].obj = pi
                                    /\ ftable[f].writable = w}
        closers(w) == {p \in Proc : th[p].pc = "pipeclose" /\ th[p].pi = pi /\ th[p].w = w}
        one(w) == Cardinality(files(w)) + Cardinality(closers(w))
    IN  /\ one(FALSE) = IF pipe[pi].readopen THEN 1 ELSE 0
        /\ one(TRUE) = IF pipe[pi].writeopen THEN 1 ELSE 0
        /\ \A p \in Proc : th[p].pi = pi => pipe[pi].live

(* Counts, ends and pages agree: files are released by their last holder,  *)
(* and a pipe's page by the last of its two ends.                          *)
FilesExact == CountsExact /\ EndsMatchFiles

(* Nobody sleeps at a pipe for nothing: a sleeping reader has nothing to   *)
(* read and somebody may still write, a sleeping writer has no room and    *)
(* somebody may still read.  The one exception is in the code: a writer    *)
(* killed between two bytes returns without waking the readers.            *)
NoLostWakeup ==
  \A p \in Proc : LET pi == th[p].pi IN
    /\ th[p].pc = "sleep_nread" /\ lock[pi] = NULL => NothingYet(pi) \/ silent[pi]
    /\ th[p].pc = "sleep_nwrite" /\ lock[pi] = NULL => Full(pi) /\ pipe[pi].readopen

(* The bytes in a pipe, oldest first. *)
Contents(pi) ==
  LET P == pipe[pi]
      len == (P.nwrite + UINT - P.nread) % UINT
  IN  [k \in 1..len |-> P.data[(P.nread + k - 1) % PIPESIZE]]

PQ == INSTANCE PipeQueue WITH
        Pipe <- Page, Byte <- 0..(UINT - 1), Capacity <- PIPESIZE,
        q <- [pi \in Page |-> Contents(pi)],
        reader <- [pi \in Page |-> pipe[pi].readopen],
        writer <- [pi \in Page |-> pipe[pi].writeopen]

(* A pipe is a queue of bytes of bounded length: the ring buffer and its   *)
(* wrapping counters lose, repeat and reorder nothing, whoever reads and   *)
(* writes at the same time, until both ends are closed.                    *)
PipeIsQueue == PQ!Spec

(* A read ends once no writing end is open, a write once no reading end    *)
(* is: closing, also by exit, wakes whoever waits at the other end.        *)
CallsEnd ==
  \A p \in Proc, pi \in Page :
    /\ th[p].pi = pi /\ th[p].pc \in {"piperead", "read_sleep", "sleep_nread"}
         /\ ~pipe[pi].writeopen ~> th[p].pc = "user"
    /\ th[p].pi = pi /\ th[p].pc \in {"pipewrite", "write_sleep", "sleep_nwrite"}
         /\ ~pipe[pi].readopen ~> th[p].pc = "user"
=============================================================================
