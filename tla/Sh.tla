--------------------------------- MODULE Sh ---------------------------------
(***************************************************************************)
(* The shell at work (user/sh.c): its main loop, and the processes that    *)
(* run a command, with their descriptors, the pipes between them, and wait.*)
(* The system calls are the kernel's; all that can fail may.               *)
(***************************************************************************)
EXTENDS ShParse

CONSTANTS
  NPROC, NOFILE,
  NPIPE,     \* bound: pipes at a time
  Lines      \* bound: Lines[n] has the lines that may be typed as the n-th

ASSUME ShAssumption == NPROC > 1 /\ NOFILE > 4 /\ MAXARGS > 1

VARIABLES
  proc,   \* proc[p]: where p is, its command, its descriptors, its parent
  typed   \* how many lines were typed

vars == <<proc, typed>>

Main == 1
Init0 == 0    \* the process init, which takes care of orphans
Pid == 1..NPROC
Fd == 0..(NOFILE - 1)

Closed == <<"closed", 0>>
Console == <<"console", 0>>
ReadEnd(i) == <<"read", i>>
WriteEnd(i) == <<"write", i>>
File(mode) == <<mode, 0>>
NoCmd == [type |-> "none"]

(* io is what the command says that descriptors 0 and 1 should be. *)
Unused == [pc |-> "unused", cmd |-> NoCmd, fd |-> [d \in Fd |-> Closed], parent |-> Init0,
           pipe |-> 0, io |-> [d \in 0..1 |-> Console]]

Live(ps) == {p \in DOMAIN ps : ps[p].pc \notin {"unused", "zombie", "gone"}}
Children(ps, p) == {q \in DOMAIN ps : ps[q].pc # "unused" /\ ps[q].parent = p}
Holders(ps, o) == {p \in Live(ps) : \E d \in Fd : ps[p].fd[d] = o}

(* The shell is started with some of the first three descriptors. *)
Init ==
  /\ typed = 0
  /\ \E open \in SUBSET (0..2) :
       proc = [p \in Pid |-> IF p = Main
                             THEN [Unused EXCEPT !.pc = "main", !.fd = [d \in Fd |-> IF d \in open THEN Console ELSE Closed]]
                             ELSE Unused]

-----------------------------------------------------------------------------
(* The system calls.                                                       *)

LowestFd(fd) == CHOOSE d \in Fd : fd[d] = Closed /\ \A e \in 0..(d - 1) : fd[e] # Closed
close(fd, d) == [fd EXCEPT ![d] = Closed]
dup(fd, d) == [fd EXCEPT ![LowestFd(fd)] = fd[d]]

(* exit: children go to init, which frees those that have ended. *)
Exit(ps, p) ==
  [q \in Pid |->
     IF q = p THEN IF p = Main THEN [Unused EXCEPT !.pc = "gone"]
                   ELSE IF ps[p].parent = Init0 THEN Unused
                   ELSE [Unused EXCEPT !.pc = "zombie", !.parent = ps[p].parent]
     ELSE IF q \in Children(ps, p) THEN IF ps[q].pc = "zombie" THEN Unused ELSE [ps[q] EXCEPT !.parent = Init0]
     ELSE ps[q]]

(* wait: p goes on as rec when one of its children has ended, or has none. *)
Wait(p, rec) ==
  LET ended == IF Children(proc, p) = {} THEN {Init0} ELSE {q \in Children(proc, p) : proc[q].pc = "zombie"}
  IN  \E z \in ended : proc' = [q \in Pid |-> IF q = p THEN rec ELSE IF q = z THEN Unused ELSE proc[q]]

panic(p) == Exit(proc, p)

(* fork1: the child begins as rec; without one the caller panics. *)
fork1(p, parent, rec) ==
  \/ proc' = panic(p)
  \/ LET free == {q \in Pid : proc[q].pc = "unused"}
     IN  /\ free # {}
         /\ proc' = [proc EXCEPT ![p] = parent, ![CHOOSE q \in free : \A r \in free : q <= r] = [rec EXCEPT !.parent = p]]

-----------------------------------------------------------------------------
(* main.                                                                   *)

(* The console is opened until descriptors 0, 1 and 2 are in use.  (It is  *)
(* there: init has made it.)                                               *)
main ==
  /\ proc[Main].pc = "main"
  /\ proc' = [proc EXCEPT ![Main].pc = "getcmd", ![Main].fd = [d \in Fd |-> IF d <= 2 THEN Console ELSE @[d]]]
  /\ UNCHANGED typed

(* A line is read, or the end of the input.  A line with cd changes the    *)
(* shell's own directory, which is not modelled, and starts no process.    *)
getcmd ==
  /\ proc[Main].pc = "getcmd"
  /\ \/ typed < Len(Lines) /\ typed' = typed + 1 /\ UNCHANGED proc
     \/ \E buf \in IF typed < Len(Lines) THEN Lines[typed + 1] ELSE {} :
          /\ typed' = typed + 1
          /\ LET sh == proc[Main]
             IN  fork1(Main, [sh EXCEPT !.pc = "wait"],
                             [sh EXCEPT !.pc = "parse", !.cmd = [type |-> "line", buf |-> buf, is |-> parsecmd(buf)]])
     \/ proc' = Exit(proc, Main) /\ UNCHANGED typed

main_wait ==
  /\ proc[Main].pc = "wait"
  /\ Wait(Main, [proc[Main] EXCEPT !.pc = "getcmd"])
  /\ UNCHANGED typed

-----------------------------------------------------------------------------
(* runcmd.                                                                 *)

(* The child has parsed its line: a panic, or a command to run. *)
parse(p) ==
  LET c == proc[p].cmd.is
  IN  /\ proc[p].pc = "parse"
      /\ proc' = IF c = Panic THEN panic(p) ELSE [proc EXCEPT ![p].pc = "run", ![p].cmd = c]
      /\ UNCHANGED typed

Runs(p, type) == proc[p].pc = "run" /\ proc[p].cmd.type = type /\ UNCHANGED typed

run_EXEC(p) ==
  /\ Runs(p, "EXEC")
  /\ \/ proc' = Exit(proc, p)
     \/ proc[p].cmd.argv # <<>> /\ proc' = [proc EXCEPT ![p].pc = "program", ![p].cmd = NoCmd]

(* Mutant: the descriptor is not closed first. *)
Reopened_not(fd, d, o) == [fd EXCEPT ![LowestFd(fd)] = o]
Reopened(fd, d, o) == [close(fd, d) EXCEPT ![LowestFd(close(fd, d))] = o]

run_REDIR(p) ==
  LET c == proc[p].cmd
      d == IF c.mode = "<" THEN 0 ELSE 1
  IN  /\ Runs(p, "REDIR")
      /\ \/ proc' = Exit(proc, p)
         \/ proc' = [proc EXCEPT ![p].cmd = c.cmd, ![p].fd = Reopened(@, d, File(c.mode)), ![p].io[d] = File(c.mode)]

(* Mutant: the right side starts without waiting for the left one. *)
AfterLeft_run(rec) == [rec EXCEPT !.cmd = @.right]
AfterLeft(rec) == [rec EXCEPT !.pc = "list", !.cmd = @.right]

run_LIST(p) ==
  LET rec == proc[p]
  IN  Runs(p, "LIST") /\ fork1(p, AfterLeft(rec), [rec EXCEPT !.cmd = @.left])

list_wait(p) ==
  /\ proc[p].pc = "list"
  /\ Wait(p, [proc[p] EXCEPT !.pc = "run"])
  /\ UNCHANGED typed

(* A side of pipe i: descriptor d becomes its own end o, and both are closed. *)
Side(rec, d, o, i) ==
  LET from == CHOOSE e \in Fd : rec.fd[e] = o /\ e > 2
      other == CHOOSE e \in Fd : rec.fd[e] \in {ReadEnd(i), WriteEnd(i)} \ {o}
      fd1 == dup(close(rec.fd, d), from)
  IN  [rec EXCEPT !.pc = "run", !.fd = close(close(fd1, from), other), !.io[d] = o]

run_PIPE(p) ==
  LET rec == proc[p]
      free == {i \in 1..NPIPE : Holders(proc, ReadEnd(i)) \cup Holders(proc, WriteEnd(i)) = {}}
      i == CHOOSE i \in free : \A j \in free : i <= j
      fd0 == [rec.fd EXCEPT ![LowestFd(rec.fd)] = ReadEnd(i)]
      with == [rec EXCEPT !.fd = [fd0 EXCEPT ![LowestFd(fd0)] = WriteEnd(i)]]
  IN  /\ Runs(p, "PIPE")
      /\ \/ proc' = panic(p)
         \/ /\ free # {}
            /\ fork1(p, [with EXCEPT !.pc = "pipe", !.pipe = i, !.cmd = @.right],
                        Side([with EXCEPT !.cmd = @.left], 1, WriteEnd(i), i))

(* Mutant: the shell keeps the pipe's write end. *)
CloseEnds_read(fd, i) == [d \in Fd |-> IF fd[d] = ReadEnd(i) THEN Closed ELSE fd[d]]
CloseEnds(fd, i) == [d \in Fd |-> IF fd[d] \in {ReadEnd(i), WriteEnd(i)} THEN Closed ELSE fd[d]]

run_PIPE_right(p) ==
  LET rec == proc[p]
  IN  /\ rec.pc = "pipe"
      /\ fork1(p, [rec EXCEPT !.pc = "two", !.cmd = NoCmd, !.pipe = 0, !.fd = CloseEnds(@, rec.pipe)],
                  Side([rec EXCEPT !.pipe = 0], 0, ReadEnd(rec.pipe), rec.pipe))
      /\ UNCHANGED typed

(* The two waits, and the end. *)
pipe_wait(p) ==
  /\ \/ proc[p].pc = "two" /\ Wait(p, [proc[p] EXCEPT !.pc = "one"])
     \/ proc[p].pc = "one" /\ Wait(p, [proc[p] EXCEPT !.pc = "exit", !.cmd = NoCmd])
  /\ UNCHANGED typed

run_BACK(p) ==
  LET rec == proc[p]
  IN  Runs(p, "BACK") /\ fork1(p, [rec EXCEPT !.pc = "exit", !.cmd = NoCmd], [rec EXCEPT !.cmd = @.cmd])

exit(p) == proc[p].pc = "exit" /\ proc' = Exit(proc, p) /\ UNCHANGED typed

(* A program may end at any time. *)
ProgramEnds(p) == proc[p].pc = "program" /\ proc' = Exit(proc, p) /\ UNCHANGED typed

(* One that reads to the end of its input and writes its output is sure to *)
(* end when the input ends (nobody has the pipe's write end any more), and *)
(* when a program reads the output, or nobody can (and write fails).       *)
InputEnds(p) == LET o == proc[p].fd[0] IN o[1] = "read" => Holders(proc, WriteEnd(o[2])) = {}
OutputTaken(p) ==
  LET o == proc[p].fd[1]
  IN  o[1] = "write" =>
        \/ Holders(proc, ReadEnd(o[2])) = {}
        \/ \E q \in Live(proc) : proc[q].pc = "program" /\ proc[q].fd[0] = ReadEnd(o[2])

-----------------------------------------------------------------------------
runcmd(p) ==
  \/ parse(p) \/ run_EXEC(p) \/ run_REDIR(p) \/ run_LIST(p) \/ list_wait(p) \/ run_PIPE(p)
  \/ run_PIPE_right(p) \/ pipe_wait(p) \/ run_BACK(p) \/ exit(p)

Next == main \/ getcmd \/ main_wait \/ \E p \in Pid : runcmd(p) \/ ProgramEnds(p)

(* The scheduler runs everyone. *)
Fairness ==
  /\ WF_vars(main) /\ WF_vars(main_wait)
  /\ \A p \in Pid : WF_vars(runcmd(p)) /\ WF_vars(InputEnds(p) /\ OutputTaken(p) /\ ProgramEnds(p))

Spec == Init /\ [][Next]_vars /\ Fairness

-----------------------------------------------------------------------------
(* Properties.                                                             *)

(* parsecmd gives the one command that the grammar has for a line, with    *)
(* its words complete, and refuses a line exactly when there is none.      *)
ParseIsGrammar == \A p \in Pid : proc[p].pc = "parse" => {proc[p].cmd.is} = Meaning(proc[p].cmd.buf)

(* A program starts with the descriptors its command says, whatever was    *)
(* open before: standard input and output from the pipe, file or console   *)
(* they were connected to, and no end of a pipe besides.                   *)
Wired ==
  \A p \in Pid : proc[p].pc = "program" =>
    proc[p].fd = [d \in Fd |-> IF d <= 1 THEN proc[p].io[d] ELSE IF d = 2 THEN Console ELSE Closed]

(* The children of a process that waits are those it has to wait for: wait *)
(* never returns for another one, such as an earlier line's background     *)
(* command, and when the shell prompts again it has no child left.         *)
WaitsForOwn ==
  \A p \in Live(proc) :
    proc[p].pc # "exit" =>
      Cardinality(Children(proc, p)) = CASE proc[p].pc \in {"wait", "list", "pipe", "one"} -> 1
                                         [] proc[p].pc = "two" -> 2
                                         [] OTHER -> 0

(* The shell prompts again: no end of a pipe that a process keeps open     *)
(* makes a pipeline wait for itself.                                       *)
PromptsAgain == proc[Main].pc = "wait" ~> proc[Main].pc # "wait"
=============================================================================
