-------------------------------- MODULE Sched -------------------------------
(***************************************************************************)
(* Processes on several CPUs: the scheduler and the switch to and from it, *)
(* spin locks with their nesting of disabled interrupts, timer interrupts  *)
(* in user and in kernel mode, sleep and wakeup, and the calls that rest   *)
(* on them: fork, exit, wait, kill, sleep (kernel/proc.c, spinlock.c,      *)
(* trap.c, sysproc.c).                                                     *)
(*                                                                         *)
(* A CPU executes the topmost frame of the kernel stack it is on, its      *)
(* scheduler's or a process's.  A step reaches from one acquire of a spin  *)
(* lock to the next; a critical section with no other lock held is one     *)
(* step.  Files, directories and memory are left to the other modules.     *)
(***************************************************************************)
EXTENDS Integers, Sequences, FiniteSets

CONSTANTS
  NPROC, NCPU,
  NULL,
  Ticks,       \* the n of sleep(n)
  Forkers,     \* processes that call fork
  Sleepers,    \* processes that call sleep
  Victims      \* processes that kill is called for

ASSUME SchedAssumption ==
  NPROC \in Nat \ {0} /\ NCPU \in Nat \ {0} /\ Ticks \subseteq Nat

Proc == 1..NPROC
Cpu == 0..(NCPU - 1)
initproc == 1

(* Locks: that of every process and two more.  Channels: the addresses of  *)
(* the processes and of ticks.                                             *)
tickslock == 0
wait_lock == -1
Lock == -1..NPROC
ticks == 0

VARIABLES
  state, chan, killed, parent,   \* fields of struct proc
  lock,        \* lock[l]: the CPU that holds l
  cpu,         \* struct cpu: proc, noff, intena; intr: interrupts are enabled;
               \* stack: the process whose kernel stack it is on, NULL: the scheduler's
  th, sch,     \* the kernel stacks of the processes and of the schedulers
  slept        \* slept[p]: while p is in sleep(n), ticks - ticks0 up to n

vars == <<state, chan, killed, parent, lock, cpu, th, sch, slept>>
pvars == <<state, chan, killed, parent>>

(* i: loop index; x: a channel or a child; lk: the lock that sleep gives   *)
(* up; n: of sleep(n); b: havekids, or sched's intena; ret: where sched    *)
(* returns to.                                                             *)
Frame(pc) == [pc |-> pc, i |-> 1, x |-> NULL, lk |-> 0, n |-> 0, b |-> FALSE, ret |-> "none"]

Init ==
  /\ state = [p \in Proc |-> IF p = initproc THEN "RUNNABLE" ELSE "UNUSED"]
  /\ chan = [p \in Proc |-> NULL]
  /\ killed = [p \in Proc |-> FALSE]
  /\ parent = [p \in Proc |-> NULL]
  /\ lock = [l \in Lock |-> NULL]
  /\ cpu = [c \in Cpu |-> [proc |-> NULL, noff |-> 0, intena |-> FALSE, intr |-> FALSE,
                           stack |-> NULL]]
  /\ th = [p \in Proc |-> <<Frame("forkret")>>]
  /\ sch = [c \in Cpu |-> <<Frame("intr_on")>>]
  /\ slept = [p \in Proc |-> 0]

-----------------------------------------------------------------------------
(* Stacks.                                                                 *)

Stack(c) == IF cpu[c].stack = NULL THEN sch[c] ELSE th[cpu[c].stack]
Top(c) == Head(Stack(c))
At(c, pc) == Top(c).pc = pc
Me(c) == cpu[c].stack

SetStack(c, s) ==
  IF cpu[c].stack = NULL THEN sch' = [sch EXCEPT ![c] = s] /\ UNCHANGED th
  ELSE th' = [th EXCEPT ![cpu[c].stack] = s] /\ UNCHANGED sch

(* Go on at frame f; call f, and go on at g afterwards; return. *)
Goto(c, f) == SetStack(c, <<f>> \o Tail(Stack(c)))
Call(c, f, g) == SetStack(c, <<f, g>> \o Tail(Stack(c)))
Return(c) == SetStack(c, Tail(Stack(c)))

-----------------------------------------------------------------------------
(* Spin locks.                                                             *)

push_off(C) ==
  [C EXCEPT !.intena = IF C.noff = 0 THEN C.intr ELSE @, !.noff = @ + 1, !.intr = FALSE]

pop_off(C) == [C EXCEPT !.noff = @ - 1, !.intr = @ \/ (C.noff = 1 /\ C.intena)]

(* acquire(l), and release(l), by CPU c. *)
acquire(c, l) ==
  /\ lock[l] = NULL
  /\ lock' = [lock EXCEPT ![l] = c]
  /\ cpu' = [cpu EXCEPT ![c] = push_off(@)]

release(c, l) ==
  /\ lock' = [lock EXCEPT ![l] = NULL]
  /\ cpu' = [cpu EXCEPT ![c] = pop_off(@)]

(* acquire(l) directly followed by release(m): noff as before. *)
Exchange(c, l, m) ==
  /\ lock[l] = NULL
  /\ lock' = [lock EXCEPT ![l] = c, ![m] = NULL]
  /\ UNCHANGED cpu

(* A critical section of l in one step: l is free. *)
Within(l) == lock[l] = NULL /\ UNCHANGED <<lock, cpu>>

-----------------------------------------------------------------------------
(* The scheduler.                                                          *)

(* CPU C goes on with the stack of process p, or with its scheduler's. *)
swtch(C, p) == [C EXCEPT !.stack = p]

intr_on(c) ==
  /\ At(c, "intr_on")
  /\ cpu' = [cpu EXCEPT ![c].intr = TRUE]
  /\ Goto(c, Frame("scheduler"))
  /\ UNCHANGED <<pvars, lock, slept>>

(* The frame for the slot that follows p. *)
NextSlot(p) == IF p = NPROC THEN Frame("intr_on") ELSE [Frame("scheduler") EXCEPT !.i = p + 1]

(* Mutant: the scheduler does not wait for p->lock. *)
CanTake_unlocked(p) == TRUE
CanTake(p) == lock[p] = NULL

scheduler(c) ==
  LET p == Top(c).i
  IN  /\ At(c, "scheduler")
      /\ IF state[p] = "RUNNABLE"
         THEN /\ CanTake(p)
              /\ lock' = [lock EXCEPT ![p] = c]
              /\ cpu' = [cpu EXCEPT ![c] = swtch([push_off(@) EXCEPT !.proc = p], p)]
              /\ state' = [state EXCEPT ![p] = "RUNNING"]
              /\ Goto(c, [Frame("swtch") EXCEPT !.i = p])
         ELSE Within(p) /\ Goto(c, NextSlot(p)) /\ UNCHANGED state
      /\ UNCHANGED <<chan, killed, parent, slept>>

(* Mutant: after a process has run the search starts again at the first. *)
AfterRun_first(p) == Frame("intr_on")
AfterRun(p) == NextSlot(p)

(* Back from the process. *)
scheduler_resume(c) ==
  LET p == Top(c).i
  IN  /\ At(c, "swtch")
      /\ lock' = [lock EXCEPT ![p] = NULL]
      /\ cpu' = [cpu EXCEPT ![c] = pop_off([@ EXCEPT !.proc = NULL])]
      /\ Goto(c, AfterRun(p))
      /\ UNCHANGED <<pvars, slept>>

SavedIntena(c) == cpu[c].intena

(* sched: onto the scheduler's stack.  The process goes on at pc ret. *)
sched(c) ==
  LET f == Top(c)
  IN  /\ At(c, "sched")
      /\ cpu' = [cpu EXCEPT ![c] = swtch(@, NULL)]
      /\ th' = [th EXCEPT ![Me(c)] = <<[f EXCEPT !.pc = f.ret, !.b = SavedIntena(c)]>> \o Tail(@)]
      /\ UNCHANGED <<pvars, lock, sch, slept>>

(* The return from sched and the release of p->lock that follows. *)
SchedReturns(c, l) ==
  /\ lock' = [lock EXCEPT ![l] = NULL]
  /\ cpu' = [cpu EXCEPT ![c] = pop_off([@ EXCEPT !.intena = Top(c).b])]

Schedule(f, ret) == [f EXCEPT !.pc = "sched", !.ret = ret]

(* Mutant: the state is not changed. *)
Yielding_not(p) == state
Yielding(p) == [state EXCEPT ![p] = "RUNNABLE"]

yield(c) ==
  /\ At(c, "yield")
  /\ acquire(c, Me(c))
  /\ state' = Yielding(Me(c))
  /\ Goto(c, Schedule(Top(c), "yielded"))
  /\ UNCHANGED <<chan, killed, parent, slept>>

(* With p->lock released: to user space, where interrupts are on. *)
usertrapret(c) ==
  /\ cpu' = [cpu EXCEPT ![c] = [pop_off(@) EXCEPT !.intr = TRUE]]
  /\ Goto(c, Frame("user"))

(* yield returns to kerneltrap or, without another stop, to user space. *)
yield_returns(c) ==
  /\ At(c, "yielded")
  /\ \/ Len(Stack(c)) > 1 /\ SchedReturns(c, Me(c)) /\ Return(c)
     \/ /\ Len(Stack(c)) = 1
        /\ lock' = [lock EXCEPT ![Me(c)] = NULL] /\ usertrapret(c)
  /\ UNCHANGED <<pvars, slept>>

(* The first time a process runs: release p->lock, which the scheduler     *)
(* took, and go to user space.                                             *)
forkret(c) ==
  /\ At(c, "forkret")
  /\ lock' = [lock EXCEPT ![Me(c)] = NULL]
  /\ usertrapret(c)
  /\ UNCHANGED <<pvars, slept>>

-----------------------------------------------------------------------------
(* sleep and wakeup.                                                       *)

(* Mutant: lk is given up first, and p->lock taken in a step of its own. *)
sleep_early(c) ==
  LET p == Me(c)
  IN  /\ At(c, "sleep")
      /\ \/ /\ ~Top(c).b /\ release(c, Top(c).lk)
            /\ Goto(c, [Top(c) EXCEPT !.b = TRUE])
            /\ UNCHANGED <<state, chan>>
         \/ /\ Top(c).b /\ acquire(c, p)
            /\ chan' = [chan EXCEPT ![p] = Top(c).x]
            /\ state' = [state EXCEPT ![p] = "SLEEPING"]
            /\ Goto(c, Schedule(Top(c), "slept"))
      /\ UNCHANGED <<killed, parent, slept>>

(* sleep(chan, lk), with lk held. *)
sleep(c) ==
  LET p == Me(c)
  IN  /\ At(c, "sleep")
      /\ Exchange(c, p, Top(c).lk)
      /\ chan' = [chan EXCEPT ![p] = Top(c).x]
      /\ state' = [state EXCEPT ![p] = "SLEEPING"]
      /\ Goto(c, Schedule(Top(c), "slept"))
      /\ UNCHANGED <<killed, parent, slept>>

sleep_tidy(c) ==
  /\ At(c, "slept") /\ SchedReturns(c, Me(c))
  /\ chan' = [chan EXCEPT ![Me(c)] = NULL]
  /\ Goto(c, [Top(c) EXCEPT !.pc = "relock"])
  /\ UNCHANGED <<state, killed, parent, slept>>

sleep_relock(c) ==
  /\ At(c, "relock") /\ acquire(c, Top(c).lk) /\ Return(c)
  /\ UNCHANGED <<pvars, slept>>

Sleep(x, lk) == [Frame("sleep") EXCEPT !.x = x, !.lk = lk]
Wakeup(x) == [Frame("wakeup") EXCEPT !.x = x]

(* One turn of wakeup's loop. *)
wakeup(c) ==
  LET p == Top(c).i
  IN  /\ At(c, "wakeup")
      /\ IF p = cpu[c].proc THEN UNCHANGED <<state, lock, cpu>>
         ELSE /\ Within(p)
              /\ state' = IF state[p] = "SLEEPING" /\ chan[p] = Top(c).x
                          THEN [state EXCEPT ![p] = "RUNNABLE"] ELSE state
      /\ IF p = NPROC THEN Return(c) ELSE Goto(c, [Top(c) EXCEPT !.i = p + 1])
      /\ UNCHANGED <<chan, killed, parent, slept>>

-----------------------------------------------------------------------------
(* Traps.                                                                  *)

(* devintr for the timer: clockintr on CPU 0, then the caller's yield. *)
DevIntr(c, next) ==
  IF c = 0 THEN <<Frame("clockintr"), Frame(next)>> ELSE <<Frame(next)>>

(* A timer interrupt in user mode, or in the kernel on whatever stack. *)
TimerIntr(c) ==
  /\ cpu[c].intr
  /\ cpu' = [cpu EXCEPT ![c].intr = FALSE]
  /\ IF At(c, "user") THEN SetStack(c, DevIntr(c, "usertrap"))
     ELSE SetStack(c, DevIntr(c, "kerneltrap") \o Stack(c))
  /\ UNCHANGED <<pvars, lock, slept>>

MustDie(p) == killed[p]

(* The rest of usertrap after a timer interrupt. *)
usertrap(c) ==
  LET p == Me(c)
  IN  /\ At(c, "usertrap") /\ Within(p)
      /\ Goto(c, Frame(IF MustDie(p) THEN "exit" ELSE "yield"))
      /\ UNCHANGED <<pvars, slept>>

MayYield(c) == cpu[c].proc # NULL /\ state[cpu[c].proc] = "RUNNING"

kerneltrap(c) ==
  /\ At(c, "kerneltrap")
  /\ IF MayYield(c) THEN Call(c, Frame("yield"), Frame("kerneltrap_ret"))
     ELSE Goto(c, Frame("kerneltrap_ret"))
  /\ UNCHANGED <<pvars, lock, cpu, slept>>

(* w_sstatus, and sret: interrupts were on, or there had been none. *)
kerneltrap_ret(c) ==
  /\ At(c, "kerneltrap_ret")
  /\ cpu' = [cpu EXCEPT ![c].intr = TRUE]
  /\ Return(c)
  /\ UNCHANGED <<pvars, lock, slept>>

(* clockintr: a tick for everyone in sleep(n). *)
Due(p) == \E k \in DOMAIN th[p] : th[p][k].pc = "sleep_loop" /\ slept[p] < th[p][k].n
clockintr(c) ==
  /\ At(c, "clockintr") /\ acquire(c, tickslock)
  /\ slept' = [p \in Proc |-> IF Due(p) THEN slept[p] + 1 ELSE slept[p]]
  /\ Call(c, Wakeup(ticks), Frame("clockintr_done"))
  /\ UNCHANGED pvars

clockintr_done(c) ==
  /\ At(c, "clockintr_done") /\ release(c, tickslock) /\ Return(c)
  /\ UNCHANGED <<pvars, slept>>

(* Entering a system call: not if p has been killed. *)
SysCall(c) ==
  LET p == Me(c)
  IN  /\ At(c, "user") /\ lock[p] = NULL /\ UNCHANGED lock
      /\ cpu' = [cpu EXCEPT ![c].intr = ~killed[p]]
      /\ Goto(c, Frame(IF killed[p] THEN "exit" ELSE "syscall"))
      /\ UNCHANGED <<pvars, slept>>

(* The end of usertrap after a system call. *)
sysret(c) ==
  LET p == Me(c)
  IN  /\ At(c, "sysret") /\ Within(p)
      /\ Goto(c, Frame(IF killed[p] THEN "exit" ELSE "user"))
      /\ UNCHANGED <<pvars, slept>>

-----------------------------------------------------------------------------
(* fork, exit, wait.                                                       *)

(* allocproc, and what fork does up to the release of np->lock. *)
fork(c) ==
  /\ At(c, "syscall")
  /\ \/ \E np \in Proc : /\ state[np] = "UNUSED" /\ Within(np)
                         /\ state' = [state EXCEPT ![np] = "USED"]
                         /\ th' = [th EXCEPT ![np] = <<Frame("forkret")>>,
                                             ![Me(c)] = <<[Frame("fork_parent") EXCEPT !.x = np]>>]
                         /\ UNCHANGED sch
     \/ Goto(c, Frame("sysret")) /\ UNCHANGED <<state, lock, cpu>>     \* returns -1
  /\ UNCHANGED <<chan, killed, parent, slept>>

fork_parent(c) ==
  /\ At(c, "fork_parent") /\ Within(wait_lock)
  /\ parent' = [parent EXCEPT ![Top(c).x] = Me(c)]
  /\ Goto(c, [Top(c) EXCEPT !.pc = "fork_run"])
  /\ UNCHANGED <<state, chan, killed, slept>>

fork_run(c) ==
  /\ At(c, "fork_run") /\ Within(Top(c).x)
  /\ state' = [state EXCEPT ![Top(c).x] = "RUNNABLE"]
  /\ Goto(c, Frame("sysret"))
  /\ UNCHANGED <<chan, killed, parent, slept>>

exit(c) ==
  /\ At(c, "exit") \/ (At(c, "syscall") /\ Me(c) # initproc)
  /\ acquire(c, wait_lock)
  /\ Goto(c, Frame("reparent"))
  /\ UNCHANGED <<pvars, slept>>

Children(p) == {q \in Proc : parent[q] = p}

(* Mutant: children are left with the process that exits. *)
Orphans_none(p) == {}
Orphans(p) == Children(p)

(* Mutant: it is init that is woken. *)
WhomToTell_init(p) == initproc
WhomToTell(p) == parent[p]

reparent(c) ==
  LET kids == Orphans(Me(c))
  IN  /\ At(c, "reparent")
      /\ IF kids = {}
         THEN /\ Call(c, Wakeup(WhomToTell(Me(c))), Frame("exit_zombie"))
              /\ UNCHANGED parent
         ELSE LET q == CHOOSE x \in kids : \A y \in kids : x <= y
              IN  /\ parent' = [parent EXCEPT ![q] = initproc]
                  /\ Call(c, Wakeup(initproc), Frame("reparent"))
      /\ UNCHANGED <<state, chan, killed, lock, cpu, slept>>

exit_zombie(c) ==
  /\ At(c, "exit_zombie") /\ Exchange(c, Me(c), wait_lock)
  /\ state' = [state EXCEPT ![Me(c)] = "ZOMBIE"]
  /\ Goto(c, Schedule(Top(c), "zombie exit"))
  /\ UNCHANGED <<chan, killed, parent, slept>>

wait(c) ==
  /\ At(c, "syscall") /\ acquire(c, wait_lock)
  /\ Goto(c, Frame("wait_scan"))
  /\ UNCHANGED <<pvars, slept>>

freeproc(q) ==
  /\ state' = [state EXCEPT ![q] = "UNUSED"]
  /\ chan' = [chan EXCEPT ![q] = NULL]
  /\ killed' = [killed EXCEPT ![q] = FALSE]
  /\ parent' = [parent EXCEPT ![q] = NULL]

(* The next child of wait's loop: one to free, or not; copyout may fail. *)
wait_scan(c) ==
  LET f == Top(c)
      rest == {q \in Children(Me(c)) : q >= f.i}
      q == CHOOSE x \in rest : \A y \in rest : x <= y
  IN  /\ At(c, "wait_scan") /\ rest # {} /\ lock[q] = NULL
      /\ \/ /\ state[q] = "ZOMBIE" /\ release(c, wait_lock)
            /\ Goto(c, Frame("sysret"))
            /\ freeproc(q) \/ UNCHANGED pvars
         \/ /\ state[q] # "ZOMBIE" /\ UNCHANGED <<pvars, lock, cpu>>
            /\ Goto(c, [f EXCEPT !.i = q + 1, !.b = TRUE])
      /\ UNCHANGED slept

(* No zombie among the children: return, or sleep and look again. *)
wait_sleep(c) ==
  LET f == Top(c)
      p == Me(c)
  IN  /\ At(c, "wait_scan") /\ {q \in Children(p) : q >= f.i} = {}
      /\ lock[p] = NULL
      /\ IF ~f.b \/ killed[p] THEN release(c, wait_lock) /\ Goto(c, Frame("sysret"))
         ELSE Call(c, Sleep(p, wait_lock), Frame("wait_scan")) /\ UNCHANGED <<lock, cpu>>
      /\ UNCHANGED <<pvars, slept>>

-----------------------------------------------------------------------------
(* kill and sleep(n).                                                      *)

(* kill: a slot found by its pid.  An UNUSED slot has pid 0, which kill(0) *)
(* finds too.                                                              *)
kill(c, q) ==
  /\ At(c, "syscall") /\ Within(q)
  /\ killed' = [killed EXCEPT ![q] = TRUE]
  /\ state' = IF state[q] = "SLEEPING" THEN [state EXCEPT ![q] = "RUNNABLE"] ELSE state
  /\ Goto(c, Frame("sysret"))
  /\ UNCHANGED <<chan, parent, slept>>

sys_sleep(c, n) ==
  /\ At(c, "syscall") /\ acquire(c, tickslock)
  /\ Goto(c, [Frame("sleep_loop") EXCEPT !.n = n])
  /\ UNCHANGED <<pvars, slept>>

sleep_loop(c) ==
  LET f == Top(c)
      p == Me(c)
  IN  /\ At(c, "sleep_loop") /\ lock[p] = NULL
      /\ IF slept[p] >= f.n \/ killed[p]
         THEN /\ release(c, tickslock) /\ Goto(c, Frame("sysret"))
              /\ slept' = [slept EXCEPT ![p] = 0]
         ELSE /\ Call(c, Sleep(ticks, tickslock), f)
              /\ UNCHANGED <<lock, cpu, slept>>
      /\ UNCHANGED pvars

-----------------------------------------------------------------------------
(* A step of the kernel on CPU c. *)
Kernel(c) ==
  \/ /\ Me(c) = NULL
     /\ intr_on(c) \/ scheduler(c) \/ scheduler_resume(c)
  \/ /\ Me(c) # NULL
     /\ \/ sched(c) \/ yield(c) \/ yield_returns(c) \/ forkret(c)
        \/ sleep(c) \/ sleep_tidy(c) \/ sleep_relock(c)
        \/ usertrap(c) \/ sysret(c)
        \/ fork_parent(c) \/ fork_run(c) \/ reparent(c) \/ exit_zombie(c)
        \/ wait_scan(c) \/ wait_sleep(c) \/ sleep_loop(c)
        \/ Me(c) \in Forkers /\ fork(c)
        \/ exit(c) \/ wait(c)
        \/ \E q \in Victims : kill(c, q)
        \/ Me(c) \in Sleepers /\ \E n \in Ticks : sys_sleep(c, n)
  \/ wakeup(c) \/ kerneltrap(c) \/ kerneltrap_ret(c) \/ clockintr(c) \/ clockintr_done(c)

Next == \E c \in Cpu : Kernel(c) \/ TimerIntr(c) \/ SysCall(c)

(* A step in a process or scheduler itself, not in an interrupt of it. *)
Interrupted(c) == \E k \in DOMAIN Stack(c) : Stack(c)[k].pc \in {"kerneltrap", "kerneltrap_ret"}
Proper(c) == ~Interrupted(c) /\ Kernel(c)

(* A thread that is on a CPU goes on; a spin lock that is free again and   *)
(* again is got at last; the time between two interrupts is enough for a   *)
(* step of what they interrupt; a timer interrupt stays pending until      *)
(* interrupts are enabled, and another one follows.                        *)
Fairness ==
  /\ \A p \in Proc : /\ SF_vars(\E c \in Cpu : Me(c) = p /\ Kernel(c))
                     /\ SF_vars(\E c \in Cpu : Me(c) = p /\ Proper(c))
  /\ \A c \in Cpu : /\ SF_vars(Me(c) = NULL /\ Kernel(c))
                    /\ SF_vars(Me(c) = NULL /\ Proper(c))
                    /\ SF_vars(TimerIntr(c))

Spec == Init /\ [][Next]_vars /\ Fairness

-----------------------------------------------------------------------------
(* Properties.                                                             *)

FrameType ==
  [pc : {"intr_on", "scheduler", "swtch", "sched", "yield", "yielded", "forkret", "user",
         "sleep", "slept", "relock", "wakeup", "usertrap", "kerneltrap", "kerneltrap_ret",
         "clockintr", "clockintr_done", "syscall", "sysret", "fork_parent", "fork_run",
         "exit", "reparent", "exit_zombie", "zombie exit", "wait_scan", "sleep_loop"},
   i : 1..(NPROC + 1), x : Proc \cup {ticks, NULL}, lk : {wait_lock, tickslock},
   n : Ticks \cup {0}, b : BOOLEAN, ret : {"none", "yielded", "slept", "zombie exit"}]

(* Every variable has its type. *)
TypeOK ==
  /\ state \in [Proc -> {"UNUSED", "USED", "SLEEPING", "RUNNABLE", "RUNNING", "ZOMBIE"}]
  /\ chan \in [Proc -> Proc \cup {ticks, NULL}]
  /\ killed \in [Proc -> BOOLEAN]
  /\ parent \in [Proc -> Proc \cup {NULL}]
  /\ lock \in [Lock -> Cpu \cup {NULL}]
  /\ cpu \in [Cpu -> [proc : Proc \cup {NULL}, noff : 0..2, intena : BOOLEAN,
                       intr : BOOLEAN, stack : Proc \cup {NULL}]]
  /\ th \in [Proc -> Seq(FrameType)] /\ sch \in [Cpu -> Seq(FrameType)]
  /\ slept \in [Proc -> Nat]

(* The lock that a CPU's next step takes. *)
Wants(c) ==
  CASE Top(c).pc \in {"scheduler", "wakeup"} -> Top(c).i
    [] Top(c).pc \in {"yield", "sleep", "exit_zombie", "usertrap", "sysret"} -> Me(c)
    [] Top(c).pc = "relock" -> Top(c).lk
    [] Top(c).pc = "clockintr" -> tickslock
    [] Top(c).pc \in {"exit", "fork_parent"} -> wait_lock
    [] OTHER -> NULL

(* No panic of acquire, of sched or of exit is reached: a CPU never spins  *)
(* for a lock it holds itself, an interrupt handler included; it enters    *)
(* the scheduler with exactly p->lock held and interrupts off; nobody      *)
(* returns from the dead.                                                  *)
NoPanic ==
  \A c \in Cpu :
    /\ Wants(c) # NULL /\ ~(At(c, "wakeup") /\ Top(c).i = cpu[c].proc) => lock[Wants(c)] # c
    /\ At(c, "sched") => /\ lock[Me(c)] = c /\ cpu[c].noff = 1 /\ ~cpu[c].intr
                         /\ state[Me(c)] # "RUNNING" /\ cpu[c].proc = Me(c)
    /\ ~At(c, "zombie exit")

(* A kernel stack is in use on one CPU at most, never after its process    *)
(* has been freed; and whoever is on it is RUNNING or holds p->lock, so    *)
(* that no other CPU can take the process up or free it.                   *)
StackSafe ==
  \A c \in Cpu : LET p == Me(c) IN
    p # NULL => /\ \A d \in Cpu \ {c} : Me(d) # p
                /\ state[p] \in {"RUNNING", "RUNNABLE", "SLEEPING", "ZOMBIE"}
                /\ state[p] # "RUNNING" => lock[p] = c

(* push_off and pop_off nest although threads move from CPU to CPU with    *)
(* p->lock held: noff counts the locks of the CPU, interrupts are off as   *)
(* long as it holds one, and a process that entered the kernel with        *)
(* interrupts on has them on whenever it holds none.                       *)
InterruptsNest ==
  \A c \in Cpu :
    /\ cpu[c].noff = Cardinality({l \in Lock : lock[l] = c})
    /\ cpu[c].intr => cpu[c].noff = 0
    /\ Top(c).pc \in {"user", "syscall", "sysret", "relock", "fork_parent", "fork_run"}
         => cpu[c].intr

(* Spin locks are taken and given back in the order the kernel relies on. *)
LocksNest == NoPanic /\ InterruptsNest

(* No wakeup is lost: who sleeps in wait has a child and none that is a    *)
(* zombie, who sleeps in sleep(n) is not due yet, as soon as the lock that *)
(* guards the condition is free.                                           *)
NoLostWakeup ==
  \A p \in Proc : state[p] = "SLEEPING" =>
    /\ chan[p] = p /\ lock[wait_lock] = NULL =>
         Children(p) # {} /\ \A q \in Children(p) : state[q] # "ZOMBIE"
    /\ chan[p] = ticks /\ lock[tickslock] = NULL => Due(p)

(* Every process has a parent that can still wait for it: a zombie is not  *)
(* left behind by a parent that exits or forks at the same time.           *)
ParentAlive ==
  lock[wait_lock] = NULL =>
    \A p \in Proc \ {initproc} :
      state[p] \notin {"UNUSED", "USED"} =>
        parent[p] # NULL /\ state[parent[p]] \notin {"UNUSED", "USED", "ZOMBIE"}

(* A process that is ready to run does run. *)
RunnableRuns == \A p \in Proc : state[p] = "RUNNABLE" ~> state[p] = "RUNNING"

In(p, pc) == \E k \in DOMAIN th[p] : th[p][k].pc = pc

(* sleep(n) returns. *)
SleepEnds == \A p \in Proc : In(p, "sleep_loop") ~> ~In(p, "sleep_loop")

(* wait returns if a child has exited, or been inherited as a zombie. *)
WaitEnds ==
  \A p \in Proc :
    In(p, "wait_scan") /\ (\E q \in Children(p) : state[q] = "ZOMBIE") ~> ~In(p, "wait_scan")

(* A process killed in user mode exits, whatever it computes. *)
KilledExits ==
  \A p \in Proc : killed[p] /\ In(p, "user") /\ state[p] = "RUNNING"
                    ~> state[p] \in {"ZOMBIE", "UNUSED"}

(* What a process waits for in the kernel comes: the end of its sleep, the *)
(* exit of a child, its own end when it is killed.                         *)
CallsEnd == SleepEnds /\ WaitEnds /\ KilledExits
=============================================================================
