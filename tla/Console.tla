------------------------------ MODULE Console -------------------------------
(***************************************************************************)
(* The console: line input and buffered output (kernel/console.c) on the   *)
(* serial port (uart.c), between processes that read and write, the        *)
(* interrupt handler, and the device.                                      *)
(*                                                                         *)
(* Indices are unsigned and wrap around.  Slots of the rings that nothing  *)
(* points to are set back to 0, since their contents do not matter.        *)
(***************************************************************************)
EXTENDS Integers, Sequences, FiniteSets

CONSTANTS
  NULL,
  Proc,
  INPUT_BUF_SIZE, UART_TX_BUF_SIZE,
  UINT, UINT64,   \* 2^32 and 2^64: the indices of the rings wrap around
  FIFO,           \* bytes the port holds, once its FIFO is enabled
  MaxTyped,       \* bound: characters that wait in the port
  Counts,         \* bound: the numbers of bytes in a read
  Lengths         \* bound: the numbers of bytes in a write

ASSUME ConsoleAssumption ==
  /\ {INPUT_BUF_SIZE, UART_TX_BUF_SIZE, UINT, UINT64, FIFO} \subseteq Nat \ {0}
  /\ UINT % INPUT_BUF_SIZE = 0 /\ UINT > INPUT_BUF_SIZE
  /\ UINT64 % UART_TX_BUF_SIZE = 0 /\ UINT64 > UART_TX_BUF_SIZE
  /\ Counts \cup Lengths \subseteq Nat \ {0}

Intr == "uartintr"
Thread == Proc \cup {Intr}

(* x stands for all characters that are not special, ^H also for Delete,   *)
(* and nl also for the return key.                                         *)
Char == {"x", "nl", "^D"}
Typed == Char \cup {"^U", "^H", "^P"}

VARIABLES
  cons,    \* r, w, e, buf and lock
  tx,      \* uart_tx_r, uart_tx_w, uart_tx_buf and uart_tx_lock
  rx, thr, \* the port: how many characters wait in it, the bytes it sends
  irq,     \* an interrupt is pending
  th       \* th[t]: pc, what is left of a call, whether it was killed; late:
           \* history, the kill came after its last look at p->killed

vars == <<cons, tx, rx, thr, irq, th>>

Idle == [pc |-> "idle", n |-> 0, target |-> 0,
         killed |-> FALSE, late |-> FALSE]

(* Unsigned arithmetic. *)
Plus(i, k) == (i + k) % UINT
Minus(i, j) == (i + UINT - j) % UINT
TxPlus(i, k) == (i + k) % UINT64

Init ==
  /\ cons = [r |-> 0, w |-> 0, e |-> 0, buf |-> [k \in 0..(INPUT_BUF_SIZE - 1) |-> NULL], lock |-> NULL]
  /\ tx = [r |-> 0, w |-> 0, buf |-> [k \in 0..(UART_TX_BUF_SIZE - 1) |-> NULL], lock |-> NULL]
  /\ rx = 0 /\ thr = <<>> /\ irq = FALSE
  /\ th = [t \in Thread |-> Idle]

Goto(t, pc) == th' = [th EXCEPT ![t].pc = pc]

(* The sleepers at &cons.r and &uart_tx_r, and where they look again. *)
Again == [sleep_cons |-> "read", sleep_tx |-> "write"]

(* wakeup: those of S who sleep at chan look again; t goes to pc. *)
Wake(chan, S, t, pc) ==
  [q \in Thread |-> IF q = t THEN [th[q] EXCEPT !.pc = pc]
                    ELSE IF q \in S /\ th[q].pc \in chan THEN [th[q] EXCEPT !.pc = Again[@]] ELSE th[q]]

-----------------------------------------------------------------------------
(* Reading.                                                                *)

Slot(i) == i % INPUT_BUF_SIZE

sys_read(p, n) ==
  /\ th[p].pc = "idle"
  /\ th' = [th EXCEPT ![p] = [Idle EXCEPT !.pc = "read", !.n = n, !.target = n]]
  /\ UNCHANGED <<cons, tx, rx, thr, irq>>

(* ^D stays for the next read, if this one has characters to return. *)
PushBack(r, t) == IF t.n < t.target THEN r ELSE Plus(r, 1)

(* The loop of consoleread from index r on, for each way it may go: where  *)
(* it ends, whether the call does, and what is left of it.  Any copyout    *)
(* may fail, and the character is lost.                                    *)
RECURSIVE ReadLoop(_, _)
ReadLoop(r, t) ==
  LET c == cons.buf[Slot(r)]
      end(q, done) == [r |-> q, done |-> done, t |-> t]
  IN  IF t.n = 0 THEN {end(r, TRUE)}
      ELSE IF r = cons.w THEN {end(r, t.killed)}
      ELSE IF c = "^D" THEN {end(PushBack(r, t), TRUE)}
      ELSE {end(Plus(r, 1), TRUE)} \cup
           IF c = "nl" THEN {} ELSE ReadLoop(Plus(r, 1), [t EXCEPT !.n = @ - 1])

(* Indices i, i + 1, ... up to but not including j. *)
Span(i, j) == {Plus(i, k) : k \in 0..(Minus(j, i) - 1)}

(* With cons.lock: copy what there is, and if that is not enough look at   *)
(* p->killed and be on the way to sleep.                                   *)
consoleread(p) ==
  /\ th[p].pc = "read" /\ cons.lock = NULL
  /\ \E x \in ReadLoop(cons.r, th[p]) :
       LET gone == {Slot(i) : i \in Span(cons.r, x.r)}
       IN  /\ cons' = [cons EXCEPT !.r = x.r, !.lock = IF x.done THEN NULL ELSE p,
                                   !.buf = [k \in DOMAIN @ |-> IF k \in gone THEN NULL ELSE @[k]]]
           /\ th' = [th EXCEPT ![p] = IF x.done THEN Idle ELSE [x.t EXCEPT !.pc = "read_sleep"]]
  /\ UNCHANGED <<tx, rx, thr, irq>>

(* sleep gives up cons.lock with p->lock held: one step. *)
sleep(p) ==
  /\ th[p].pc = "read_sleep"
  /\ cons' = [cons EXCEPT !.lock = NULL]
  /\ Goto(p, "sleep_cons")
  /\ UNCHANGED <<tx, rx, thr, irq>>

(* kill, which wakes its victim up if it sleeps already; in uartputc it    *)
(* goes back to sleep.                                                     *)
kill(p) ==
  /\ th[p].pc # "idle" /\ (th[p].killed => th[p].pc \in DOMAIN Again)
  /\ th' = [Wake(DOMAIN Again, {p}, Intr, th[Intr].pc)
               EXCEPT ![p].killed = TRUE, ![p].late = @ \/ th[p].pc = "read_sleep"]
  /\ UNCHANGED <<cons, tx, rx, thr, irq>>

-----------------------------------------------------------------------------
(* Writing.                                                                *)

TxSlot(i) == i % UART_TX_BUF_SIZE

(* (A write whose copyin fails is one of as many bytes as were copied.) *)
sys_write(p, n) ==
  /\ th[p].pc = "idle"
  /\ th' = [th EXCEPT ![p] = [Idle EXCEPT !.pc = "write", !.n = n]]
  /\ UNCHANGED <<cons, tx, rx, thr, irq>>

(* The byte a process writes next: its own, and different from the others. *)
Out(p) == <<p, th[p].n>>

TxFull == tx.w = TxPlus(tx.r, UART_TX_BUF_SIZE)

(* uartputc: into the ring, and on to uartstart with the lock held. *)
uartputc(p) ==
  /\ th[p].pc = "write" /\ tx.lock = NULL
  /\ \/ /\ TxFull
        /\ Goto(p, "sleep_tx") /\ UNCHANGED tx
     \/ /\ ~TxFull
        /\ tx' = [tx EXCEPT !.buf[TxSlot(tx.w)] = Out(p), !.w = TxPlus(@, 1), !.lock = p]
        /\ th' = [th EXCEPT ![p].pc = "uartstart", ![p].n = @ - 1]
  /\ UNCHANGED <<cons, rx, thr, irq>>

(* A thread after uartstart: consolewrite goes on with the next byte. *)
consolewrite(t) == IF th[t].n > 0 THEN [th[t] EXCEPT !.pc = "write"] ELSE Idle

(* LSR_TX_IDLE: the port has sent all it had. *)
TxIdle == thr = <<>>

(* THR: a byte for the port, which is lost if the port is full. *)
WriteTHR(b) == thr' = IF Len(thr) < FIFO THEN Append(thr, b) ELSE thr

(* uartstart looks at the ring and at the port, which is for everyone. *)
uartstart(t) ==
  /\ th[t].pc = "uartstart"
  /\ IF tx.w = tx.r \/ ~TxIdle
     THEN th' = [th EXCEPT ![t] = consolewrite(t)] /\ tx' = [tx EXCEPT !.lock = NULL]
     ELSE Goto(t, "send") /\ UNCHANGED tx
  /\ UNCHANGED <<cons, rx, thr, irq>>

(* Mutant: a writer that waits for room is not woken up. *)
Sleepers_none == {}
Sleepers == Proc

(* Mutant: the byte that was put last is sent first. *)
NextByte_last == tx.buf[TxSlot(TxPlus(tx.w, UINT64 - 1))]
NextByte == tx.buf[TxSlot(tx.r)]

(* The byte goes to the port, and there is room in the ring. *)
uartstart_send(t) ==
  /\ th[t].pc = "send"
  /\ WriteTHR(NextByte)
  /\ tx' = [tx EXCEPT !.r = TxPlus(@, 1), !.buf[TxSlot(tx.r)] = NULL]
  /\ th' = Wake({"sleep_tx"}, Sleepers, t, "uartstart")
  /\ UNCHANGED <<cons, rx, irq>>

-----------------------------------------------------------------------------
(* The interrupt handler.                                                  *)

uartintr ==
  /\ th[Intr].pc = "idle" /\ irq
  /\ irq' = FALSE /\ Goto(Intr, "getc")
  /\ UNCHANGED <<cons, tx, rx, thr>>

(* The characters of the line that ^U takes back. *)
KillFrom(e) ==
  LET nls == {k \in 1..Minus(e, cons.w) : cons.buf[Slot(Minus(e, k))] = "nl"}
  IN  IF nls = {} THEN cons.w ELSE Minus(e, (CHOOSE k \in nls : \A j \in nls : k <= j) - 1)

Room == Minus(cons.e, cons.r) < INPUT_BUF_SIZE

(* A BACKSPACE is three bytes. *)
BACKSPACE == 3

(* consoleintr's change to cons, and how many bytes it echoes.  (What ^P   *)
(* prints is left out, as are all messages of the kernel.)                 *)
Edited(c) ==
  LET e == CASE c = "^U" -> KillFrom(cons.e)
             [] c = "^H" -> IF cons.e # cons.w THEN Minus(cons.e, 1) ELSE cons.e
             [] OTHER -> cons.e
      gone == {Slot(i) : i \in Span(e, cons.e)}
      end == Plus(cons.e, 1)
      whole == c \in {"nl", "^D"} \/ Minus(end, cons.r) = INPUT_BUF_SIZE
  IN  IF c \in Char /\ Room
      THEN [echo |-> 1, wake |-> whole,
            to |-> [cons EXCEPT !.buf[Slot(cons.e)] = c, !.e = end, !.w = IF whole THEN end ELSE @]]
      ELSE [echo |-> BACKSPACE * Minus(cons.e, e), wake |-> FALSE,
            to |-> [cons EXCEPT !.e = e, !.buf = [k \in DOMAIN @ |-> IF k \in gone THEN NULL ELSE @[k]]]]

(* uartgetc, and consoleintr up to the echo, which keeps the lock. *)
consoleintr(c) ==
  LET x == Edited(c)
  IN  /\ th[Intr].pc = "getc" /\ rx > 0 /\ cons.lock = NULL
      /\ rx' = rx - 1
      /\ cons' = [x.to EXCEPT !.lock = IF x.echo > 0 THEN Intr ELSE NULL]
      /\ th' = [Wake({"sleep_cons"}, IF x.wake THEN Proc ELSE {}, Intr, IF x.echo > 0 THEN "sync" ELSE "getc")
                  EXCEPT ![Intr].n = x.echo]
      /\ UNCHANGED <<tx, thr, irq>>

(* Nothing more to read: on to uartstart. *)
uartintr_tx ==
  /\ th[Intr].pc = "getc" /\ rx = 0 /\ tx.lock = NULL
  /\ tx' = [tx EXCEPT !.lock = Intr]
  /\ Goto(Intr, "uartstart")
  /\ UNCHANGED <<cons, rx, thr, irq>>

(* uartputc_sync waits for the port without a lock ... *)
uartputc_sync ==
  /\ th[Intr].pc = "sync" /\ TxIdle
  /\ Goto(Intr, "putc")
  /\ UNCHANGED <<cons, tx, rx, thr, irq>>

(* ... and writes the next byte of the echo. *)
consputc ==
  LET last == th[Intr].n = 1
  IN  /\ th[Intr].pc = "putc"
      /\ WriteTHR(NULL)
      /\ th' = [th EXCEPT ![Intr].pc = IF last THEN "getc" ELSE "sync", ![Intr].n = @ - 1]
      /\ cons' = IF last THEN [cons EXCEPT !.lock = NULL] ELSE cons
      /\ UNCHANGED <<tx, rx, irq>>

-----------------------------------------------------------------------------
(* The serial port.                                                        *)

(* A character arrives; which one, does not matter until it is read. *)
Receive ==
  /\ rx < MaxTyped
  /\ rx' = rx + 1 /\ irq' = TRUE
  /\ UNCHANGED <<cons, tx, thr, th>>

(* Mutant: no interrupt when the port can take bytes again. *)
TxInterrupt_off(left) == irq
(* IER_TX_ENABLE: an interrupt when all bytes have been sent. *)
TxInterrupt(left) == irq \/ left = <<>>

Transmit ==
  /\ thr # <<>>
  /\ thr' = Tail(thr) /\ irq' = TxInterrupt(Tail(thr))
  /\ UNCHANGED <<cons, tx, rx, th>>

-----------------------------------------------------------------------------
Run(p) == consoleread(p) \/ sleep(p) \/ uartputc(p) \/ uartstart(p) \/ uartstart_send(p)
Handler ==
  \/ uartintr \/ (\E c \in Typed : consoleintr(c)) \/ uartintr_tx \/ uartputc_sync \/ consputc
  \/ uartstart(Intr) \/ uartstart_send(Intr)

Next ==
  \/ \E p \in Proc :
       \/ \E n \in Counts : sys_read(p, n)
       \/ \E n \in Lengths : sys_write(p, n)
       \/ kill(p) \/ Run(p)
  \/ Handler \/ Transmit \/ Receive

(* The port sends, the handler runs on, and so does a process unless it    *)
(* waits for input.  A spin lock that is free again and again is got.      *)
Fairness == WF_vars(Transmit) /\ SF_vars(Handler) /\ \A p \in Proc : WF_vars(Run(p))

Spec == Init /\ [][Next]_vars /\ Fairness

-----------------------------------------------------------------------------
(* Properties.                                                             *)

(* A reader sleeps only while there is nothing to read, and a writer only  *)
(* while the ring is full: no wakeup is lost.  A reader that was killed    *)
(* does not sleep, with the one exception that the code has: consoleread   *)
(* looks at p->killed before sleep takes p->lock, and a kill that comes in *)
(* between finds nobody to wake up.                                        *)
NoLostWakeup ==
  \A p \in Proc :
    /\ th[p].pc = "sleep_cons" => cons.r = cons.w /\ (th[p].killed => th[p].late)
    /\ th[p].pc = "sleep_tx" => TxFull

(* What is in a ring from index i up to j; indices are below m. *)
Ring(buf, i, j, m) ==
  [k \in 1..((j + m - i) % m) |-> buf[((i + k - 1) % m) % Cardinality(DOMAIN buf)]]

MaxLength == CHOOSE n \in Lengths : \A m \in Lengths : m <= n

T == INSTANCE Tty WITH
       Char <- Char, End <- {"nl", "^D"}, Eof <- "^D", Room <- INPUT_BUF_SIZE, Byte <- Proc \X (1..MaxLength),
       line <- Ring(cons.buf, cons.w, cons.e, UINT),
       ready <- Ring(cons.buf, cons.r, cons.w, UINT),
       out <- SelectSeq(thr, LAMBDA b : b # NULL) \o Ring(tx.buf, tx.r, tx.w, UINT64)

(* The rings, whatever their indices, behave as a terminal's lines and as  *)
(* a queue of output: a line is complete before it is read and cannot be   *)
(* edited afterwards, a read stops at its end and leaves an end of file    *)
(* behind characters for the next one, and every byte written is sent once *)
(* and in order, however echoes come between.                              *)
ConsoleIsTty == T!Spec

(* A write ends, since the port's interrupts keep the ring moving, also    *)
(* while echoes go to the port.  (Unless characters come without end: the  *)
(* handler takes all there are before it sends.)                           *)
WriteEnds ==
  \/ []<><<Receive>>_vars
  \/ \A p \in Proc : th[p].pc = "write" ~> th[p].pc = "idle"
=============================================================================
