# TLA+ models of xv6-riscv with copy-on-write fork

The repository is xv6-riscv with the copy-on-write lab done: `fork` shares
pages, a store page fault or a `copyout` makes a private copy, and `kalloc.c`
counts references. This directory models the parts where several processes,
interrupts, a failing allocation or a crash can go wrong, checks them with TLC
on small instances, and proves the central properties of memory, log and disk
with TLAPS for every instance.

`PROJECT.json` lists for every definition the source lines it stands for, for
every run what it checks, the hazards of the code, and the disagreement found.

## The system and its parts

| part | source (`src/`) | modules |
|---|---|---|
| physical pages, reference counts | `kernel/kalloc.c` | `Kmem` |
| page tables, `copyout`, store page fault, memory of fork, exec, sbrk, exit, wait | `kernel/vm.c`, `trap.c`, `proc.c`, `exec.c` | `Cow`, `PrivateMem`, `MCCow` |
| redo log, recovery | `kernel/log.c` | `Log`, `AtomicDisk` |
| open files, descriptors, pipes | `kernel/file.c`, `pipe.c`, `sysfile.c` | `File`, `Pipe`, `PipeQueue` |
| scheduler, sleep and wakeup, spin locks, interrupts, kill, ticks | `kernel/proc.c`, `spinlock.c`, `trap.c`, `sysproc.c` | `Sched` |
| buffer cache, sleep locks, disk driver | `kernel/bio.c`, `sleeplock.c`, `virtio_disk.c` | `Disk`, `BlockStore`, `MCDisk` |
| inode table, names, directories | `kernel/fs.c`, `sysfile.c` | `Fs`, `MCFs` |
| file contents, block allocation | `kernel/fs.c`, `file.c` | `Inode`, `ByteFiles`, `MCInode` |
| console, UART | `kernel/console.c`, `uart.c` | `Console`, `Tty` |
| shell | `user/sh.c` | `ShParse`, `Sh`, `MCSh` |
| boot, assembly, printing, strings, user library and programs, mkfs | | see the end |

How they interact: user code enters the kernel by a system call, a fault or an
interrupt; `proc.c` and `exec.c` build address spaces out of `vm.c`, which takes
pages from `kalloc.c`; calls on files run between `begin_op` and `end_op` of
`log.c`, read and write buffers of `bio.c`, and these go to the disk through
`virtio_disk.c`. Everything that waits does so with `sleep` and `wakeup`. Each
module takes what lies below it in an abstract form: `Log` the cache as a set of
buffers that may be dropped, `Fs` and `Inode` a call as one transaction of the
log and sleep locks as atomic, `Pipe` and `Disk` sleep and wakeup as one step
each, whose faithful form is in `Sched`.

## Modules

A module has the state of the code as variables, with the names of the code, and
one action for each function, loop turn or critical section, named after the
function. `th[p]` is the place in the code and the locals of process `p`'s kernel
thread. Where a component promises something that can be said without its
insides, a short abstract module says it, and the detailed one is shown to
implement it under the mapping given at its `INSTANCE`.

**Kmem** (`kalloc.c`). `freelist` is a set, since the order of the list makes no
difference to any property, and `Pick` names its head; `refer_count` counts
modulo `REFMOD` = 2^8; `freeing[p]` is the page thread `p` has counted down to
zero in `kfree` and not yet pushed. Each operator is one critical section of
`kmem.lock`; `kfree` has two, and other harts run between them.

**Cow** (`vm.c`, `trap.c`, the memory side of `proc.c` and `exec.c`). State:
`leaf` (the PTEs of user pages: page, `PTE_W`, `PTE_U`, `PTE_RSW_COW`), `tabs`
(the pages that hold page tables and trapframes), `sz`, `state`, `parent`,
`wait_lock`, `content` (who wrote a page last, zeroes, junk, or the image).
Space number `p` is the page table of process `p`, space `-p` the table `exec`
builds for it and, after the exchange, the old table that is freed. A loop over
pages (`uvmcopy`, `uvmalloc`, `uvmunmap`, `freewalk`, `copyout`) takes one step
per page and one per `kalloc` or `kfree`, so another process can run, and memory
can run out, at every point at which the code allows it. `cow_alloc` is five
steps: look at the count and set `PTE_W`, `kalloc`, copy and map, `kfree` and
the second half of that `kfree`. Abstracted: a page table is a set of nodes and a
map of leaves (`NodesOf` says which table pages the walk to a user page needs);
process slots are taken in any order; the files of exit and the file reads and
argument strings of exec are left out; `exec` fails for lack of memory only; a
page holds one value. A call that fills a user buffer is `SysCopyout`, whatever
the call. **PrivateMem**: every process has a memory of its own, `fork` copies
it, and nothing but the process itself writes it.

**Log** (`log.c`). State: the disk (`home`, `logged`, `head`), the cached buffers
(`cache`, `pins`, `holder`), `struct log` (`lh`, `outstanding`, `committing`),
`up`. A step is a critical section of `log.lock` or one disk write. `Crash` may
happen at any step, also in recovery; it loses the memory and may tear the block
that was being written (two sectors), but not the header, whose used part fits
into the first sector. Recovery is run by the first process (`forkret`,
`fsinit`, `initlog`), with the same `install_trans` as a commit. A buffer that is
neither locked nor pinned may be recycled at any time. Abstracted: a call holds
one buffer at a time; it changes a buffer and logs it in one step, since it
holds the buffer's lock throughout; log blocks are cached with the value they
have on disk. **AtomicDisk**: calls write a current state, a commit makes all of
it stable at a moment when no call is open, a crash goes back to the stable
state. The stable state is what recovery would leave, the current one what
`bread` returns.

**File**, **Pipe** (`file.c`, `pipe.c`, the files of fork and exit). `File` has
`ftable` and the descriptors, `Pipe` the pipes, the calls pipe, dup, close, read,
write, fork, exit, kill, and user memory that fails half way. `nread` and
`nwrite` count modulo `UINT`. **PipeQueue**: a bounded queue of bytes while both
ends exist, and what is in it when the writing end goes away can be read.

**Sched** (`proc.c`, `spinlock.c`, `trap.c`, `sys_sleep`). A CPU executes the
topmost frame of the kernel stack it is on; `swtch` changes the stack. A step
reaches from one `acquire` to the next. Timer interrupts come wherever the CPU
has them enabled, in user code and in the kernel, and their handler is a frame
on the same stack. `noff` and `intena` are the CPU's, as in the code, and
`sched` saves `intena` in its frame.

**Disk** (`bio.c`, `sleeplock.c`, `virtio_disk.c`). Buffers with counts and sleep
locks in a list in order of use, the descriptors, both rings with indices that
wrap, a device that completes requests in any order, and the interrupt handler,
which holds `vdisk_lock` over several steps while the device goes on. A caller
that changed a buffer writes it or has it pinned, as `bio.c:10` and the comment on
`log_write` ask. One caller does not, `writei` when its copy from user memory
fails; `Inode` has what comes of that.
**BlockStore**: a block has one owner at a time, its contents are what was
stored last, and only what the owner stored reaches the disk.

**Fs** (`fs.c`, `sysfile.c`). The inode table, link counts, directories and the
calls create, open, link, unlink, mkdir, mknod, chdir. `th[p].todo` is the rest
of a call as a sequence of `ilock`, `iunlock`, `iput` and labels, so that every
order of lock and release of two calls is explored. The inode table has `NINODE`
entries, of which processes outside the model may use up to `Others`; `panic` keeps
the message of a panic, after which nothing moves.

**Inode** (`fs.c`, `file.c`). `balloc`, `bfree`, `bmap`, `itrunc`, `readi`,
`writei` over direct and indirect blocks, with the number of blocks each
transaction logs, on a disk and a user memory that end. `blk` is what the buffer
cache has of the blocks, `home` what the disk has. When `copyin` fails half way
through a block, `writei` has changed the buffer and returns without `log_write`
(`fs.c:522`): `blk` differs from `home`, until a later write of the same block logs the
whole buffer, or `bget` recycles it and the old bytes are back. **ByteFiles**: files
are sequences of bytes with positions; besides what was written, a failed write may
leave bytes that may change back (`kept` is the file without them).

**Console** (`console.c`, `uart.c`). The input ring with its three indices, the
transmit ring, the port with its FIFO and its interrupts. `consoleread` looks at
`p->killed` and goes to sleep in two steps, as in `Pipe`: a kill in between finds
nobody to wake up (`late`), and is noticed when the next line arrives. **Tty**: lines that are
edited until they are complete, and a queue of output.

**ShParse**, **Sh** (`user/sh.c`). The parser over the characters of a line,
compared with a grammar; `runcmd`, `fork1` and the main loop as processes with
descriptors, pipes and waits, on a kernel whose calls may fail.

## Runs

| run | instance | shows |
|---|---|---|
| `cow_oom` | 2 processes, 11 physical pages, a table page per user page, an image of text, guard and data | with `kalloc` failing at every place: tables are private, counts exact, every page accounted for, a writable page is private, sharing is invisible, every store page fault ends |
| `cow_copyout` | 2 processes, 7 pages, `PGSIZE` 2, sbrk by +2 and -3, copyout across a page boundary | size and page table agree (no panic in `vm.c`), and what the kernel writes stays private |
| `log` | 3 processes, 2 blocks, 2 values, room for two calls | the log is an atomic disk under crashes at every step; pins match the log; no lost wakeup; commits and recoveries end |
| `pipe` | 2 processes, 2 files, 2 descriptors each, pipes of 2 bytes, counters modulo 4 | reference counts exact, a pipe is a queue, no lost wakeup, calls end |
| `sched` | 3 processes on 2 CPUs | no kernel stack is used twice, locks and `noff` match across switches, no lost wakeup, parents are alive |
| `sched_live` | 2 processes on 1 CPU, with kill | who is runnable runs, `sleep` and `wait` end, killed processes exit |
| `disk` | 2 processes, 3 blocks, 2 buffers, 4 or 6 descriptors | one buffer per block and exact counts, exact descriptors, no lost wakeup, cache and driver are a store of blocks |
| `fs` | 2 processes, 3 inodes, 2 names, directories in directories, 3 entries in the inode table of which others use up to one | references, names and link counts exact, directories are a tree, no deadlock of inode locks, no panic but the two named below |
| `inode` | 2 files, 2 inodes, 3 blocks of 2 bytes, 1 direct block and 1 in the indirect block, writes of 1 and 3 bytes | the bitmap is exact, transactions fit, files are byte sequences |
| `console` | a process that reads and writes, rings of 2 entries, indices modulo 4 | lines and output as of a terminal, no lost wakeup, writes end |
| `sh` | lines of up to 3 characters and some longer ones, 6 processes, 6 descriptors, 2 pipes | the parser agrees with its grammar, programs get the right descriptors, nobody waits for another line's process, the shell prompts again |

One run is expected to fail. `cow_copyout_no_memory`: `cow_alloc` sets `PTE_W`
before it calls `kalloc`. When that fails in a page fault the process is killed,
as the comment there asks; when it fails in `copyout` the call returns -1, and
the process goes on with a writable mapping of a page it shares. The passing
runs leave this case out by their inputs: `cow_oom` has no `copyout`,
`cow_copyout` enough memory.

Other places where code and intent part are not runs of their own. The first
three are outside the inputs of the passing runs, the others are in the models:

* `copyout` does not ask for `PTE_W` (`vm.c:371`), so that it writes to a read-only
  text page, which parent and child share without the copy-on-write mark.
* The test `fault_va > p->sz` lets the address `p->sz` through (`trap.c:125`), for
  which `walk` may return 0, and `is_cowpage` reads through it.
* `begin_op` reckons with `LOGSIZE` data blocks, while the log that mkfs makes has
  `LOGSIZE` blocks with its header (`log.c:220`, `param.h:9`, `mkfs.c:25`): calls that
  used their full `MAXOPBLOCKS` would reach `log_write`'s panic; those of `sysfile.c`
  use fewer.
* `iget` panics when `NINODE` inodes are in use (`fs.c:266`); there may be more open
  files than that (`param.h`). `NamesSafe` says that it does so in no other case.
* The `..` of a directory that was removed, while a process was in it, does not keep
  the parent: when that is removed too, going up makes `ilock` panic (`fs.c:314`).
  `NamesSafe` says that this is the only way to a free inode.
* Bytes of a `write` that failed for its user memory may show in the file, and be
  gone later (`fs.c:522`). `FilesAreBytes` allows this and no more.
* A process that is killed between its look at `p->killed` and `sleep` sleeps on
  (`console.c:92`, `pipe.c:114`), and a writer killed between two bytes does not wake
  the readers (`pipe.c:84`). The properties `NoLostWakeup` of `Console` and `Pipe` name
  these exceptions.
* `piperead` takes a byte off before it copies it out, and loses it when that fails
  (`pipe.c:124`). The queue of `PipeQueue` does not tell a byte lost in this way from
  one that was read.

### Bounds

Every bound is a constant in a `.cfg`. They are chosen so that the cases the code
distinguishes occur:

* Memory: two address spaces and a third that `exec` builds give counts of one
  and two and a count that another process changes between two steps of
  `cow_alloc`. Page size 2 gives sizes on and off a page boundary. The number of
  physical pages decides whether `kalloc` can fail. Pages are interchangeable, so
  a state is taken up to their numbers (`VIEW UpToPageNames`): who holds each page
  in use, and how many are free. The view keeps each thread's place and each
  count, so it is sound for `FaultsEnd` too.
* Log: three processes, so that two calls are open while a third waits; two
  blocks give absorption and commits of more than one block; two values tell old
  data from new.
* Pipe: counters wrap after twice the size of the pipe; two files, so that
  `pipealloc` fails half way when one is taken.
* Scheduler: the third process is there to be adopted by init when its parent
  exits; two CPUs, so that `wakeup`, `exit` and `wait` really overlap. `sched_live`
  has fewer of both, since it checks liveness.
* Disk: three blocks over two buffers force recycling; four descriptors make the
  second request wait, six let both through; ring indices wrap after one round.
* Inode: files reach the indirect block and the largest size; with two files the
  disk is full at each of the allocations of a write, also between the indirect block
  and the block in it. Writes of one and three bytes begin and end within a block, and
  one of three is two transactions.
* File system: a table of three entries with at most one used by others is full
  in some behaviours, and in others all three inodes are in use.
* Console and shell: rings wrap, and with two entries a byte in the wrong place
  shows; a line can hold every token of the grammar.

Deadlock is checked where the system has no reason to stop (`log`, `sched`,
`sched_live`). Elsewhere it may: init may exit for want of memory (a panic), `bget`
panics without an unused buffer, `Fs` may panic as said above, all programs may have
ended, or nothing is typed.

### Fairness

`Cow`, `Log`: weak fairness of each process's kernel steps: a process in the kernel
that can go on does so, as timer and scheduler see to it. User code has none: a
program may loop, never exit, never wait. In `Log` the end of a call belongs to
the kernel steps, since every call returns; new calls, recycling and crashes
need not happen. That `begin_op` lets every caller in at last is not claimed:
others may overtake it for ever. `Pipe`: the same, strong fairness for taking
the pipe's lock, which others release again and again, and a killed process
exits when it gets to user space. `Sched` models the scheduler itself, so it
assumes less: a CPU goes on with what it executes, a lock that is free again and
again is taken at last (strong fairness, the spin lock's promise), and the timer
keeps ticking. `Console`: the port sends, processes run,
and the interrupt handler gets its locks and goes on (strong fairness as above).
`Sh`: the shell and its children run, and a program ends once its input has ended
and its output is taken. `Disk`, `Fs` and `Inode` claim safety only.

## Theorems

Proved for every number of processes, pages, blocks, buffers, descriptors and
every input that satisfies the assumptions named in the modules.

| theorem | module | says |
|---|---|---|
| `TypeCorrect`, `ThreadInvariant` | `CowThread` | types; where each thread can be and what it works on |
| `PageInvariant`, `RefcountsAreExact`, `NoPageIsLost`, `TablesStayPrivate` | `CowTheorems` | `RefcountExact`, `EveryPageAccounted` and `TablesAreNotShared` always hold |
| `SizesAgree`, `PanicsUnreachable` | `CowTheorems` | sizes and page tables agree; `NoVmPanic` always holds |
| `CountsMeanSole` | `CowTheorems` | what the counts say about who refers to a page |
| `ViewInvariant`, `WritablePagesArePrivate` | `CowTheorems` | `WritableIsPrivate` holds as long as `copyout` is served |
| `SharingIsInvisible` | `CowTheorems` | `Cow` implements `PrivateMem` (`PrivateMemory`) as long as `copyout` is served |
| `InvisibleWithoutCopyout` | `CowTheorems` | both, without that condition, for programs that never have the kernel write to their memory |
| `LogInvariant`, `PinsExact`, `NobodySleepsInVain` | `LogTheorems` | `PinsMatchLog` and `NoLostWakeup` always hold |
| `LogIsAtomicDisk` | `LogTheorems` | `Log` implements `AtomicDisk` (`CrashAtomic`) |
| `DiskInvariant`, `BuffersAreExact`, `DescriptorsAreExact`, `NoSleeperForgotten` | `DiskTheorems` | `BuffersExact`, `DescriptorsExact` and `NoLostWakeup` always hold |
| `CacheIsStore` | `DiskTheorems` | `Disk` implements `BlockStore` (`DiskIsStore`) |

### Memory

The assumption that carries weight is `3 * Cardinality(Proc) < REFMOD`, which
`NPROC` = 64 and a one-byte count satisfy: it is why the count cannot wrap. The
others give the constants their types: processes and page-table nodes are finite,
`PGSIZE` is positive, addresses are below `MAXVP` pages, and `NULL` is no page, no
space and no content.

None of the properties is inductive alone. `ThreadInv` (in `CowInv`) says for each
place in the code what the thread works on: its own space, the space of a child
slot that is `USED` and belongs to no other fork, or of a zombie child; that a
slot without a running process has no thread; and that the page a fault is about
is mapped. Every action keeps it, whatever the counts are (`CowThread`). `PageInv`
is proved on top of it: the three page properties; that a page in the hand of
`cow_alloc` or `uvmalloc` has count one; that the table `exec` builds has no
trapframe of its own; and that a page appears at one virtual page number only,
so that its PTEs are at most as many as there are page tables. The last one, and
one local per thread, bound the count by `3 * Cardinality(Proc)`.

The references to a page are counted as the cardinalities of three sets of
places. `LeafChange`, `TabChange` and `MemChange` say how a cardinality moves when
one place changes; lemmas like `PagesMap`, `PagesShare`, `PagesFreeLeaf`,
`PagesSwap` say what one kind of step does to all of `PageInv`; then one lemma per
action picks the right one. `exec`'s exchange of two tables needs a bijection
between the places before and after. `CowSizes` has the facts that all share,
`CowPages` the lemmas about `PageInv`, and `CowTheorems` the counting and the theorems.

`SizeInv` (`CowSizes`) ties `p->sz` to the page table. A space that no call is
working on maps exactly the pages below its size; one that a call builds, shrinks
or frees maps what the loop index says: below `i` while it is built, from `i` to
`n` while it is freed, and for `uvmdealloc` also what is kept. `NoVmPanic` reads
it at the places where `vm.c` would panic. Proving it is mostly arithmetic of
`PGROUNDUP`: the pages of the old size, of the new one, and of a size on which
sbrk gave up half way.

`ViewInv` (`CowPrivate`) is about contents. A writable page is mapped once,
excepting the page of a thread between `cow_alloc`'s setting of `PTE_W` and its
new PTE, and the pages of a process that is about to end (`Excused`); fork's child
has the parent's own pages up to the loop index; pages that `uvmalloc` has added
and no program has seen hold zeroes or the image. From `PageInv` it takes
`SoleRefs`: a page with count one is mapped by one table only, and a free or fresh
page by none. Each step then leaves what every process sees (`View`) alone, or
changes it as one step of `PrivateMem` does: a store, and a page of `copyout`, is
its `Write`; `ForkReturns` its `Fork`; the start of a shrink and the end of a grow
its `Resize`; `ExecCommit`, and the end of boot, its `Exec`; `exit` its `Exit`. All
the rest, each page of `uvmcopy` and the copy in `cow_alloc` included, is not seen.

These results have a hypothesis, `[]CopyoutServed`, because without it they are
false: `copyout` finds memory when it asks `cow_alloc` for a copy (the finding
above is what happens otherwise), and is not given a read-only page that is not
copy-on-write (it would write to it, and so to the text of a relative). Page
faults need no such condition: there the process is killed. Programs without
calls that fill user memory satisfy it trivially, which is
`InvisibleWithoutCopyout` and the instance of the run `cow_oom`; the run
`cow_copyout` satisfies it with `copyout`, having enough memory and no text.

### Log

Assumed: finitely many processes, `1 <= MAXOPBLOCKS <= LOGSIZE`, and that the log
on disk has a header. Nothing relates `Size`, the blocks of the log on disk, to
`LOGSIZE`: where a call would not fit, `log_write` panics and the model stops.

`LogInv` has seven parts: types; the lists name no block twice; open calls are
counted and hold the locked buffers (`Counted`); one process commits, when no call
is open (`Phases`); before the file system is up only init runs, and it recovers
(`Boots`); at each step of a commit or recovery, which entries are in the log and
which are home (`Copies`); a block that waits is pinned, any other buffer agrees
with its home (`Pinned`). For the refinement, `RecoveredIs` says
that the stable state of `AtomicDisk` is home overlaid with the entries the header
names; then each step is shown to change it only where it should: the write of
the header is the commit, installing changes nothing since the entries equal
what is overlaid, clearing the header changes nothing since all of them are home,
and a torn block is always one that recovery writes again or that no header names.

### Disk

Assumed: finitely many processes, at least three descriptors, and ring indices
modulo a multiple of their number (2^16 and 8 in the code).

`DiskInv` (in `DiskSteps`) has a part about the cache and one about the driver. The
cache: what each process has at each place of the code (`Threads`), a lock and its
holder agree and the holder knows whether the buffer was read (`Locks`), one buffer
per block and counts of users and pins (`Counts`), a buffer that has been read
equals the block on disk unless it is pinned or its holder has changed it
(`Clean`), which is why recycling loses nothing. The driver: a request has three
descriptors of its own (`Chains`), what request, buffer and process say about it
agrees (`Requests`), it is in one slot of one ring or with the device (`Places`),
and the filled slots of a ring are those from `seen` up to `idx` (`Rings`). That a
ring never overruns follows from these: a slot that is filled belongs to a
request, a request has three of the `NUM` descriptors, so fewer than `NUM` slots are
filled (`NotAll`, `NotFull`).

For the refinement, the contents of a block are those of its valid buffer, or of
the disk. `QuietSeen` covers the steps that the store does not see; `acquiresleep`
and `releasesleep` are its `Lock` and `Unlock`, `Store` its `Store`, the completion of a
write its `Flush`; recycling, and the end of a read, change nothing that is seen.

### Only model-checked

* Liveness (`FaultsEnd`, `LogSettles`, `CallsEnd`, `RunnableRuns`, `WriteEnds`,
  `PromptsAgain`): out of the prover's reach.
* `Console`, `ShParse`, `Sh`, `Inode`: recursive operators, which the prover does not
  take; their recursion over data (`ParseIsGrammar`, `FilesAreBytes`) would need
  induction.
* `Pipe`, `Sched`, `Fs`: their invariants hold in the runs and have no proof. What
  would be inductive is, for `Sched`, the shape of every kernel stack at every
  place of the code, and for `Fs` what the rest of every call, a sequence of locks
  and releases, will still do.

## Not modelled

Assembly (`entry.S`, `kernelvec.S`, `trampoline.S`), `start.c`, `main.c` and `plic.c`
run once or move registers and have no protocol to check. `printf.c`, `string.c`
and the argument fetching of `syscall.c` are stateless. `ramdisk.c` is not built.
`mkfs.c` is a sequential host tool; only its log size matters here. `copyin` and
`copyinstr` read and change nothing. The kernel page table is built once at boot.
`umalloc.c` is a sequential list algorithm. User programs other than the shell
are the environment of the models; `cowtest.c` and `usertests.c` serve as
statements of intent.
