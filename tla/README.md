# Specifications of the xv6 kernel in this repository

TLA+ models of the kernel under `src/kernel`, of `src/mkfs` and of the shell in
`src/user`, model-checked with TLC and, for eight of the components, proved with
TLAPS. The kernel is xv6 for RISC-V with the changes of the traps lab:
`backtrace()`, `sigalarm()` and `sigreturn()`.

## 1. The system and its parts

| Part | State | Operations | What makes it hard |
|---|---|---|---|
| Spin locks (`spinlock.c`) | `locked`, `cpu`; per CPU `noff`, `intena` | acquire, release, push_off, pop_off | several CPUs, interrupts between any two instructions |
| Processes (`proc.c`) | process table, `wait_lock`, per-CPU current process | fork, exit, wait, kill, sleep, wakeup, yield, scheduler | lock hand-over across `swtch`, lost wakeups, slot reuse |
| Traps and alarms (`trap.c`, `trampoline.S`, `syscall.c`, `sysproc.c`) | registers, trapframe, its copy, tick counters | usertrap, usertrapret, sigalarm, sigreturn | a timer interrupt anywhere, migration between harts |
| User memory (`kalloc.c`, `vm.c`, `exec.c`, `proc.c`) | free list, three-level page tables, contents of pages | kalloc, kfree, walk, mappages, uvm*, copyin, copyout; fork, sbrk, exec, exit, wait | failure halfway, page boundaries |
| Log and buffer cache (`log.c`, `bio.c`) | header and blocks on disk and in memory, pins | begin_op, log_write, end_op, commit, recovery | power failure between any two writes, also in recovery |
| Disk driver (`virtio_disk.c`) | descriptors, avail and used ring, `b->disk` | rw, interrupt | a device that takes no lock, indices that wrap |
| Inodes, directories, paths (`fs.c`, `sysfile.c`, `file.c`) | inodes on disk, inode table, directory entries | open, create, mkdir, mknod, link, unlink, chdir, close, iput | references and links counted apart, hand-over-hand walk |
| Contents of files (`fs.c`, `file.c`, `sysfile.c`, `mkfs.c`) | block map, bitmap, open files, descriptors | open, read, write, dup, fork, close, unlink | indirect blocks, reuse of blocks, shared offsets |
| Pipes (`pipe.c`) | ring, two counters, two ends | read, write, close | wrap-around, two conditions, kill |
| Console input (`console.c`) | ring with three indices | consoleread, consoleintr | line editing in the ring, two readers, ^D |
| UART (`uart.c`, `console.c`) | transmit ring, device FIFO | uartputc, uartputc_sync, uartstart, uartintr | output with and without the lock |
| Shell and init (`sh.c`, `init.c`) | processes, descriptors, pipes, command trees | parsecmd, runcmd, main | descriptors by position, ends of pipes left open |

They interact as follows. Everything uses spin locks and `sleep`/`wakeup`; `Proc`
shows that `sleep(chan, lk)` releases the lock and goes to sleep without missing
a `wakeup`, and every other module takes that as one step. File-system calls
run inside the brackets of the log, whose blocks go through the buffer cache to
the disk driver: `Log` treats one block write as a step that completes or is torn
by a power failure, which is what `Disk` justifies (`virtio_disk_rw` returns only
after the transfer). `Inode` and `Files` take a system call's updates as other
processes see them in the cache; `Log` shows that they reach the disk together.
`Log` in turn relies on no call writing more blocks than it has reserved, which
`Files` checks for `filewrite()`.

## 2. The modules

Each module models one part; its header says what is abstracted. Names of
actions and variables are those of the functions and fields they model, and
`PROJECT.json` gives the source lines of every definition. A `panic` is a conjunct
of the action's guard, and an invariant says that no process ever stands in front
of a false one. Operators whose comment begins with "Mutant" are plausible
mistakes: each is there to make sure that some property would notice it, and none
is part of a specification.

* **`Log`**, with the abstract **`AtomicDisk`**. Buffers, pins, the in-memory and
  the on-disk header, the log blocks and the home blocks. `commit()` and recovery
  write one block per action; `Crash` may interrupt any of them and leaves the
  block being written torn. `AtomicDisk` is a disk on which a group of
  system calls happens at once; `Atomic` states that `Log` implements it, with
  the disk *after recovery* as the refinement mapping.
* **`Spinlock`**. Every CPU has a thread and an interrupt handler. A step is one
  access to shared memory: `acquire` is `push_off`, `swap`, `set_cpu`; `release`
  clears `lk->cpu`, then `unlock`, then `pop_off`. Interrupts arrive whenever
  they are enabled. Callers nest locks in increasing order.
* **`Proc`**. The slots with their states, `p->lock` and `wait_lock`, the
  schedulers of all CPUs, and the kernel threads of the processes, each at a label
  where it waits for a lock. Locks handed from a process to the scheduler across
  `swtch` are modelled as such.
* **`Alarm`**. One process, its registers (pc, a0, and one register for all the
  others), the trapframe, `alarm_tf` and the alarm fields. `interrupted` is a
  history variable: for each unfinished call of the handler, the registers at the
  alarm, and whether it has armed the alarm again or been overtaken by another one.
* **`Vm`**, with the abstract **`AddressSpace`**. The free list, three-level page
  tables and the bytes of pages. The functions of `vm.c` are operators on a record
  of memory and result; a system call is one step in which any call of `kalloc()`
  may fail. `sys_exec()` fetches the arguments into pages of the kernel, `exec()`
  loads the program headers and lays the arguments out on the new stack.
  `stale_freed` marks the one double free that the code is capable of (section 5);
  the model ends there. `IsAddressSpace` states that each process has a flat memory that only
  its own calls change.
* **`Pipe`**, with the abstract **`Fifo`**. Bytes one by one under `pi->lock`;
  counters wrap at `WRAP`. The test of `killed` and the `sleep()` after it are two
  steps, so that `kill()` may come between them, also in `Console`. `unannounced` is
  a history variable: a killed writer has left bytes without a `wakeup`. `IsFifo` states that `Pipe` implements a bounded queue,
  and that end of file is told only when the write end is closed.
* **`Console`**, with the abstract **`Terminal`**. `cons.buf` with its indices r, w
  and e, the readers and the interrupt handler under `cons.lock`. `IsTerminal`:
  a line can be edited until it ends, and is then read once and in order.
* **`Uart`**. One action per register access; writers and the interrupt handler use
  the transmit ring under `uart_tx_lock`, `uartputc_sync()` uses the device without.
  A key is echoed by none, one or several characters. `panic()` sets `panicked` after
  its message, and whoever then comes to `uartputc()` or `uartputc_sync()` stops there.
* **`Disk`**. Chains of three descriptors, both rings with indices that wrap, the
  interrupt; `fetch` and `complete` are the device, which works on several
  requests and finishes them in any order.
* **`Inode`**. Inodes on disk (type and link count), the inode table (references,
  valid copy, sleep lock), directories as functions from names to inode numbers.
  A process walks its path as `namex()` does and is at a label wherever it waits
  for a lock or has called `iput()`. `iput()` of a last reference takes four
  steps, as the code gives up its locks in between.
* **`Files`**, over **`Mkfs`**, with the abstract **`ByteFiles`**. `Mkfs` computes
  the image that `mkfs` writes, which is the initial state of `Files`: inodes with
  direct and indirect blocks, the bitmap, the root directory. `Files` adds
  `bmap`, `balloc`, `bfree`, `itrunc`, `readi`, `writei`, the file table and the
  descriptors. `close()` is two steps, as `fileclose()` gives up its entry of the file
  table before it puts the inode. `IsByteFiles` states that a file is a sequence of bytes and an open
  file a position shared by `dup()` and `fork()`.
* **`Shell`**, over **`ShellParser`**. The recursive-descent parser against the
  grammar; then init, the shell and the processes of `runcmd()` with their
  descriptors. `fork()`, `exec()`, `open()` and `pipe()` may fail.

`MC*` modules hold the model values and sets of the instances for TLC. Proofs are in
`SpinlockProofs`, `AlarmProofs`, `PipeProofs`, `DiskProofs`, `ProcProofs`,
`LogProofs`, `InodeProofs` and `UartProofs` (section 4).

## 3. What the runs check

| Run | Instance | Shows |
|---|---|---|
| `log` | 2 processes, 3 blocks, 2 contents, 2 power failures; a log of 4, which `log_write()` finds full at 3; calls reserve 2 blocks and write 1 | after any crash and recovery the disk is that of whole groups of system calls (`Atomic`); exactly the logged blocks are pinned (`PinBalance`); who sleeps in `begin_op()` will be woken up (`NoLostWakeup`); no panic |
| `spinlock` | 2 CPUs, a thread and a handler each, 2 locks | mutual exclusion; interrupts off while a lock is owned; interrupt state restored after nesting |
| `proc` | 3 slots, 2 CPUs, 3 pids, `kill()` of the child at any time | one CPU per process, and `sched()` entered with `p->lock` only (`OneCPU`); no process has a dead parent; no lost wakeup; runnable processes run, `exit()` ends, init reaps the zombies it inherits (`ExitEnds`) |
| `alarm` | 2 harts, intervals 0, 1 and 3, in the handler, too; handlers nested twice | the trapframe names the right hart; an alarm overtakes only a handler that has armed the alarm again (`NoReentry`); the alarm is never overdue; the interrupted context comes back except a0, unless the handler was overtaken (`ContextRestored`); the alarm rings again |
| `vm` | 2 slots, 24 pages of 4 bytes, page-table pages of 2 entries, 6 calls, 2 good and 10 bad programs | every page has one owner and no call panics (`PagesOwned`); private flat memories (`IsAddressSpace`); both up to `stale_freed` |
| `pipe` | 2 readers and 1 writer, who may all be killed, 2 places, writes of 1 and 3 bytes, counters wrapping at 4 | the pipe is a bounded queue; nobody sleeps although they could go on, except beside bytes of a killed writer; every write ends |
| `console` | 2 readers, one of which may be killed, 3 places, indices wrapping at 6, every kind of key | the ring is a terminal with line editing; reads end while lines are typed |
| `uart` | 1 writer, 2 bytes at a time, a hart in `printf()` or `panic()`, keys echoed by nothing or by several characters (2), 2 places | the bytes written reach the wire once and in order; every write ends if no hart has panicked |
| `disk` | 3 requests, 7 descriptors, indices wrapping at 14 | descriptors neither lost nor shared; the device touches only what waits for it and no completion is missed; the call returns after the transfer; requests end |
| `inode` | 2 processes with 5 and 6 different calls, root and 2 more inodes, power failures between calls | exact reference counts; link counts cover names, and nothing in use is freed; no panic and `iput()` never blocks; every call ends, unless from some time on one stands before `ialloc()` and no inode is free (`CallEnds`) |
| `files` | 2 processes, a file of `mkfs`, 3 inodes, 13 blocks of 2 cells, 5 calls | the bitmap is exact and no block is shared; no write exceeds its reservation (`OpFits`); byte files with shared offsets (`IsByteFiles`) |
| `shell` | 2 lines; the second is any of up to 2 tokens, any of 3 tokens with a word among them, or one of three longer ones | the parser agrees with the grammar; programs get the files the line says; the foreground is waited for; the prompt comes back unless init cannot start a shell (`PromptReturns`) |

Each property of a run has a mutant of the code's model that violates it.

**Bounds.** Two of everything that can interfere (CPUs, processes, crashes,
readers), and one more where the third makes the difference: a third slot so that
there is a grandchild to hand over to init, a third disk
request so that one waits for descriptors while two complete out of order, and a
second reader so that a wakeup can go to the wrong one. `PIPESIZE`, `INPUT_BUF`,
`UART_TX_BUF_SIZE`, `NUM`, `BSIZE` and `PGSIZE` are small so that full, empty and
wrapped, and every alignment, occur. In `log` a call writes fewer blocks than it
reserves, as `log_write()` panics one block earlier than `begin_op()` reckons with
(section 5), and there are enough blocks for a `begin_op()` that reserves too little to
fill the log. With two processes the `wakeup` of an `end_op()` that leaves another call
in progress (log.c:162) finds nobody asleep; the theorem `LogNoLostWakeup` covers it.
`MAXPID`, `MAXCRASH`, `MAXDEPTH`, `MaxCalls`,
`MaxBytes` and `MaxLeft` bound what the code lets grow; `WRAP` stands for 2^16, 2^32
or, in `Uart`, 2^64 (`WRAP64` in `Vm`). In `inode` one process makes, removes and enters the directory
in which the other one works. In `files` every bit of the bitmap is in a block of its own, so that a
write logs as many blocks as it ever can, and there are blocks enough for
`balloc()`, which panics when they run out, not to.
Symmetry is used only in runs without liveness properties.

**Deadlock** is checked in all runs but five: `inode`, where `ialloc()` panics,
and the kernel really stops, when the inodes have run out (there `CallEnds`
says that nothing else blocks a call for ever); `uart`, where a panic stops every
hart that prints; `shell`, where init stops when its `fork()` fails; and `vm` and
`files`, which end after `MaxCalls` calls.

**Fairness.** Strong fairness stands for spin and sleep locks that are granted to
everyone who keeps asking: the code uses a test-and-set loop and `wakeup` of all
sleepers, so this is an assumption about the hardware and the scheduler, and it is
needed. It is that of `scheduler`, `Obliged` and `yield` in `Proc`, `acquire` in
`Pipe`, `Console` and `Uart`, `Running` and `intr` in `Disk`, `Step` in `Inode`. Timer
interrupts keep coming (strong fairness of `yield` and of the timer actions of
`Alarm`). The kernel finishes what it began, and devices work (weak fairness of the
steps inside a call, of `fetch` and `complete`, of `transmit`). Nothing makes a
user program call the kernel, apart from init's loop around `wait()`, the readers of
a pipe, which keep reading while it is open and close it when all are killed, and
killed processes, which exit. `Console` assumes that somebody types newlines for
ever. The processes of `Shell` go on (weak fairness of `Step`); a program that reads
from a pipe need not end before the pipe's write end is closed everywhere.

## 4. What is proved

TLC covers the instances above; the following theorems hold for every value of the
constants that satisfies the assumptions named. Each invariant is proved along the
same lines: the property is not inductive as it stands, so a stronger invariant is
defined, a lemma per action shows that it is preserved, and the property follows
from it. Where many actions change the state in the same way, a lemma about that kind
of step carries the argument, and the lemmas about the actions only show that they
are of the kind.

**Spin locks** (`SpinlockProofs`), for every set of CPUs and of locks, from
`SpinlockConstants` (locks are numbers, so that "increasing order" means something,
and `NoCPU` is not a CPU):

* `TypeCorrect`, by itself inductive.
* `Exclusion`. `ExclusionInv` adds to `MutualExclusion` that a lock some context owns
  has `locked` set (so a swap that returns 0 finds no owner), and that a context on
  its way out of `release` has no second claim on the lock.
* `InterruptSafety`, `InterruptsRestored`. `IntrInv` says what `noff` counts: the
  locks held by the context that runs, plus one inside `acquire` or `release`; that
  a busy context has interrupts off and is the one that runs; and that `intena`
  remembers the state that the thread had chosen. It needs the cardinality of
  the set of held locks.
* `HoldingIsExact`, `PanicFree`. `OwnerInv` says that `lk->cpu` is c exactly
  when some context of c holds the lock.

**Alarms** (`AlarmProofs`), for every set of harts, register contents and intervals,
from `AlarmConstants`:

* `TypeCorrect`, `HartidIsFresh`, `AlarmIsOnTime`.
* `NoReentrantAlarm` and `ContextIsRestored`, for any depth of nesting. `AlarmInv` relates
  three things: of the unfinished calls of the handler all but the innermost have been
  overtaken; as long as the innermost one has not, `alarm_tf` holds the registers
  of its point of interruption; and as long as it has not armed the alarm again,
  `in_alarm_handler` is set or the alarm is off.

**Processes** (`ProcProofs`), for any number of slots, CPUs and pids, from
`ProcConstants`:

* `ProcInvariant`. `IInv` says at which labels a process in each state can be
  (`States`), that exactly the RUNNING processes, and zombies that have not yet
  reached the scheduler, are on a CPU (`Running`), who holds which lock (`Locks`),
  that a child being made belongs to one `fork()` (`Forking`, `ForkDistinct`), that
  parents are alive (`Family`), and what `exit()` and `wait()` know while they hold
  `wait_lock` (`LateExits`, `Scanned`). The kinds of steps are: a thread goes to
  another label (`LabelStep`), forks (`ForkStep`), begins or ends a loop over the table
  (`CallStep`), exchanges one lock for another (`SwapStep`), is switched to or from
  (`SwtchStep`), or changes the state of another process (`WakeStep`).
* `ProcOneCPU`, `ProcParentAlive`.
* `ProcNoLostWakeup`: no parent sleeps in `wait()` beside a zombie child, unless the
  `wakeup()` that will find it is under way. The strengthening `NoneLost` includes
  parents that are on their way to sleep. It is here that `wait_lock` matters:
  `exit()` holds it from `wakeup()` to the ZOMBIE state, `wait()` from its scan to
  `sleep()`.

**Log** (`LogProofs`), for any number of blocks, contents, processes and
power failures, from `LogConstants` and `LogSentinels`:

* `LogInvariant`. `LogInv` has four parts besides types: `log.outstanding` counts the
  calls and one process at most commits (`Calls`); the header on the disk is the one
  in memory between the two writes of a commit and in recovery, and empty otherwise
  (`Headers`); a block is pinned, once, from `log_write()` to its installation
  (`Pins`); and buffers, log blocks and home blocks hold what recovery would restore
  (`Data`).
* `LogPinBalance`, from `Pins`.
* `LogAtomic`: `Log` implements `AtomicDisk`. The mapping is the disk after recovery
  (`Recovered`) and the contents that a call sees (`Seen`). Every step of a commit but
  the write of the header is a stutter, and so is every power failure and every step
  of recovery as far as the recovered disk is concerned.
* `LogNoLostWakeup`, assuming `MAXOPBLOCKS <= LOGSIZE`: a process sleeps in
  `begin_op()` only while there is a commit or a call to wait for.
* `LogNoPanic`, assuming `OPBLOCKS < MAXOPBLOCKS` and
  `LOGSIZE + OPBLOCKS + 1 < NLOG + MAXOPBLOCKS`. `Reserved` says that the log has
  room for all blocks that the calls in progress have reserved and not yet written;
  it counts pairs of a call and a block. `log_write()` compares with `log.size - 1`,
  one less than what `begin_op()` hands out, so calls have to leave that much of their
  reservation; with the numbers of `param.h` and `mkfs.c` (`LOGSIZE = NLOG = 30`,
  `MAXOPBLOCKS = 10`) a call may write up to 8 blocks.

**Pipes** (`PipeProofs`), for any sets of readers and writers, any bytes, `PIPESIZE`
and lengths, and counters whose range is a multiple of `PIPESIZE` (`PipeConstants`):

* `PipeInvariant`. `PipeInv` says that the counters are at most `PIPESIZE` apart
  although they wrap, and where readers can be when the write end is open.
* `PipeIsFifo`: the ring implements the bounded queue `Fifo`, with the bytes between
  the counters as the queue, and end of file is told only when the write end is
  closed. The lemmas on `%` with a symbolic modulus are the core of it.
* `PipeNoLostWakeup`, whoever is killed: readers may sleep beside bytes only when a
  killed writer has left them without a `wakeup` (section 5). `Asleep` adds
  that what made a process call `sleep()` still holds when it sleeps, as it holds
  `pi->lock` in between, and that a writer owes the readers a `wakeup` only for bytes
  it has written.

**Disk driver** (`DiskProofs`), for any set of requests, any number of descriptors and
any range of the indices that it divides (`DiskConstants`, `DiskSentinels`):

* `DiskInvariant`. `DiskInv` says that the chains of three partition the descriptors
  that are not free (`Chains`), what the label of a call says of its request and of
  `vdisk_lock` (`Labels`), that a published request is in exactly one of the avail
  ring, the device and the used ring, each once (`Places`), and that an entry of the
  used ring that has not been seen has an interrupt to come (`Reported`).
* `DiskDescriptorsOwned`, `DiskDeviceSafe`, `DiskTransferredFirst`. That the rings never
  overflow is not assumed: a request takes three descriptors, and the entries of a
  ring are different requests, so there are fewer than `NUM` (lemma by cardinality).

**Inodes** (`InodeProofs`), for any finite set of processes, any calls, names and
paths (`.` and `..` among them), any number of inodes and table entries
(`InodeConstants`):

* `InodeInvariant`. `IInv` says which of a process's pointers to inodes are set at each
  label (`Shape`); that it has locked exactly those inodes that its label says, and
  none for two reasons (`Locks`); that a valid copy in the table is the inode on disk
  and not free, but for the one inode that an `iput()` has just freed (`Table`); and
  that `ref` is the number of pointers.
* `InodeRefExact`. An action moves the pointers of one process, so the counts stay
  exact when `ref` changes by the difference of that process's own pointers
  (`CountStep`). `iput()` finds `ref = 1` only if nobody else points to the inode
  (`Alone`), and who has an inode locked points to it, so `acquiresleep()` finds the
  lock free although `itable.lock` is held. That nothing is assumed about the calls
  makes this cover all error paths of `sysfile.c` that the module has.

**Console output** (`UartProofs`), for any number of writers, any size of the ring that
divides the range of the indices, any numbers of characters that keys are echoed by,
and at most `NCPU` harts in `printf()` or `panic()` (`UartConstants`):

* `UartInvariant`. `UInv` says that the holder of `uart_tx_lock` is the one in
  `uartputc()` or `uartstart()` (`Mutex`); that at most one byte of `write()` is on
  its way, in the FIFO or in `uartstart()`, and the ring goes on after it (`Wire`);
  that the places between the indices hold the bytes with these numbers (`Ring`); and
  that the FIFO has room for everyone who has seen LSR_TX_IDLE (`Room`).
* `UartOutputInOrder`. `Room` is the reason that `uartputc_sync()` can do without the
  lock: everyone who writes to THR has seen the FIFO empty, one byte each, so it never
  holds more than one byte per hart in `printf()`, one of the interrupt handler and one
  of `uartstart()`, 10 with `NCPU = 8`, and it has 16 places. With the FIFOs off a byte
  would be lost.

### What is only model-checked

* Liveness (`ExitEnds`, `AlarmRepeats`, `WriteEnds`, `ReadEnds`, `RequestEnds`,
  `CallEnds`, `PromptReturns`): fairness and ENABLED are beyond this prover.
* `Vm` and `Shell` (`PagesOwned`, `IsAddressSpace`, `ForegroundDone`, `ProgramFiles`,
  `ParsesLine`): their algorithms are recursive operators, in whose presence the
  prover has no SMT backend, and what they compute takes induction over data.
* `LinksCover` and `NoPanic` of `Inode` do not hold for every value of the constants:
  with paths through `..` of a directory that has been removed, an inode can be freed
  while it is named (section 5). They hold for the calls of the run, which have no
  such path.
* `BlocksOwned`, `OpFits` and `IsByteFiles` of `Files`: its block map and bitmap are
  computed by folds, and what a fold computes takes induction over data.
* `IsTerminal` of `Console` is within reach of the same means as `IsFifo` of `Pipe`, with
  three indices instead of two, and is not proved yet.

## 5. Where the code departs from what it says

Reproducible by changing an instance or a property; the runs above keep out of these cases
or except them in the property.

* `MCAlarm` with `PROPERTY AllRestored`: fails. `sigreturn()` loses a0, as `syscall()`
  stores the call's result in the frame that has just been restored.
* `MCAlarm` with the invariant that no handler is `overtaken`: fails. `sigalarm()` in the
  handler clears `in_alarm_handler` (sysproc.c:112), and the next alarm interrupts the
  handler and overwrites `alarm_tf`. `NoReentry` says that this is the only way.
* `MCVm` with `INVARIANT Owned`: fails. `freeproc()` does not clear
  `p->alarm_tf`; when the slot is used again and the first `kalloc()` of `allocproc()`
  fails, the page is freed a second time (`stale_freed`).
* `MCLog` with `OPBLOCKS = 2` and `INVARIANT ReservationHonoured`: fails. `begin_op()` hands out
  `LOGSIZE` blocks (log.c:133), `log_write()` panics one block earlier
  (log.c:220), as `mkfs` counts the header in `nlog`. `LogNoPanic` says how much
  of its reservation a call must leave.
* `MCProc` with `PROPERTY KilledExits`: fails. A `kill()` between `wait()`'s test and
  its `sleep()` (proc.c:437) wakes nobody up.
* `MCProc` with `KillPids = {0}`: `KilledFresh` fails. `kill(0)` marks an unused
  slot (proc.c:602), and the next process made there starts out killed.
* `MCPipe` with `NoLostWakeup` less its disjunct `unannounced`: fails. A killed writer
  returns without a `wakeup` for the bytes it has written (pipe.c:84).
* `MCInode` with `INVARIANT FreedWhenUnused`: fails. `iput()` gives its locks up before
  it counts the reference down; an inode that is allocated and unlinked again in that
  window is never freed.
* `MCInode` with `INVARIANT LinksNamed`: fails. A file created in a directory that
  is being removed keeps its link for ever.
* `MCInode` with `Calls <- DotDotCalls`: `NoPanic` fails. `..` of a removed
  current directory names an inode that has been freed.
* `MCFiles` with two files given to `mkfs`: `BlocksOwned` fails. When its entries fill the
  last block of the root directory, `mkfs` still rounds its size up (mkfs.c:166), by a
  block that it does not have; `readi()` then allocates one outside of a transaction.

Worth knowing, though no document says otherwise: `itrunc()` fits into one transaction
only because the bitmap of this file system is one block; a `write()` that meets an
unmapped address may have replaced bytes behind those it reports (`ByteFiles` calls
them torn); an inode that is open when the power fails after its last name is gone
stays allocated.

## 6. Hazards

`PROJECT.json` lists, at the line where each bites, what could go wrong in a way a
test would hardly reach, and the properties that watch it: lost wakeups and lock
hand-over in `proc.c`, crashes between the writes of a commit and inside recovery,
wrap-around of counters and indices in `pipe.c`, `console.c`, `uart.c` and
`virtio_disk.c`, the device racing the driver, references and links of inodes under
concurrent removal, blocks freed and used again, allocation that fails halfway,
descriptors shared by `dup()` and `fork()`, ends of pipes that keep a pipeline alive,
and alarms that arrive in the handler or after a migration.

## 7. What is not modelled

* The formatting of `printf`, `backtrace`, string functions, the PLIC, boot, the kernel's own page table:
  no shared state, straight-line code, or register accesses only. What boot leaves
  behind is the `Init` of each module. `ramdisk.c` is not part of the build.
* The order of the buffer cache's LRU list: any unused buffer may be recycled.
* Weak memory ordering: the code puts a fence wherever the models assume an order.
* Page faults and other faults of user programs, which only set `p->killed`.
* `exec()` with an armed alarm, and `fork()` inside a handler.
* `gettoken()`, which cuts the shell's line into tokens; the magic number of an
  executable file, and the name of the process that `exec()` sets.
* The user library and the user programs other than init and the shell.
