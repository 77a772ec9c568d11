# A verification of the kernel, its file system and its shell

TLA+ modules for the xv6-riscv variant in this repository. The variant replaces the scan
of the process table by linked lists: one runnable list per CPU, and one list each for
unused, sleeping and zombie processes. Every module is translated from the C code that
`PROJECT.json` ("map") names, definition by definition.

## The system and its modules

| Part | Source | Module | State | What makes it hard |
|---|---|---|---|---|
| process lists | `proc.c` 61-154 | `ProcListSpec`, `ProcList` | `first`, `next_index_in_list`, list lock, `stateLock` | the list lock is dropped after the first hop, walks overlap, the removal loop has no end test |
| processes, scheduler, traps | `proc.c`, `trap.c`, `sysproc.c` | `Proc` | `struct proc`, `struct cpu`, locks, lists | lost wakeups, orphans, kill races, lock order, one process on two CPUs |
| log | `log.c` | `LogSpec`, `Log` | header, log and home blocks, cache, `outstanding`, `committing` | group commit, a crash at any write, reservations |
| buffer cache, sleep locks, disk driver | `bio.c`, `sleeplock.c`, `virtio_disk.c` | `BlockSpec`, `Bio` | buffers, LRU list, sleep locks, descriptors, rings | recycling, two misses of a block, descriptors running out, completions against acknowledgements |
| spinlocks | `spinlock.c` | `Spinlock` | `locked`, `cpu`, `noff`, `intena`, interrupt enable | an interrupt between any two instructions |
| inodes, directories, file system calls | `fs.c`, `sysfile.c` | `Fs` | inodes on disk and in the table, entries, bitmap, cwd | reference and link counts through every error path, removal against use |
| file table, pipes | `file.c`, `pipe.c` | `Streams` | `ref`, descriptors, pipe buffers, processes | close against sleep, inherited descriptors |
| console, UART | `console.c`, `uart.c` | `Console` | input line, transmit ring, FIFO, interrupts | ring indices, sleepers, a full buffer |
| memory | `kalloc.c`, `vm.c`, `exec.c` | `Vm` | free list, page tables, page contents | failure half way through a call |
| copies, paths | `vm.c`, `string.c`, `fs.c` | `UserCopy` | none: operators | page boundaries, overlap, limits |
| user allocator | `umalloc.c` | `Umalloc` | circular free list | joining neighbours, gaps |
| shell, init, cat, echo | `sh.c`, `init.c`, `cat.c`, `echo.c` | `Shell`, and `Streams` to run it | none: operators | grouping, closing every copy of a pipe end |

The parts interact through `sleep()`/`wakeup()`, locks and calls. `Proc` models these for
`wait()`, `sys_sleep()` and the disk; `Bio`, `Log`, `Streams` and `Console` each have their
own sleepers, as `sleep()` is one step in which the lock is released and the process sleeps.
`Proc` uses atomic lists, which `ProcList` implements. `Log` has a small view of the buffer
cache, whose full version is `Bio`. `Fs` relies on `Log`: a call's changes to the disk are
one transaction. `Shell` makes a script of system calls, which `Streams` runs.

As built (`CPUS=3`, `BLNCFLG` 0) every process is made runnable on CPU 0: `setcpu()` has no
caller, `fork()` uses the parent's `cpu_num`, `wakeup()` uses CPU 0. The other CPUs run only
the scheduler and device interrupts. The models keep `setcpu`, so that the code is also
checked with processes on several CPUs.

### How state and actions correspond to the code

* One action is one section under a spinlock, or one step that other CPUs can see. A CPU that
  holds a spinlock is not preempted; other CPUs and devices run in between.
* `ProcList`: an action per `acquire()` that runs to just before the next one. The caller
  holds `p->lock` of the process it moves (`AcquireProc`, `ReleaseProc`). `content` is a
  history variable that only the callers' contract reads.
* `Proc`: `proc` has the table entry with the position `pc` of its kernel thread (`loc` is the
  loop variable or the other process of `fork`, `wait`, `exit`, `kill`; `yl` the position in
  `yield()`); `cpu` has `c->proc`, the position of `scheduler()`, the interrupt being handled
  and the loop of `wakeup()`. Locks taken and released in one action (`pid_lock`, the locks
  of the sleeping and zombie lists) have no variable; those of the unused and runnable lists
  are kept, being held while a `p->lock` is waited for. `ticks` is kept as the ticks each
  sleeper has left.
* `Log`: a step per section under `log.lock`, per `bread()` and per block written; `Crash`
  between any two, also during recovery.
* `Bio`: `bget()` with its LRU order, each step of the sleep locks, `virtio_disk_rw()` from
  `alloc3_desc()` to `free_chain()`, the device (external), and the handler instruction by
  instruction where the device can interfere.
* `Spinlock`: the instructions of `acquire()`, `release()`, `push_off()` and `pop_off()`, for
  a thread and an interrupt handler on each CPU. Locks are taken in the order of their numbers,
  and `push_off()` without a lock (`myproc()`) with any of them held.
* `Fs`: a step per inode lock, table section or block change of each call; `panic` stops the
  system. The copies of `readi()` and `writei()` from and to user memory may fail.
* `Streams`, `Console`, `Vm`, `Umalloc`: a step per section, system call part or library call.

Definitions whose comment starts with "Variant" are deliberately wrong versions of the
definition that follows. They are not part of a specification; each shows that a property
fails when the code is changed that way.

## Runs

| Run | Instance | Shows |
|---|---|---|
| `MCProcList` | 4 processes, 2 lists, 2 CPUs | through the pointers alone each list call is atomic (`ImplementsLists`); `RemoveFindsTarget`; the inductive invariant `IInv` |
| `MCProcLife` | 3 entries, 2 CPUs; fork, exit, wait, and a setcpu of init; pids to 3 | `ParentsLive` over several generations; `NoSpinCycle`: the only spinlock deadlock is that of two `allocproc()`, which happens here, so deadlock is not checked |
| `MCProcCalls` | 2 entries, 2 CPUs; all calls, sleep arguments 0, 1 and negative, failing memory | `RunsOnce`, `ListsMatchState`, `NoLostWakeup` for each of the three sleeps, `LifeCycle`. A panic stops the system, so deadlock is not checked |
| `MCProcLive` | 2 entries, fair | `SleepersReturn`, `KilledAreReaped` |
| `MCLog` | 2 blocks, 2 contents, 2 processes, fair | the log implements `LogSpec` (`CrashSafe`); the inductive invariant `LogInv`; `SleepersWoken` |
| `MCBio` | 3 processes, 2 buffers, 3 blocks, 5 descriptors, fair | the cache implements `BlockSpec` (`Coherent`); `BioInv`, `NeverOutOfBuffers`, `SleepersHaveWaker`, `DescWaitEnds` |
| `MCFs` | 2 processes, 3 inodes, 4 blocks, five sets of calls, failing copies | `InodesCached`, `RefsCounted`, `OpenStaysAllocated`, `LinksSound`, `BlocksPartition`, `NoLockCycle` |
| `MCParts` | the parts that share no state, chosen by the first state | `StreamsSound`, `Outcome`, `ShellTerminates` (six scripts); `ParsesGrammar` (lines to 4 tokens, trees of depth 2); `CopiesExact`; `HeapSound`; `ConsoleSound`, `InputDelivered`, `ConsoleFlows`; `PagesPartition`, `ImagesKept`; `LockInv`, `MutualExclusion`; `NeverTooBig` (three calls at once); `ChainsSound` (several requests at once) |

Four runs show a disagreement between the code and what is written about it:

* `MCProcAlloc`: a failed allocation in `fork()` reaches `freeproc()`, which takes the process
  off the zombie list it is not on, and panics or walks off the list.
* `MCProcBalance` (`BLNCFLG` 1): `leastUsedCpu()` returns a count, used as a CPU index.
* `MCProcKillZero`: `kill(0)` matches unused entries and marks one.
* `MCFsOrphan`: `iput()` frees the inode, drops its lock and only then counts down `ref`; the
  inode can be allocated, unlinked and put again in between, and then nobody frees it.

**Bounds.** `NPROC` 2 to 4 gives lists with a head, a middle and a tail, so that every branch of
the walks happens. With three entries two `fork()`s on two CPUs can be in `allocproc()` for the
same entry; `InitMoves` keeps that instance small: init moves to the second CPU before it
forks, and nobody else moves (`MCProcCalls` has no such bound). `MaxPid` bounds forks and allows an entry to be reused. `TickMod` stands for
2^32 and lets a negative argument wrap. Two processes and two blocks in `Log` give absorption,
group commit and a crash with some blocks installed. In `Bio`, three processes on two buffers
make misses recycle and wait, and 5 descriptors serve one request at a time, 8 two. `Fs` has
one direct and one indirect block, so that a copy can fail after `bmap()` gave the file either,
and a write to the second after that; the sets of
calls in `MCFs` put each pair of calls that share an inode against each other. `PIPESIZE`,
`INPUT_BUF` and `UART_TX_BUF_SIZE` are 2, so that buffers fill and wrap. `Vm` has pages for
about two small processes, so that every allocation of a call fails in some behaviour.

**Fairness.** A CPU keeps executing (weak fairness of its steps). A tick is longer than a
handler, so the interrupted scheduler or process gets its turn (strong fairness of
`SchedStep` and of each process). A pending clock interrupt is taken. `user/init.c` loops
around `wait()`. In `Log`, calls that began end, and commits and recovery proceed. In `Bio`,
`Console` and the shell, as long as some process, handler or device can go on, one of them
does. `MCProcLive` has no disk requests: with them spinlock acquisition, which is not fair in
the code, would need a fairness assumption of its own.

## Proofs

TLAPS checks every theorem below for all values of the constants that the named `ASSUME`s
allow; TLC checks the same definitions on the instances above. A leaf that names no prover is
proved by Zenon (`USE ZenonT(60)`); one that needs arithmetic or many equalities names SMT.

**The list code** (`ProcListProofs`; any `NPROC`, lists and CPUs). `Linearizable`: the
hand-over-hand code implements the atomic lists of `ProcListSpec`. `PointersEncodeLists`,
`RemoveIsSafe` (`RemoveFindsTarget`), `TypeCorrect`. That the pointers encode the lists is not
inductive by itself. `IInv` adds: a process is at one place only (`Distinct`); only elements of
lists are locked (`LockedOnList`); a walking CPU holds the `stateLock` of its element, which is
on the list, and its `nxt` is that element's successor (`Walking`); the target of a removal is
behind the walk (`TargetAhead`), because nobody can pass or unlink a locked element and only
the holder of the target's `p->lock` may remove it. `OtherCpuAppend` and `OtherCpuRemove` show
that another CPU's walk survives a change of the list.

**Processes and scheduler** (`ProcInv`, `ProcSteps`, `ProcWake`, `ProcProofs`; any number of
CPUs and table entries, any calls, killed pids, sleep times, and failing memory or not).
The theorems assume `~BLNCFLG`, the Makefile's default: with it `leastUsedCpu()` returns a count
that is used as a CPU index, which on one CPU names a list that does not exist (see the notes).

* `ProcInvariant`: `ProcInv` is inductive. It says of every CPU and thread where it is in the
  code and what follows: the locks a CPU holds are exactly those its position implies
  (`LocksOK`); a thread's position fits the state of its process (`ThreadOK`); what `fork()`,
  `wait()` and `kill()` know of the process they work on (`WorkOK`, `ForksApart`); what
  `scheduler()`, an interrupt and `wakeup()` know (`CpuOK`); a process is current on one CPU
  at most (`OneCpu`), and is on the list of its state, once, unless a CPU that holds its lock is
  about to move it (`Listed`, `ListedOnce`). Module `ProcInv` states it and what follows from it.
  In `ProcSteps` the lemma `Assemble` reduces a step of CPU c to c and the processes it changes,
  which no other CPU holds or runs; one lemma per action follows. The steps with which `fork()`,
  `wait()` and `kill()` move another process, and the theorems, are in `ProcProofs`.
* `ListsRight` (`ListsMatchState`) and `RunsRight` (`RunsOnce`) follow from it: the lists agree
  with the states whenever a process's lock is free, and no process runs twice.
* `WakeInvariant`: `WakeInv` is preserved by every step from a state that satisfies `ProcInv`.
  It says that parents live and how far `reparent()` has come (`FamilyOK`); what a `wait()` in
  its scan has passed, that one asleep has no zombie unless it is init and `reparent()` has still
  to wake it, and that `exit()` wakes its parent before it is a zombie (`WaitOK`); and that a
  sleeper of `sys_sleep()` or the disk has its condition still false or a `wakeup()` that has not
  passed it (`TimeOK`, `DiskOK`, `ChanOK`).
* `ParentsRight` (`ParentsLive`) and `WakeupsRight` (`NoLostWakeup`) follow: while the lock of
  the condition is free no `wakeup()` is under way, so that the exceptions are gone.
* `LifeCycleRight` (`LifeCycle`): no step moves a state other than along an edge. It needs
  `ProcInv`: that a process on a runnable list is RUNNABLE when `scheduler()` has its lock, that
  `allocproc()` still has an UNUSED entry after it waited for the lock, that a thread that
  sleeps, yields or exits is RUNNING.

`ProcInv` and `WakeInv` are no invariants of a run; they were model-checked on the instances
of `MCProcLife` and `MCProcCalls` before they were proved.

**Spinlocks** (`SpinlockProofs`; any CPUs and locks). `LocksInvariant`, `LocksExclude`
(`MutualExclusion`), `LocksNest`, `LocksSafe`. `LockInv` counts, for every CPU, the `push_off()`
calls of its frames that are not popped, and says that `noff` is this number, that interrupts
are off while it is not 0, and that a lock's holder is inside it.

**Log** (`LogProofs`; any blocks, contents, processes and sizes). `LogInvariant`,
`LogKeepsPromise` (`CrashSafe`: `Log` implements `LogSpec`), `LogCommitsAlone`,
`LogSleepersWaited`, `LogQuiescent`, and `LogHasRoom`. `LogInv` links the header in memory, the
header and the log on disk, the cache and the position of the commit: before the header is
written the home blocks are the old state; afterwards home blocks overlaid with the log are the
new one, whichever of them are installed. `LogHasRoom` assumes `LogRoom`: a call logs fewer
blocks than `begin_op()` reserves, and the log has a block for each. The code's values (10, 30,
30, at most 7 blocks in a call) satisfy it. Without it `log_write()`, which tests for a full log
before it looks for absorption, can panic on a block that is already logged; and `log.size` =
`LOGSIZE` leaves one block fewer than `begin_op()` counts on.

**Buffer cache and disk driver** (`BioProofs`; any processes, buffers, blocks and at least 3
descriptors). `BioInvariant`, `BioCoherent` (`Coherent`: implements `BlockSpec`),
`BioSleepersWaited`, `BioBuffersLeft`, `BioDescriptors`. `BioInv` says that a block has one
buffer, that `refcnt` is the number of processes using it and pins, that a sleep lock has one
holder, that a request in progress belongs to the holder of its buffer and owns three
descriptors, and that a valid buffer that nobody writes agrees with the disk.

**Only model-checked.** All liveness: fairness is outside the prover. `NoSpinCycle`. The refinement through `Chain`, which follows the
pointers (the proof goes through `Encoded` instead). `Fs`, and `Streams`, `Shell`, `Console`,
`Vm`, `UserCopy` and `Umalloc`: they fold over sequences, trees and paths or use recursive
operators, about which the prover has no induction; their invariants hold on the instances.

## Notes on the code without a run

* `allocproc()` (`proc.c` 271) keeps the unused list locked while it waits for the head's
  `p->lock`, then takes the list lock again holding `p->lock`. Two CPUs in `fork()` at once can
  wait for each other for ever (`AllocCycle`). It needs processes on two CPUs, which the build
  does not have. `NoSpinCycle` says that every cycle of spinning CPUs is this one; in
  `MCProcLife` it is reached.
* `wakeup()` always uses CPU 0 where the assignment text (3.1.3) asks for the CPU the process
  last ran on, and `fork()` leaves the child's `cpu_num` as the entry had it. `setcpu()`
  records the CPU but does not yield.
* With `BLNCFLG`, `leastUsedCpu()` is 0 for good on two CPUs or more: only `cpus[0].procCount`
  is ever counted up, so the smallest count stays 0 and every process goes to CPU 0. On one CPU
  the count is 1 after the first admission, an index beyond `NCPU`.
* An entry made in a directory that has been removed strands its inode: it stays linked from a
  directory nobody can reach (`stranded` in `Fs` sets such inodes apart).
* `..` of a removed directory may name a freed inode; `ilock()` then panics with "no type".
* `MCFs` has as many table entries as inodes, so that `iget()` never lacks one.
* The shell's `>>` opens without appending.
* `uartputc_sync()` writes the transmit register without `uart_tx_lock`; the FIFO makes up for it.
* `NoLockCycle` in `MCFs` covers two processes.
* `MCParts` has a log that does not satisfy `LogRoom`; its calls log one block each, and
  `NeverTooBig` holds there by TLC.

## Not modelled

* Register saving, `swtch()`, boot, the PLIC, `uartinit()`, the feature negotiation of
  `virtio_disk_init()`, the kernel's own page table: executed once, or without shared state.
* `stati()`, `filestat()`, `procdump()`, `printf()`, argument fetching, and failing copies
  of the console (`consoleread()` and `consolewrite()` do not fail in `either_copyout()` and
  `either_copyin()`).
* A request that the disk completes with an error: `virtio_disk_intr()` panics on it, and the
  device of `Bio` serves every request.
* `sched()` saving and restoring `intena` is not in `Spinlock`.
* `exec()` of an image of size 0, and `sbrk()` below zero.
* The shell's `cd`, its messages on descriptor 2, and `nulterminate()`.
* Other user programs and the test programs: sequential clients of the system calls.
