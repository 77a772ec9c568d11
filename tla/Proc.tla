-------------------------------- MODULE Proc --------------------------------
(***************************************************************************)
(* The life of a process in kernel/proc.c: fork, exit, wait, kill, sleep,  *)
(* wakeup, yield and the per-CPU scheduler, with the timer interrupt of    *)
(* kernel/trap.c, and sys_sleep() and the disk wait as clients of sleep(). *)
(*                                                                         *)
(* One action per acquire(): it takes the lock and runs to just before the *)
(* next acquire(), releases included.  A lock that is taken and released   *)
(* within one action (pid_lock, the locks of the sleeping and zombie       *)
(* lists) needs no variable.  The lists are the atomic lists of            *)
(* ProcListSpec, which ProcList implements; the locks of the unused and    *)
(* runnable lists are kept, because allocproc() and scheduler() hold them  *)
(* while they wait for a p->lock.  A CPU that holds a lock has interrupts  *)
(* off; a process that holds none can be preempted between any two steps.  *)
(***************************************************************************)
EXTENDS Integers, Sequences

CONSTANTS NCPU,         \* CPUs 0 .. NCPU-1, all running scheduler()
          NPROC,        \* size of the process table; entry 0 becomes init
          BLNCFLG,      \* the Makefile's switch for the balancer
          Calls,        \* the system calls user code makes
          KillPids,     \* the pids user code passes to kill()
          SleepArgs,    \* the arguments user code passes to sys_sleep()
          TickMod,      \* 2^32 in the code: ticks is an unsigned int
          MaxPid,       \* bound: fork() is not called once nextpid exceeds it
          MemMayFail    \* may kalloc() and uvmcopy() fail in fork()?

ASSUME ProcAssumption ==
  /\ NCPU \in Nat \ {0} /\ NPROC \in Nat \ {0} /\ TickMod \in Nat \ {0}
  /\ MaxPid \in Nat /\ SleepArgs \subseteq Int /\ KillPids \subseteq Nat
  /\ BLNCFLG \in BOOLEAN /\ MemMayFail \in BOOLEAN
  /\ Calls \subseteq {"fork", "exit", "wait", "kill", "sleep", "disk", "setcpu"}

Cpus == 0 .. NCPU - 1
Procs == 0 .. NPROC - 1
InitProc == 0
Nil == -1
NoCpu == -1

\* Locks and lists, named by kind and index.
PLock(p) == <<"proc", p>>
WaitLock == <<"wait", 0>>
TicksLock == <<"ticks", 0>>
DiskLock == <<"disk", 0>>
Unused == <<"unused", 0>>
Zombie == <<"zombie", 0>>
Sleeping == <<"sleeping", 0>>
Runnable(c) == <<"runnable", c>>
ListNames == {Unused, Zombie, Sleeping} \cup {Runnable(c) : c \in Cpus}
LockNames == {WaitLock, TicksLock, DiskLock, Unused}
             \cup {Runnable(c) : c \in Cpus} \cup {PLock(p) : p \in Procs}

\* Sleep channels: a process (wait), the tick counter, a process's disk buffer.
TickChan == NPROC
BufChan(p) == NPROC + 1 + p
Chans == 0 .. 2 * NPROC

\* Where a kernel thread can be.
Labels == {"none", "forkret", "user", "sysret", "panic", "wild",
           "fork", "fkLock", "fkTake", "fkFail", "fkParent", "fkReady", "fkAdmit",
           "sleep", "slTest", "slSleep", "slAsleep", "disk", "dkTest", "dkSleep", "dkAsleep",
           "wait", "wtScan", "wtFree", "wtSleep", "wtAsleep",
           "exit", "exReparent", "exZombie", "kill", "klAdd", "setcpu"}

VARIABLES
  \* struct proc: state, chan, killed, pid, parent, cpu_num; and its kernel
  \* thread: pc, the table index loc it works on, the pid tgt it kills, its
  \* progress yl in yield(), the ticks left to sleep, its buffer's disk flag
  proc,
  \* struct cpu: proc, procCount; and where scheduler() is (sched, pick), the
  \* interrupt it serves, and wakeup()'s stage wk, index wi, channel wchan
  cpu,
  lock,         \* the CPU that holds each spinlock, or NoCpu
  list,         \* the processes on each list
  nextpid

vars == <<proc, cpu, lock, list, nextpid>>

\* procinit() and userinit(): init is runnable on CPU 0, the rest unused.
Init ==
  /\ proc = [p \in Procs |->
       [state |-> IF p = InitProc THEN "RUNNABLE" ELSE "UNUSED",
        pid |-> IF p = InitProc THEN 1 ELSE 0,
        chan |-> Nil, killed |-> FALSE, parent |-> Nil, cpu_num |-> 0,
        pc |-> IF p = InitProc THEN "forkret" ELSE "none",
        loc |-> Nil, tgt |-> 0, yl |-> "none", left |-> 0, disk |-> FALSE]]
  /\ cpu = [c \in Cpus |-> [proc |-> Nil, procCount |-> 0, sched |-> "loop", pick |-> Nil,
                            intr |-> "none", wk |-> "none", wi |-> 0, wchan |-> Nil]]
  /\ lock = [k \in LockNames |-> NoCpu]
  /\ list = [k \in ListNames |-> IF k = Unused THEN [i \in 1 .. NPROC - 1 |-> i]
                                 ELSE IF k = Runnable(0) THEN <<InitProc>> ELSE << >>]
  /\ nextpid = 2

-----------------------------------------------------------------------------
(* Helpers                                                                 *)

Free(k) == lock[k] = NoCpu
Acquire(c, k) == Free(k) /\ lock' = [lock EXCEPT ![k] = c]
Release(k) == lock' = [lock EXCEPT ![k] = NoCpu]
Holds(c) == {k \in LockNames : lock[k] = c}

\* The sequence s without p, which occurs in it once.
Without(s, p) ==
  LET i == CHOOSE k \in 1 .. Len(s) : s[k] = p
  IN  [j \in 1 .. Len(s) - 1 |-> IF j < i THEN s[j] ELSE s[j + 1]]

Enlist(k, p) == list' = [list EXCEPT ![k] = Append(@, p)]
Delist(k, p) == list' = [list EXCEPT ![k] = Without(@, p)]

\* CPU c is in kernel code of process p, not in a trap; it is at label there.
InKernel(c, p) == /\ cpu[c].sched = "run" /\ cpu[c].proc = p
                  /\ cpu[c].intr = "none" /\ proc[p].yl = "none"
At(c, p, label) == InKernel(c, p) /\ cpu[c].wk = "none" /\ proc[p].pc = label

\* A thread whose system call is done: its locals are dead.
Done(thread) == [thread EXCEPT !.pc = "sysret", !.loc = Nil, !.tgt = 0]

\* leastUsedCpu(), which returns the smallest count, not the CPU that has it.
leastUsedCpu == LET counts == {NPROC} \cup {cpu[c].procCount : c \in Cpus}
                IN  CHOOSE m \in counts : \A n \in counts : m <= n

\* fork() and wakeup() make process p, now in table entries procs, runnable:
\* with BLNCFLG the balancer chooses its CPU and counts it there.  The CPU
\* whose list it then joins is that one, or dflt without BLNCFLG.
Balanced(procs, p) == IF BLNCFLG THEN [procs EXCEPT ![p].cpu_num = leastUsedCpu] ELSE procs
Counted(cpus) == IF BLNCFLG THEN [cpus EXCEPT ![leastUsedCpu].procCount = @ + 1] ELSE cpus
AdmitTo(p, dflt) == IF BLNCFLG THEN proc[p].cpu_num ELSE dflt

\* The loop of wakeup(): begin it on CPU record r, which index comes next
\* (the current process is skipped), is it over, and end it.
WakeFrom(r, i) == IF i = r.proc THEN i + 1 ELSE i
WakeBegin(r, ch) == [r EXCEPT !.wk = "scan", !.wi = WakeFrom(r, 0), !.wchan = ch]
WakeNext(r) == [r EXCEPT !.wk = "scan", !.wi = WakeFrom(r, r.wi + 1)]
WakeDone(r) == r.wk = "scan" /\ r.wi >= NPROC
WakeEnd(r) == [r EXCEPT !.wk = "none", !.wi = 0, !.wchan = Nil]

-----------------------------------------------------------------------------
(* scheduler()                                                             *)

\* acquire(&c->runnable.lock); an empty list is released again, a stutter.
SchedPeek(c) ==
  /\ cpu[c].sched = "loop" /\ cpu[c].intr = "none" /\ list[Runnable(c)] # << >>
  /\ Acquire(c, Runnable(c))
  /\ cpu' = [cpu EXCEPT ![c].sched = "lock", ![c].pick = Head(list[Runnable(c)])]
  /\ UNCHANGED <<proc, list, nextpid>>

\* Variant: the list stays locked while p is taken off it.
SchedLockKeepsList(c) ==
  LET p == cpu[c].pick
  IN  /\ cpu[c].sched = "lock"
      /\ Acquire(c, PLock(p))
      /\ proc' = [proc EXCEPT ![p].state = "RUNNING"]
      /\ cpu' = [cpu EXCEPT ![c].sched = "take", ![c].proc = p]
      /\ UNCHANGED <<list, nextpid>>

\* acquire(&p->lock), release the list, mark p running.
SchedLock(c) ==
  LET p == cpu[c].pick
  IN  /\ cpu[c].sched = "lock" /\ Free(PLock(p))
      /\ lock' = [lock EXCEPT ![PLock(p)] = c, ![Runnable(c)] = NoCpu]
      /\ proc' = [proc EXCEPT ![p].state = "RUNNING"]
      /\ cpu' = [cpu EXCEPT ![c].sched = "take", ![c].proc = p]
      /\ UNCHANGED <<list, nextpid>>

\* Where a switched-to process goes on: back in the code it was preempted in,
\* out of forkret(), or with sleep()'s lock to take again.
Resume(thread) ==
  IF thread.yl = "off" THEN [thread EXCEPT !.yl = "none"]
  ELSE [thread EXCEPT !.chan = Nil,
                      !.pc = CASE @ = "forkret" -> "user"
                               [] @ = "wtAsleep" -> "wait"
                               [] @ = "slAsleep" -> "slTest"
                               [] @ = "dkAsleep" -> "dkTest"]

\* remove_proc_from_list(&c->runnable, p) and swtch() into p, which resumes
\* in yield(), sleep() or forkret() and releases p->lock.
SchedSwitch(c) ==
  LET p == cpu[c].pick
  IN  /\ cpu[c].sched = "take" /\ Free(Runnable(c))
      /\ Delist(Runnable(c), p)
      /\ Release(PLock(p))
      /\ proc' = [proc EXCEPT ![p] = Resume(@)]
      /\ cpu' = [cpu EXCEPT ![c].sched = "run", ![c].pick = Nil]
      /\ UNCHANGED nextpid

\* Back from p: c->proc = 0, release(&p->lock).
SchedBack(c) ==
  /\ cpu[c].sched = "back"
  /\ Release(PLock(cpu[c].proc))
  /\ cpu' = [cpu EXCEPT ![c].sched = "loop", ![c].proc = Nil]
  /\ UNCHANGED <<proc, list, nextpid>>

-----------------------------------------------------------------------------
(* wakeup(), in process or in interrupt context                            *)

\* One turn: acquire(&p->lock); nothing to do for this process.
WakePass(c) ==
  LET i == cpu[c].wi
  IN  /\ cpu[c].wk = "scan" /\ i < NPROC /\ Free(PLock(i))
      /\ ~(proc[i].state = "SLEEPING" /\ proc[i].chan = cpu[c].wchan)
      /\ cpu' = [cpu EXCEPT ![c] = WakeNext(@)]
      /\ UNCHANGED <<proc, lock, list, nextpid>>

\* One turn: it sleeps on the channel; off the sleeping list, choose a CPU.
WakeTake(c) ==
  LET i == cpu[c].wi
  IN  /\ cpu[c].wk = "scan" /\ i < NPROC /\ Acquire(c, PLock(i))
      /\ proc[i].state = "SLEEPING" /\ proc[i].chan = cpu[c].wchan
      /\ proc' = Balanced([proc EXCEPT ![i].state = "RUNNABLE"], i)
      /\ Delist(Sleeping, i)
      /\ cpu' = Counted([cpu EXCEPT ![c].wk = "add"])
      /\ UNCHANGED nextpid

\* add_proc_to_list(): to CPU 0, or where the balancer says.
WakeAdd(c) ==
  LET i == cpu[c].wi
      t == AdmitTo(i, 0)
  IN  /\ cpu[c].wk = "add" /\ Free(Runnable(t))
      /\ Enlist(Runnable(t), i)
      /\ cpu' = [cpu EXCEPT ![c] = WakeNext(@)]
      /\ Release(PLock(i))
      /\ UNCHANGED <<proc, nextpid>>

-----------------------------------------------------------------------------
(* Interrupts.  They arrive only while the CPU holds no lock.              *)

Interruptible(c) ==
  /\ cpu[c].intr = "none" /\ cpu[c].wk = "none" /\ Holds(c) = {}
  /\ \/ cpu[c].sched = "loop"
     \/ /\ cpu[c].sched = "run" /\ proc[cpu[c].proc].yl = "none"
        /\ proc[cpu[c].proc].pc \notin {"panic", "wild"}

\* Variant: no look at p->killed.
EndTrapUnchecked(c, timer) ==
  IF cpu[c].sched = "loop" THEN UNCHANGED proc
  ELSE proc' = [proc EXCEPT ![cpu[c].proc].yl = IF timer THEN "lock" ELSE @]

\* How usertrap() and kerneltrap() end an interrupt: a killed process trapped
\* in user mode exits, otherwise a timer interrupt preempts it.
EndTrap(c, timer) ==
  IF cpu[c].sched = "loop" THEN UNCHANGED proc
  ELSE LET p == cpu[c].proc
       IN  IF proc[p].pc = "user" /\ proc[p].killed
           THEN proc' = [proc EXCEPT ![p].pc = "exit"]
           ELSE proc' = [proc EXCEPT ![p].yl = IF timer THEN "lock" ELSE @]

\* Variant: nobody is woken.
ClockIntrSilent(c) ==
  /\ c = 0 /\ Interruptible(c)
  /\ Acquire(c, TicksLock)
  /\ proc' = [p \in Procs |-> [proc[p] EXCEPT !.left = IF @ > 0 THEN @ - 1 ELSE 0]]
  /\ cpu' = [cpu EXCEPT ![c] = [WakeBegin(@, Nil) EXCEPT !.intr = "clock"]]
  /\ UNCHANGED <<list, nextpid>>

\* clockintr(), on CPU 0: ticks++ under tickslock, then wakeup(&ticks).
ClockIntr(c) ==
  /\ c = 0 /\ Interruptible(c)
  /\ Acquire(c, TicksLock)
  /\ proc' = [p \in Procs |-> [proc[p] EXCEPT !.left = IF @ > 0 THEN @ - 1 ELSE 0]]
  /\ cpu' = [cpu EXCEPT ![c] = [WakeBegin(@, TickChan) EXCEPT !.intr = "clock"]]
  /\ UNCHANGED <<list, nextpid>>

\* A timer interrupt on another CPU only preempts.
Preempt(c) ==
  /\ c # 0 /\ Interruptible(c) /\ cpu[c].sched = "run"
  /\ EndTrap(c, TRUE)
  /\ UNCHANGED <<cpu, lock, list, nextpid>>

\* The disk finished p's request; virtio_disk_intr() runs on any CPU.
DiskIntr(c, p) ==
  /\ proc[p].disk /\ Interruptible(c)
  /\ Acquire(c, DiskLock)
  /\ proc' = [proc EXCEPT ![p].disk = FALSE]
  /\ cpu' = [cpu EXCEPT ![c] = [WakeBegin(@, BufChan(p)) EXCEPT !.intr = "disk"]]
  /\ UNCHANGED <<list, nextpid>>

\* The handler's wakeup() is over: release its lock and end the trap.
IntrDone(c) ==
  /\ cpu[c].intr # "none" /\ WakeDone(cpu[c])
  /\ Release(IF cpu[c].intr = "clock" THEN TicksLock ELSE DiskLock)
  /\ EndTrap(c, cpu[c].intr = "clock")
  /\ cpu' = [cpu EXCEPT ![c] = [WakeEnd(@) EXCEPT !.intr = "none"]]
  /\ UNCHANGED <<list, nextpid>>

\* yield(): acquire(&p->lock); the runnable list of p->cpu_num; sched().
YieldLock(c, p) ==
  /\ cpu[c].sched = "run" /\ cpu[c].proc = p /\ proc[p].yl = "lock"
  /\ Acquire(c, PLock(p))
  /\ proc' = [proc EXCEPT ![p].state = "RUNNABLE", ![p].yl = "add"]
  /\ UNCHANGED <<cpu, list, nextpid>>

\* Variant: p->lock is released before the switch to the scheduler.
YieldAddEarly(c, p) ==
  /\ cpu[c].sched = "run" /\ cpu[c].proc = p /\ proc[p].yl = "add"
  /\ Free(Runnable(proc[p].cpu_num))
  /\ Enlist(Runnable(proc[p].cpu_num), p)
  /\ proc' = [proc EXCEPT ![p].yl = "off"]
  /\ cpu' = [cpu EXCEPT ![c].sched = "back"]
  /\ Release(PLock(p))
  /\ UNCHANGED nextpid

YieldAdd(c, p) ==
  /\ cpu[c].sched = "run" /\ cpu[c].proc = p /\ proc[p].yl = "add"
  /\ Free(Runnable(proc[p].cpu_num))
  /\ Enlist(Runnable(proc[p].cpu_num), p)
  /\ proc' = [proc EXCEPT ![p].yl = "off"]
  /\ cpu' = [cpu EXCEPT ![c].sched = "back"]
  /\ UNCHANGED <<lock, nextpid>>

-----------------------------------------------------------------------------
(* The system call boundary                                                *)

\* User code traps with a system call; a killed process exits instead.
\* init's own code never exits.
Syscall(c, p, call) ==
  /\ At(c, p, "user")
  /\ call = "fork" => nextpid <= MaxPid
  /\ call = "exit" => p # InitProc
  /\ \E k \in IF call = "kill" THEN KillPids ELSE {0} :
       proc' = [proc EXCEPT ![p].pc = IF proc[p].killed THEN "exit" ELSE call,
                            ![p].loc = 0, ![p].tgt = k]
  /\ UNCHANGED <<cpu, lock, list, nextpid>>

\* The end of usertrap(): exit if killed, otherwise back to user code.
SysReturn(c, p) ==
  /\ At(c, p, "sysret")
  /\ proc' = [proc EXCEPT ![p].pc = IF proc[p].killed THEN "exit" ELSE "user"]
  /\ UNCHANGED <<cpu, lock, list, nextpid>>

-----------------------------------------------------------------------------
(* fork(), with allocproc()                                                *)

\* allocproc(): acquire(&unusedList.lock); without a free entry, return -1.
ForkNone(c, p) ==
  /\ At(c, p, "fork") /\ Free(Unused) /\ list[Unused] = << >>
  /\ proc' = [proc EXCEPT ![p] = Done(@)]
  /\ UNCHANGED <<cpu, lock, list, nextpid>>

\* Otherwise look at the first entry and keep the list locked.
ForkPeek(c, p) ==
  /\ At(c, p, "fork") /\ list[Unused] # << >>
  /\ Acquire(c, Unused)
  /\ proc' = [proc EXCEPT ![p].pc = "fkLock", ![p].loc = Head(list[Unused])]
  /\ UNCHANGED <<cpu, list, nextpid>>

\* acquire(&p->lock), release the list, allocpid().
ForkLock(c, p) ==
  LET np == proc[p].loc
  IN  /\ At(c, p, "fkLock") /\ Free(PLock(np))
      /\ lock' = [lock EXCEPT ![PLock(np)] = c, ![Unused] = NoCpu]
      /\ proc' = [proc EXCEPT ![np].pid = nextpid, ![p].pc = "fkTake"]
      /\ nextpid' = nextpid + 1
      /\ UNCHANGED <<cpu, list>>

\* Off the unused list.  The trapframe, the page table and the copy of the
\* parent's memory are allocated and np->lock is released, or one of them is
\* not and freeproc() is next.
ForkTake(c, p) ==
  LET np == proc[p].loc
      Take(label) == [proc EXCEPT ![np].state = "USED", ![np].pc = "forkret", ![p].pc = label]
  IN  /\ At(c, p, "fkTake") /\ Free(Unused)
      /\ Delist(Unused, np)
      /\ \/ proc' = Take("fkParent") /\ Release(PLock(np))
         \/ MemMayFail /\ proc' = Take("fkFail") /\ UNCHANGED lock
      /\ UNCHANGED <<cpu, nextpid>>

\* freeproc() of a process that is not on the zombie list: an empty list is
\* the panic of remove_proc_from_list(), otherwise its loop runs off the end.
ForkFail(c, p) ==
  /\ At(c, p, "fkFail")
  /\ proc' = [proc EXCEPT ![p].pc = IF list[Zombie] = << >> THEN "panic" ELSE "wild"]
  /\ UNCHANGED <<cpu, lock, list, nextpid>>

\* np->parent = p under wait_lock.
ForkParent(c, p) ==
  /\ At(c, p, "fkParent") /\ Free(WaitLock)
  /\ proc' = [proc EXCEPT ![proc[p].loc].parent = p, ![p].pc = "fkReady"]
  /\ UNCHANGED <<cpu, lock, list, nextpid>>

\* acquire(&np->lock) and choose a CPU.
ForkReady(c, p) ==
  LET np == proc[p].loc
  IN  /\ At(c, p, "fkReady")
      /\ Acquire(c, PLock(np))
      /\ proc' = Balanced([proc EXCEPT ![np].state = "RUNNABLE", ![p].pc = "fkAdmit"], np)
      /\ cpu' = Counted(cpu)
      /\ UNCHANGED <<list, nextpid>>

\* The child goes to the parent's CPU (its own cpu_num stays as it was), or
\* where the balancer says.
ForkAdmit(c, p) ==
  LET np == proc[p].loc
      t == AdmitTo(np, proc[p].cpu_num)
  IN  /\ At(c, p, "fkAdmit") /\ Free(Runnable(t))
      /\ Enlist(Runnable(t), np)
      /\ proc' = [proc EXCEPT ![p] = Done(@)]
      /\ Release(PLock(np))
      /\ UNCHANGED <<cpu, nextpid>>

-----------------------------------------------------------------------------
(* sleep() and its callers sys_sleep() and virtio_disk_rw()                *)

\* acquire(&p->lock), join the sleeping list, release lk, switch away.
Sleep(c, p, ch, lk, asleep) ==
  /\ Free(PLock(p))
  /\ lock' = [lock EXCEPT ![PLock(p)] = c, ![lk] = NoCpu]
  /\ Enlist(Sleeping, p)
  /\ proc' = [proc EXCEPT ![p].chan = ch, ![p].state = "SLEEPING", ![p].pc = asleep]
  /\ cpu' = [cpu EXCEPT ![c].sched = "back"]
  /\ UNCHANGED nextpid

\* The test of a sleep loop, under lock lk: return, or go on to sleep().
Test(c, p, lk, return, asleep, thread) ==
  /\ Free(lk)
  /\ IF return
     THEN proc' = [proc EXCEPT ![p] = Done(thread)] /\ UNCHANGED lock
     ELSE proc' = [proc EXCEPT ![p] = [thread EXCEPT !.pc = asleep]] /\ Acquire(c, lk)
  /\ UNCHANGED <<cpu, list, nextpid>>

\* sys_sleep(n).  ticks - ticks0 < n compares unsigned: a negative n is long.
SleepTest(c, p, n) ==
  Test(c, p, TicksLock, n = 0 \/ proc[p].killed, "slSleep",
       [proc[p] EXCEPT !.left = IF proc[p].killed THEN 0 ELSE n])
\* Variant: the comparison with n is signed.
SleepStartSigned(c, p) == At(c, p, "sleep") /\ \E n \in SleepArgs : SleepTest(c, p, n)

SleepStart(c, p) == At(c, p, "sleep") /\ \E n \in SleepArgs : SleepTest(c, p, n % TickMod)
SleepAgain(c, p) == At(c, p, "slTest") /\ SleepTest(c, p, proc[p].left)
SleepWait(c, p) == At(c, p, "slSleep") /\ Sleep(c, p, TickChan, TicksLock, "slAsleep")

\* virtio_disk_rw(): start a request, sleep while b->disk is set.
DiskStart(c, p) ==
  At(c, p, "disk") /\ Test(c, p, DiskLock, FALSE, "dkSleep", [proc[p] EXCEPT !.disk = TRUE])
DiskAgain(c, p) ==
  At(c, p, "dkTest") /\ Test(c, p, DiskLock, ~proc[p].disk, "dkSleep", proc[p])
DiskWait(c, p) == At(c, p, "dkSleep") /\ Sleep(c, p, BufChan(p), DiskLock, "dkAsleep")

-----------------------------------------------------------------------------
(* wait()                                                                  *)

Children(p) == {q \in Procs : proc[q].parent = p}
KidsFrom(p, i) == {q \in Children(p) : q >= i}
First(q, S) == q \in S /\ \A r \in S : q <= r

WaitEnter(c, p) ==
  /\ At(c, p, "wait")
  /\ Acquire(c, WaitLock)
  /\ proc' = [proc EXCEPT ![p].pc = "wtScan", ![p].loc = 0]
  /\ UNCHANGED <<cpu, list, nextpid>>

\* The scan reaches child np: acquire(&np->lock).
WaitNext(p, np) == First(np, KidsFrom(p, proc[p].loc))
WaitSees(c, p, np) == At(c, p, "wtScan") /\ WaitNext(p, np) /\ Free(PLock(np))

\* np is not a zombie.
WaitPass(c, p, np) ==
  /\ WaitSees(c, p, np) /\ proc[np].state # "ZOMBIE"
  /\ proc' = [proc EXCEPT ![p].loc = np + 1]
  /\ UNCHANGED <<cpu, lock, list, nextpid>>

\* It is, but copyout() of its status fails: return -1.  init passes address
\* 0, for which nothing is copied.
WaitNoCopy(c, p, np) ==
  /\ WaitSees(c, p, np) /\ proc[np].state = "ZOMBIE" /\ p # InitProc
  /\ proc' = [proc EXCEPT ![p] = Done(@)]
  /\ Release(WaitLock)
  /\ UNCHANGED <<cpu, list, nextpid>>

\* freeproc(np), up to its entry into the unused list.
WaitReap(c, p, np) ==
  /\ WaitSees(c, p, np) /\ proc[np].state = "ZOMBIE"
  /\ Acquire(c, PLock(np))
  /\ Delist(Zombie, np)
  /\ proc' = [proc EXCEPT
       ![np] = [@ EXCEPT !.pid = 0, !.parent = Nil, !.chan = Nil, !.killed = FALSE,
                         !.state = "UNUSED"],
       ![p].pc = "wtFree", ![p].loc = np]
  /\ UNCHANGED <<cpu, nextpid>>

\* add_proc_to_list(&unusedList, np), release both locks, return.
WaitFree(c, p) ==
  /\ At(c, p, "wtFree") /\ Free(Unused)
  /\ Enlist(Unused, proc[p].loc)
  /\ lock' = [lock EXCEPT ![PLock(proc[p].loc)] = NoCpu, ![WaitLock] = NoCpu]
  /\ proc' = [proc EXCEPT ![p] = Done(@)]
  /\ UNCHANGED <<cpu, nextpid>>

\* Variant: wait_lock is released before sleep().
WaitDecideUnlocked(c, p) ==
  /\ At(c, p, "wtScan") /\ KidsFrom(p, proc[p].loc) = {}
  /\ proc' = [proc EXCEPT ![p] = IF Children(p) = {} \/ proc[p].killed
                                 THEN Done(@) ELSE [@ EXCEPT !.pc = "wtSleep"]]
  /\ Release(WaitLock)
  /\ UNCHANGED <<cpu, list, nextpid>>

\* All children seen: nothing to wait for, or sleep(p, &wait_lock).
WaitDecide(c, p) ==
  /\ At(c, p, "wtScan") /\ KidsFrom(p, proc[p].loc) = {}
  /\ IF Children(p) = {} \/ proc[p].killed
     THEN proc' = [proc EXCEPT ![p] = Done(@)] /\ Release(WaitLock)
     ELSE proc' = [proc EXCEPT ![p].pc = "wtSleep"] /\ UNCHANGED lock
  /\ UNCHANGED <<cpu, list, nextpid>>

WaitSleep(c, p) == At(c, p, "wtSleep") /\ Sleep(c, p, p, WaitLock, "wtAsleep")

-----------------------------------------------------------------------------
(* exit(), with reparent()                                                 *)

\* panic("init exiting")
InitExits(c, p) ==
  /\ At(c, p, "exit") /\ p = InitProc
  /\ proc' = [proc EXCEPT ![p].pc = "panic", ![p].loc = Nil]
  /\ UNCHANGED <<cpu, lock, list, nextpid>>

ExitStart(c, p) ==
  /\ At(c, p, "exit") /\ p # InitProc
  /\ Acquire(c, WaitLock)
  /\ proc' = [proc EXCEPT ![p].pc = "exReparent", ![p].loc = 0]
  /\ UNCHANGED <<cpu, list, nextpid>>

\* Variant: exit() without reparent().
ReparentNone(c, p) ==
  /\ InKernel(c, p) /\ proc[p].pc = "exReparent" /\ cpu[c].wk = "none"
  /\ proc' = [proc EXCEPT ![p].pc = "exZombie"]
  /\ cpu' = [cpu EXCEPT ![c] = WakeBegin(@, proc[p].parent)]
  /\ UNCHANGED <<lock, list, nextpid>>

\* One child goes to init, which is woken up; with no child left, wake the
\* parent.  The next turn starts when the wakeup is over.
Reparent(c, p) ==
  LET kids == KidsFrom(p, proc[p].loc)
  IN  /\ InKernel(c, p) /\ proc[p].pc = "exReparent"
      /\ cpu[c].wk = "none" \/ WakeDone(cpu[c])
      /\ \/ \E k \in kids :
              /\ First(k, kids)
              /\ proc' = [proc EXCEPT ![k].parent = InitProc, ![p].loc = k + 1]
              /\ cpu' = [cpu EXCEPT ![c] = WakeBegin(@, InitProc)]
         \/ /\ kids = {}
            /\ proc' = [proc EXCEPT ![p].pc = "exZombie"]
            /\ cpu' = [cpu EXCEPT ![c] = WakeBegin(@, proc[p].parent)]
      /\ UNCHANGED <<lock, list, nextpid>>

\* acquire(&p->lock), become a zombie, release wait_lock, switch away.
ExitZombie(c, p) ==
  /\ InKernel(c, p) /\ proc[p].pc = "exZombie" /\ WakeDone(cpu[c])
  /\ Free(PLock(p))
  /\ lock' = [lock EXCEPT ![PLock(p)] = c, ![WaitLock] = NoCpu]
  /\ Enlist(Zombie, p)
  /\ proc' = [proc EXCEPT ![p].state = "ZOMBIE", ![p].pc = "none", ![p].loc = Nil]
  /\ cpu' = [cpu EXCEPT ![c] = [WakeEnd(@) EXCEPT !.sched = "back"]]
  /\ UNCHANGED nextpid

-----------------------------------------------------------------------------
(* kill() and setcpu()                                                     *)

\* One turn of the loop: acquire(&p->lock) of entry i; it has another pid.
KillPass(c, p) ==
  LET i == proc[p].loc
  IN  /\ At(c, p, "kill") /\ Free(PLock(i)) /\ proc[i].pid # proc[p].tgt
      /\ proc' = [proc EXCEPT ![p] = IF i + 1 = NPROC THEN Done(@) ELSE [@ EXCEPT !.loc = i + 1]]
      /\ UNCHANGED <<cpu, lock, list, nextpid>>

\* Variant: the victim is made runnable whatever its state.
KillMarkRunnable(c, p) ==
  LET i == proc[p].loc
  IN  /\ At(c, p, "kill") /\ Free(PLock(i))
      /\ proc[i].pid = proc[p].tgt /\ proc[i].state # "SLEEPING"
      /\ proc' = [[proc EXCEPT ![p] = Done(@)] EXCEPT ![i].killed = TRUE, ![i].state = "RUNNABLE"]
      /\ UNCHANGED <<cpu, lock, list, nextpid>>

\* It has this pid and is not asleep: mark it and return.
KillMark(c, p) ==
  LET i == proc[p].loc
  IN  /\ At(c, p, "kill") /\ Free(PLock(i))
      /\ proc[i].pid = proc[p].tgt /\ proc[i].state # "SLEEPING"
      /\ proc' = [[proc EXCEPT ![p] = Done(@)] EXCEPT ![i].killed = TRUE]
      /\ UNCHANGED <<cpu, lock, list, nextpid>>

\* Variant: the victim stays on the sleeping list.
KillWakeListed(c, p) ==
  LET i == proc[p].loc
  IN  /\ At(c, p, "kill") /\ Acquire(c, PLock(i))
      /\ proc[i].pid = proc[p].tgt /\ proc[i].state = "SLEEPING"
      /\ proc' = [proc EXCEPT ![i].killed = TRUE, ![i].state = "RUNNABLE", ![p].pc = "klAdd"]
      /\ UNCHANGED <<cpu, list, nextpid>>

\* It has this pid and sleeps: make it runnable on its own CPU.
KillWake(c, p) ==
  LET i == proc[p].loc
  IN  /\ At(c, p, "kill") /\ Acquire(c, PLock(i))
      /\ proc[i].pid = proc[p].tgt /\ proc[i].state = "SLEEPING"
      /\ Delist(Sleeping, i)
      /\ proc' = [proc EXCEPT ![i].killed = TRUE, ![i].state = "RUNNABLE", ![p].pc = "klAdd"]
      /\ UNCHANGED <<cpu, nextpid>>

KillAdd(c, p) ==
  LET i == proc[p].loc
  IN  /\ At(c, p, "klAdd") /\ Free(Runnable(proc[i].cpu_num))
      /\ Enlist(Runnable(proc[i].cpu_num), i)
      /\ Release(PLock(i))
      /\ proc' = [proc EXCEPT ![p] = Done(@)]
      /\ UNCHANGED <<cpu, nextpid>>

\* setcpu(n) only records the CPU the next yield() goes to.
SetCpu(c, p) ==
  /\ At(c, p, "setcpu")
  /\ \E n \in Cpus : proc' = [proc EXCEPT ![p] = [Done(@) EXCEPT !.cpu_num = n]]
  /\ UNCHANGED <<cpu, lock, list, nextpid>>

-----------------------------------------------------------------------------
ProcStep(c, p) ==
  \/ SysReturn(c, p)
  \/ ForkNone(c, p) \/ ForkPeek(c, p) \/ ForkLock(c, p) \/ ForkTake(c, p) \/ ForkFail(c, p)
  \/ ForkParent(c, p) \/ ForkReady(c, p) \/ ForkAdmit(c, p)
  \/ SleepStart(c, p) \/ SleepAgain(c, p) \/ SleepWait(c, p)
  \/ DiskStart(c, p) \/ DiskAgain(c, p) \/ DiskWait(c, p)
  \/ WaitEnter(c, p) \/ WaitFree(c, p) \/ WaitDecide(c, p) \/ WaitSleep(c, p)
  \/ \E np \in Procs : WaitPass(c, p, np) \/ WaitNoCopy(c, p, np) \/ WaitReap(c, p, np)
  \/ InitExits(c, p) \/ ExitStart(c, p) \/ Reparent(c, p) \/ ExitZombie(c, p)
  \/ KillPass(c, p) \/ KillMark(c, p) \/ KillWake(c, p) \/ KillAdd(c, p) \/ SetCpu(c, p)

SchedStep(c) == SchedPeek(c) \/ SchedLock(c) \/ SchedSwitch(c) \/ SchedBack(c)

\* What a CPU does by itself, without user code or a device deciding.
CpuStep(c) ==
  \/ SchedStep(c)
  \/ WakePass(c) \/ WakeTake(c) \/ WakeAdd(c) \/ IntrDone(c)
  \/ \E p \in Procs : YieldLock(c, p) \/ YieldAdd(c, p) \/ ProcStep(c, p)

Next == \E c \in Cpus :
          \/ CpuStep(c)
          \/ ClockIntr(c) \/ Preempt(c)
          \/ \E p \in Procs : DiskIntr(c, p)
          \/ \E p \in Procs, call \in Calls : Syscall(c, p, call)

Spec == Init /\ [][Next]_vars

\* Each CPU keeps executing.  A tick is longer than an interrupt handler, so
\* the code it interrupts gets its turn: the scheduler, and the process in
\* its time slice.  A pending interrupt is taken when the CPU keeps enabling
\* interrupts.  init keeps calling wait().
Fairness ==
  /\ \A c \in Cpus : WF_vars(CpuStep(c)) /\ SF_vars(SchedStep(c)) /\ SF_vars(ClockIntr(c))
  /\ \A p \in Procs : SF_vars(\E c \in Cpus : ProcStep(c, p))
  /\ SF_vars(\E c \in Cpus : Syscall(c, InitProc, "wait"))

FairSpec == Spec /\ Fairness

-----------------------------------------------------------------------------
(* Properties                                                              *)

\* struct proc and struct cpu, with the state of the threads.
Thread ==
  [state : {"UNUSED", "USED", "SLEEPING", "RUNNABLE", "RUNNING", "ZOMBIE"},
   pid : Nat, chan : Chans \cup {Nil}, killed : BOOLEAN, parent : Procs \cup {Nil},
   cpu_num : Cpus, pc : Labels, loc : 0 .. NPROC \cup {Nil}, tgt : Nat,
   yl : {"none", "lock", "add", "off"}, left : 0 .. TickMod - 1, disk : BOOLEAN]
Cpu ==
  [proc : Procs \cup {Nil}, procCount : Nat, pick : Procs \cup {Nil},
   sched : {"loop", "lock", "take", "run", "back"}, intr : {"none", "clock", "disk"},
   wk : {"none", "scan", "add"}, wi : 0 .. NPROC + 1, wchan : Chans \cup {Nil}]

\* Every field keeps its type.
TypeOK ==
  /\ proc \in [Procs -> Thread] /\ cpu \in [Cpus -> Cpu]
  /\ lock \in [LockNames -> Cpus \cup {NoCpu}]
  /\ list \in [ListNames -> Seq(Procs)]
  /\ nextpid \in Nat

\* How often p occurs on list k.
On(p, k) == {i \in 1 .. Len(list[k]) : list[k][i] = p}
ListOf(st) == CASE st = "UNUSED" -> {Unused} [] st = "ZOMBIE" -> {Zombie}
                [] st = "SLEEPING" -> {Sleeping}
                [] st = "RUNNABLE" -> {Runnable(c) : c \in Cpus}
                [] OTHER -> {}

\* Whenever nobody holds a process's lock, it is on the list of its state and
\* on no other, and no process is ever on two lists or twice on one: the
\* moves of scheduler(), wakeup(), kill(), fork() and wait() never lose or
\* duplicate a process.
ListsMatchState ==
  /\ \A p \in Procs : Free(PLock(p)) =>
       \A k \in ListNames : On(p, k) # {} => k \in ListOf(proc[p].state)
  /\ \A p \in Procs : Free(PLock(p)) /\ ListOf(proc[p].state) # {} =>
       \E k \in ListNames : On(p, k) # {}
  /\ \A p \in Procs, k, m \in ListNames : \A i \in On(p, k), j \in On(p, m) : k = m /\ i = j

\* A process runs on one CPU at most, and while nobody holds its lock it is
\* RUNNING exactly when some CPU has it as its current process.
RunsOnce ==
  /\ \A c, d \in Cpus : cpu[c].proc = cpu[d].proc /\ cpu[c].proc # Nil => c = d
  /\ \A p \in Procs : Free(PLock(p)) =>
       (proc[p].state = "RUNNING" <=> \E c \in Cpus : cpu[c].proc = p)

\* No lost wakeup.  While the lock of its condition is free, a process asleep
\* in wait() has no zombie child, one asleep in sys_sleep() has ticks left,
\* and one asleep on the disk has its request outstanding.
NoLostWakeup ==
  \A p \in Procs : proc[p].state = "SLEEPING" =>
    /\ proc[p].chan = p /\ Free(WaitLock) =>
         \A q \in Children(p) : proc[q].state # "ZOMBIE"
    /\ proc[p].chan = TickChan /\ Free(TicksLock) => proc[p].left > 0
    /\ proc[p].chan = BufChan(p) /\ Free(DiskLock) => proc[p].disk

\* While wait_lock is free, every parent is a live process and every zombie
\* has one that can reap it: exit() hands all children to init in time.
ParentsLive ==
  Free(WaitLock) => \A q \in Procs :
    /\ proc[q].parent # Nil => proc[proc[q].parent].state \notin {"UNUSED", "USED", "ZOMBIE"}
    /\ proc[q].state = "ZOMBIE" => proc[q].parent # Nil

\* The lock CPU c is spinning on, as the set of its next acquisitions.
ThreadWants(c, p) ==
  CASE cpu[c].wk # "none" /\ ~WakeDone(cpu[c]) -> {}
    [] proc[p].yl = "lock" -> {PLock(p)}
    [] proc[p].yl = "add" -> {Runnable(proc[p].cpu_num)}
    [] proc[p].pc \in {"slSleep", "dkSleep", "wtSleep", "exZombie"} -> {PLock(p)}
    [] proc[p].pc \in {"fkLock", "fkReady", "kill"} -> {PLock(proc[p].loc)}
    [] proc[p].pc \in {"fkTake", "wtFree", "fork"} -> {Unused}
    [] proc[p].pc \in {"fkParent", "exit", "wait"} -> {WaitLock}
    [] proc[p].pc = "fkAdmit" -> {Runnable(AdmitTo(proc[p].loc, proc[p].cpu_num))}
    [] proc[p].pc = "klAdd" -> {Runnable(proc[proc[p].loc].cpu_num)}
    [] proc[p].pc \in {"sleep", "slTest"} -> {TicksLock}
    [] proc[p].pc \in {"disk", "dkTest"} -> {DiskLock}
    [] proc[p].pc = "wtScan" -> {PLock(q) : q \in {r \in Procs : WaitNext(p, r)}}
    [] OTHER -> {}
Wants(c) ==
  CASE cpu[c].sched = "lock" -> {PLock(cpu[c].pick)}
    [] cpu[c].sched = "take" -> {Runnable(c)}
    [] cpu[c].wk = "scan" /\ cpu[c].wi < NPROC -> {PLock(cpu[c].wi)}
    [] cpu[c].wk = "add" -> {Runnable(AdmitTo(cpu[c].wi, 0))}
    [] cpu[c].sched = "run" /\ cpu[c].intr = "none" -> ThreadWants(c, cpu[c].proc)
    [] OTHER -> {}

\* CPUs c and d are both in allocproc() for the same entry: c holds
\* unusedList.lock and spins on the entry's lock, d has that lock and spins on
\* unusedList.lock in remove().
AllocCycle(c, d) ==
  /\ cpu[c].proc # Nil /\ cpu[d].proc # Nil
  /\ proc[cpu[c].proc].pc = "fkLock" /\ proc[cpu[d].proc].pc = "fkTake"
  /\ proc[cpu[c].proc].loc = proc[cpu[d].proc].loc

\* The only spinlock deadlock is the one of two allocproc(), which take the
\* list's lock and the entry's in opposite orders: a set of CPUs each of which
\* spins on a lock that a member of the set holds (itself included) has them.
NoSpinCycle ==
  \A S \in SUBSET Cpus :
    S # {} /\ (\A c \in S : \E k \in Wants(c) : lock[k] \in S)
      => \E c, d \in S : AllocCycle(c, d)

\* A state changes only along the edges the code has: in particular a zombie
\* is only freed, and an unused entry only allocated.
Edges == {<<"UNUSED", "USED">>, <<"USED", "RUNNABLE">>, <<"RUNNABLE", "RUNNING">>,
          <<"RUNNING", "RUNNABLE">>, <<"RUNNING", "SLEEPING">>, <<"SLEEPING", "RUNNABLE">>,
          <<"RUNNING", "ZOMBIE">>, <<"ZOMBIE", "UNUSED">>}
LifeCycle ==
  [][\A p \in Procs : proc'[p].state # proc[p].state =>
       <<proc[p].state, proc'[p].state>> \in Edges]_vars

\* sys_sleep() ends: the ticks reach the sleeper, and it gets a CPU again.
SleepersReturn ==
  \A p \in Procs : proc[p].pc \in {"slTest", "slSleep", "slAsleep"} ~> proc[p].pc = "sysret"

\* A killed process exits, wherever the kill caught it, and init reaps it.
KilledAreReaped ==
  \A p \in Procs \ {InitProc} : proc[p].killed ~> proc[p].state = "UNUSED"

-----------------------------------------------------------------------------
(* What comments and the assignment text say, and the code does not do     *)

\* "If there are no free procs, or a memory allocation fails, return 0": a
\* failed allocation in fork() is an error return, not the end of the kernel.
AllocFailureReturns == \A p \in Procs : proc[p].pc \notin {"panic", "wild"}

\* "admitted to the least used CPU, that is, the CPU with the lowest counter
\* value": fork() and wakeup() count an admission on a CPU of lowest count.
AdmitLeastUsed ==
  [][\A c, d \in Cpus : cpu'[c].procCount > cpu[c].procCount =>
                          cpu[c].procCount <= cpu[d].procCount]_vars

\* "Kill the process with the given pid": kill() marks processes, so an entry
\* on the unused list, which no process occupies, is never marked.
UnusedNotKilled == \A p \in Procs : proc[p].state = "UNUSED" => ~proc[p].killed
=============================================================================
