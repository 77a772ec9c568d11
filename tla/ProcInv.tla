------------------------------ MODULE ProcInv -------------------------------
(***************************************************************************)
(* The inductive invariant of module Proc.  It says, for every thread and  *)
(* CPU, where it is in the code: which spinlocks it must hold there, on    *)
(* which list its process is, and what it knows of the process it works    *)
(* on.  It holds at first, and three of the properties of Proc follow from *)
(* it: where the processes are listed, where they run, and the states they *)
(* go through.                                                             *)
(***************************************************************************)
EXTENDS Proc, TLAPS

\* Where a thread is between two steps: with a spinlock held, so that it cannot be
\* interrupted; asleep; or in code that the timer can preempt.
LockPcs == {"fkLock", "fkTake", "fkFail", "fkAdmit", "slSleep", "dkSleep", "wtScan", "wtFree",
            "wtSleep", "exReparent", "exZombie", "klAdd", "panic", "wild"}

AsleepPcs == {"slAsleep", "dkAsleep", "wtAsleep"}

FreePcs == {"user", "sysret", "fork", "fkParent", "fkReady", "sleep", "slTest", "disk", "dkTest",
            "wait", "exit", "kill", "setcpu"}

\* The locks that the code of thread q has taken and not yet released.
Kept(q) ==
  IF proc[q].yl = "add" THEN {PLock(q)}
  ELSE CASE proc[q].pc = "fkLock" -> {Unused}
         [] proc[q].pc \in {"fkTake", "fkFail", "fkAdmit", "klAdd"} -> {PLock(proc[q].loc)}
         [] proc[q].pc \in {"panic", "wild"} -> IF proc[q].loc = Nil THEN {} ELSE {PLock(proc[q].loc)}
         [] proc[q].pc = "wtFree" -> {PLock(proc[q].loc), WaitLock}
         [] proc[q].pc \in {"wtScan", "wtSleep", "exReparent", "exZombie"} -> {WaitLock}
         [] proc[q].pc = "slSleep" -> {TicksLock}
         [] proc[q].pc = "dkSleep" -> {DiskLock}
         [] OTHER -> {}

SchedKept(c) == CASE cpu[c].sched = "lock" -> {Runnable(c)}
                  [] cpu[c].sched \in {"take", "back"} -> {PLock(cpu[c].proc)}
                  [] cpu[c].sched = "run" -> Kept(cpu[c].proc)
                  [] OTHER -> {}

IntrKept(c) == CASE cpu[c].intr = "clock" -> {TicksLock}
                 [] cpu[c].intr = "disk" -> {DiskLock}
                 [] OTHER -> {}

WakeKept(c) == IF cpu[c].wk = "add" THEN {PLock(cpu[c].wi)} ELSE {}

\* The spinlocks that CPU c must hold, judged by where it is in the code.
Held(c) == SchedKept(c) \cup IntrKept(c) \cup WakeKept(c)

\* Every spinlock is held by the CPU whose code says so, and by no other.
LocksOK == \A c \in Cpus : Holds(c) = Held(c)

\* A thread that is not running can be resumed: it was preempted, or went to sleep, or is new.
Ready(p) == \/ proc[p].yl = "off" /\ proc[p].pc \in FreePcs
            \/ proc[p].yl = "none" /\ proc[p].pc \in AsleepPcs \cup {"forkret"}

\* The state of a process says where its thread is.
ThreadOK(p) ==
  /\ proc[p].state \in {"UNUSED", "ZOMBIE"} => proc[p].pc = "none" /\ proc[p].yl = "none"
  /\ proc[p].state = "USED" => proc[p].pc = "forkret" /\ proc[p].yl = "none"
  /\ proc[p].state = "SLEEPING" => proc[p].pc \in AsleepPcs /\ proc[p].yl = "none"
  /\ proc[p].state = "RUNNABLE" => Ready(p) \/ (proc[p].yl = "add" /\ proc[p].pc \in FreePcs)
  /\ proc[p].yl = "add" \/ proc[p].state = "RUNNING" => \E c \in Cpus : cpu[c].proc = p

OnList(p, k) == \E i \in 1 .. Len(list[k]) : list[k][i] = p

\* What a thread in fork(), wait() or kill() knows of the process it works on.
WorkOK(p) ==
  LET np == proc[p].loc
  IN  /\ proc[p].pc \in {"kill", "fkLock", "fkTake", "fkFail", "fkParent", "fkReady", "fkAdmit",
                         "wtFree", "klAdd"} => np \in Procs
      /\ proc[p].pc \in {"panic", "wild"} => np \in Procs \cup {Nil}
      /\ proc[p].pc \in {"fkLock", "fkTake"} => OnList(np, Unused)
      /\ proc[p].pc \in {"fkTake", "wtFree"} => proc[np].state = "UNUSED"
      /\ proc[p].pc \in {"fkFail", "fkParent", "fkReady"} => proc[np].state = "USED"
      /\ proc[p].pc \in {"panic", "wild"} /\ np # Nil => proc[np].state = "USED"
      /\ proc[p].pc \in {"fkAdmit", "klAdd"} => proc[np].state = "RUNNABLE"

\* No two calls of fork() fill in the same entry.
ForksApart == \A p, q \in Procs :
  proc[p].pc \in {"fkParent", "fkReady"} /\ proc[q].pc \in {"fkParent", "fkReady"}
    /\ proc[p].loc = proc[q].loc => p = q

\* What scheduler() of c and the thread on c are doing.
CpuOK(c) ==
  LET p == cpu[c].proc
  IN  /\ cpu[c].sched \in {"loop", "lock"} <=> p = Nil
      /\ cpu[c].sched = "lock" => cpu[c].pick \in Procs /\ OnList(cpu[c].pick, Runnable(c))
      /\ cpu[c].sched = "take" => cpu[c].pick = p /\ proc[p].state = "RUNNING" /\ Ready(p)
      /\ cpu[c].sched = "run" =>
           \/ proc[p].state = "RUNNING" /\ proc[p].yl = "none" /\ proc[p].pc \in FreePcs \cup LockPcs
           \/ proc[p].state = "RUNNING" /\ proc[p].yl = "lock" /\ proc[p].pc \in FreePcs
           \/ proc[p].state = "RUNNABLE" /\ proc[p].yl = "add" /\ proc[p].pc \in FreePcs
      /\ cpu[c].sched = "back" =>
           proc[p].state \in {"RUNNABLE", "SLEEPING", "ZOMBIE"} /\ proc[p].yl # "add"
      /\ cpu[c].intr # "none" =>
           /\ cpu[c].wk # "none"
           /\ cpu[c].sched = "loop" \/ (cpu[c].sched = "run" /\ proc[p].yl = "none" /\ proc[p].pc \in FreePcs)
      /\ cpu[c].intr = "none" /\ cpu[c].wk # "none" =>
           cpu[c].sched = "run" /\ proc[p].pc \in {"exReparent", "exZombie"}
      /\ cpu[c].sched = "run" /\ proc[p].pc = "exZombie" => cpu[c].wk # "none"
      /\ cpu[c].wk = "add" => cpu[c].wi \in Procs /\ proc[cpu[c].wi].state = "RUNNABLE"

\* A process is the current one of one CPU at most.
OneCpu == \A c, d \in Cpus : cpu[c].proc = cpu[d].proc /\ cpu[c].proc # Nil => c = d

\* The process that c is about to put on a list, and the one it is about to take off.
Adds(c) == IF cpu[c].wk = "add" THEN {cpu[c].wi}
           ELSE IF cpu[c].sched # "run" THEN {}
           ELSE IF proc[cpu[c].proc].yl = "add" THEN {cpu[c].proc}
           ELSE IF proc[cpu[c].proc].pc \in {"fkAdmit", "wtFree", "klAdd"} THEN {proc[cpu[c].proc].loc}
           ELSE {}

Takes(c) == IF cpu[c].sched = "take" THEN {cpu[c].pick} ELSE {}

\* The lists that process p may be on.
Place(p) == IF \E c \in Cpus : p \in Adds(c) THEN {}
            ELSE IF proc[p].state = "RUNNING" THEN {Runnable(c) : c \in {d \in Cpus : p \in Takes(d)}}
            ELSE ListOf(proc[p].state)

ListedOnce == \A p \in Procs, k, m \in ListNames :
                \A i \in 1 .. Len(list[k]), j \in 1 .. Len(list[m]) :
                  list[k][i] = p /\ list[m][j] = p => k = m /\ i = j

\* Process p is on the one list where it belongs.
Listed(p) == /\ \A k \in ListNames : OnList(p, k) => k \in Place(p)
             /\ Place(p) # {} => \E k \in ListNames : OnList(p, k)

ProcInv ==
  /\ TypeOK /\ LocksOK /\ OneCpu /\ ForksApart /\ ListedOnce
  /\ \A c \in Cpus : CpuOK(c)
  /\ \A p \in Procs : ThreadOK(p) /\ WorkOK(p) /\ Listed(p)

-----------------------------------------------------------------------------
(* Basic facts                                                             *)

\* Zenon proves the leaves that name no other prover.
USE ZenonT(60)

\* A step that changes nothing keeps the invariant.
LEMMA StutterOK == ProcInv /\ UNCHANGED vars => ProcInv'
  <1> SUFFICES ASSUME ProcInv, UNCHANGED vars PROVE ProcInv'
    OBVIOUS
  <1>0. proc' = proc /\ cpu' = cpu /\ lock' = lock /\ list' = list /\ nextpid' = nextpid
    BY DEF vars
  <1>1. TypeOK' /\ OneCpu' /\ ForksApart' /\ ListedOnce'
    BY SMT, <1>0 DEF ProcInv, TypeOK, OneCpu, ForksApart, ListedOnce
  <1>6. LocksOK'
    <2>1. \A c \in Cpus : Held(c)' = Held(c)
      BY SMT, <1>0 DEF Held, SchedKept, IntrKept, WakeKept, Kept
    <2>2. \A c \in Cpus : Holds(c)' = Holds(c)
      BY <1>0 DEF Holds
    <2>3. QED
      BY <2>1, <2>2 DEF ProcInv, LocksOK
  <1>2. \A c \in Cpus : CpuOK(c)'
    BY SMT, <1>0 DEF ProcInv, CpuOK, OnList, Ready
  <1>3. \A p \in Procs : ThreadOK(p)' /\ WorkOK(p)'
    BY SMT, <1>0 DEF ProcInv, ThreadOK, WorkOK, OnList, Ready
  <1>4. \A p \in Procs : Listed(p)'
    BY SMT, <1>0 DEF ProcInv, Listed, OnList, Place, Adds, Takes
  <1>5. QED
    BY <1>1, <1>2, <1>3, <1>4, <1>6 DEF ProcInv

\* The names of locks and lists are all different.
LEMMA Names ==
  /\ \A p \in Procs : PLock(p) \in LockNames
  /\ \A c \in Cpus : Runnable(c) \in LockNames /\ Runnable(c) \in ListNames
  /\ {WaitLock, TicksLock, DiskLock, Unused} \subseteq LockNames
  /\ {Unused, Zombie, Sleeping} \subseteq ListNames
  BY DEF LockNames, ListNames

\* No two of them are the same.
LEMMA NamesDiffer ==
  /\ \A p, q \in Procs : PLock(p) = PLock(q) => p = q
  /\ \A p \in Procs : PLock(p) \notin {WaitLock, TicksLock, DiskLock, Unused}
  /\ \A p \in Procs, c \in Cpus : PLock(p) # Runnable(c)
  /\ \A c, d \in Cpus : Runnable(c) = Runnable(d) => c = d
  /\ \A c \in Cpus : Runnable(c) \notin {WaitLock, TicksLock, DiskLock, Unused, Zombie, Sleeping}
  /\ WaitLock # TicksLock /\ WaitLock # DiskLock /\ WaitLock # Unused /\ TicksLock # DiskLock
  /\ TicksLock # Unused /\ DiskLock # Unused
  /\ Unused # Zombie /\ Unused # Sleeping /\ Zombie # Sleeping
  BY DEF PLock, WaitLock, TicksLock, DiskLock, Unused, Zombie, Sleeping, Runnable

\* Nil and NoCpu are no index.
LEMMA NoNames == Nil \notin Procs /\ NoCpu \notin Cpus
  BY SMT, ProcAssumption DEF Nil, NoCpu, Procs, Cpus

\* The fields of the records have their types.
LEMMA FieldTypes ==
  ASSUME TypeOK
  PROVE  /\ \A q \in Procs : /\ proc[q] \in Thread /\ proc[q].cpu_num \in Cpus
                             /\ proc[q].loc \in 0 .. NPROC \cup {Nil}
         /\ \A c \in Cpus : /\ cpu[c] \in Cpu /\ cpu[c].proc \in Procs \cup {Nil}
                            /\ cpu[c].pick \in Procs \cup {Nil} /\ cpu[c].wi \in 0 .. NPROC + 1
         /\ \A k \in LockNames : lock[k] \in Cpus \cup {NoCpu}
         /\ \A k \in ListNames : list[k] \in Seq(Procs)
  <1>1. \A q \in Procs : proc[q] \in Thread
    BY DEF TypeOK
  <1>2. \A c \in Cpus : cpu[c] \in Cpu
    BY DEF TypeOK
  <1>3. \A k \in LockNames : lock[k] \in Cpus \cup {NoCpu}
    BY DEF TypeOK
  <1>4. \A k \in ListNames : list[k] \in Seq(Procs)
    BY DEF TypeOK
  <1>5. \A q \in Procs : proc[q].cpu_num \in Cpus /\ proc[q].loc \in 0 .. NPROC \cup {Nil}
    BY <1>1 DEF Thread
  <1>6. \A c \in Cpus : /\ cpu[c].proc \in Procs \cup {Nil}
                        /\ cpu[c].pick \in Procs \cup {Nil} /\ cpu[c].wi \in 0 .. NPROC + 1
    BY <1>2 DEF Cpu
  <1>7. QED
    BY <1>1, <1>2, <1>3, <1>4, <1>5, <1>6

\* What a CPU must hold it does hold, and the other way round.
LEMMA HeldIs ==
  ASSUME ProcInv, NEW c \in Cpus, NEW k \in LockNames
  PROVE  k \in Held(c) <=> lock[k] = c
  BY DEF ProcInv, LocksOK, Holds

\* A process whose lock its CPU does not hold runs.
LEMMA CurrentRuns ==
  ASSUME ProcInv, NEW c \in Cpus, NEW p \in Procs, cpu[c].proc = p, lock[PLock(p)] # c
  PROVE  /\ cpu[c].sched = "run" /\ proc[p].state = "RUNNING" /\ proc[p].yl \in {"none", "lock"}
  <1>1. CpuOK(c) /\ PLock(p) \in LockNames /\ p # Nil
    BY Names, NoNames DEF ProcInv
  <1>2. PLock(p) \notin Held(c)
    BY <1>1, HeldIs
  <1>3. cpu[c].sched \in {"loop", "lock", "take", "run", "back"}
    BY FieldTypes DEF ProcInv, Cpu
  <1>4. cpu[c].sched \notin {"loop", "lock"}
    BY <1>1 DEF CpuOK
  <1>5. cpu[c].sched \notin {"take", "back"}
    BY <1>2 DEF Held, SchedKept
  <1>6. cpu[c].sched = "run"
    BY <1>3, <1>4, <1>5
  <1>7. proc[p].yl # "add"
    BY <1>2, <1>6 DEF Held, SchedKept, Kept
  <1>8. QED
    BY <1>1, <1>6, <1>7 DEF CpuOK

\* The lock of a process that is about to join or leave a list is held.
LEMMA AddsLocked ==
  ASSUME ProcInv, NEW c \in Cpus, NEW p \in Adds(c)
  PROVE  /\ p \in Procs /\ lock[PLock(p)] = c
         /\ proc[p].state \in {"RUNNABLE", "UNUSED"}
  <1>1. CpuOK(c) /\ TypeOK
    BY DEF ProcInv
  <1>2. CASE cpu[c].wk = "add"
    <2>1. p = cpu[c].wi /\ p \in Procs /\ proc[p].state = "RUNNABLE"
      BY <1>1, <1>2 DEF Adds, CpuOK
    <2>2. PLock(p) \in Held(c)
      BY <1>2, <2>1 DEF Held, WakeKept
    <2>3. QED
      BY <2>1, <2>2, HeldIs, Names
  <1>3. CASE cpu[c].wk # "add"
    <2> DEFINE q == cpu[c].proc
    <2>1. cpu[c].sched = "run" /\ q \in Procs
      BY <1>1, <1>3, FieldTypes DEF Adds, CpuOK
    <2>2. WorkOK(q)
      BY <2>1 DEF ProcInv
    <2>3. CASE proc[q].yl = "add"
      <3>1. p = q
        BY <1>3, <2>1, <2>3 DEF Adds
      <3>2. proc[p].state = "RUNNABLE"
        BY <1>1, <2>1, <2>3, <3>1 DEF CpuOK
      <3>3. PLock(p) \in Held(c)
        BY <2>1, <2>3, <3>1 DEF Held, SchedKept, Kept
      <3>4. QED
        BY <2>1, <3>1, <3>2, <3>3, HeldIs, Names
    <2>4. CASE proc[q].yl # "add"
      <3>1. p = proc[q].loc /\ proc[q].pc \in {"fkAdmit", "wtFree", "klAdd"}
        BY <1>3, <2>1, <2>4 DEF Adds
      <3>2. p \in Procs /\ proc[p].state \in {"RUNNABLE", "UNUSED"}
        BY <2>2, <3>1 DEF WorkOK
      <3>3. PLock(p) \in Held(c)
        BY <2>1, <2>4, <3>1 DEF Held, SchedKept, Kept
      <3>4. QED
        BY <3>2, <3>3, HeldIs, Names
    <2>5. QED
      BY <2>3, <2>4
  <1>4. QED
    BY <1>2, <1>3

\* The process that scheduler() is about to take off its list is locked, current and RUNNING.
LEMMA TakesLocked ==
  ASSUME ProcInv, NEW c \in Cpus, NEW p \in Takes(c)
  PROVE  /\ p \in Procs /\ lock[PLock(p)] = c /\ cpu[c].proc = p
         /\ proc[p].state = "RUNNING"
  <1>1. CpuOK(c) /\ TypeOK
    BY DEF ProcInv
  <1>2. cpu[c].sched = "take" /\ p = cpu[c].pick
    BY DEF Takes
  <1>3. p = cpu[c].proc /\ proc[p].state = "RUNNING" /\ p \in Procs
    BY <1>1, <1>2, FieldTypes DEF CpuOK
  <1>4. PLock(p) \in Held(c)
    BY <1>2, <1>3 DEF Held, SchedKept
  <1>5. QED
    BY <1>3, <1>4, HeldIs, Names

\* A process that is on no CPU but c, and whose lock no CPU but c holds, is c's to change.
Owned(c, x) == \A d \in Cpus \ {c} : cpu[d].proc # x /\ lock[PLock(x)] # d

\* A thread that holds a lock in its code is the current one of a CPU, ...
LEMMA LockPcRuns ==
  ASSUME ProcInv, NEW q \in Procs, proc[q].pc \in LockPcs
  PROVE  /\ proc[q].state = "RUNNING" /\ proc[q].yl = "none"
         /\ \E d \in Cpus : cpu[d].proc = q /\ cpu[d].sched = "run" /\ Kept(q) \subseteq Held(d)
  <1>1. TypeOK /\ ThreadOK(q)
    BY DEF ProcInv
  <1>2. proc[q].state \in {"UNUSED", "USED", "SLEEPING", "RUNNABLE", "RUNNING", "ZOMBIE"}
    BY <1>1, FieldTypes DEF Thread
  <1>3. proc[q].pc \notin {"none", "forkret"} \cup AsleepPcs \cup FreePcs
    BY DEF LockPcs, AsleepPcs, FreePcs
  <1>4. proc[q].state = "RUNNING"
    BY <1>1, <1>2, <1>3 DEF ThreadOK, Ready
  <1>5. PICK d \in Cpus : cpu[d].proc = q
    BY <1>1, <1>4 DEF ThreadOK
  <1>6. CpuOK(d) /\ q # Nil
    BY NoNames DEF ProcInv
  <1>7. cpu[d].sched \in {"loop", "lock", "take", "run", "back"}
    BY <1>1, FieldTypes DEF Cpu
  <1>8. cpu[d].sched = "run"
    BY <1>3, <1>4, <1>5, <1>6, <1>7 DEF CpuOK, Ready
  <1>9. proc[q].yl = "none"
    BY <1>3, <1>4, <1>5, <1>6, <1>8 DEF CpuOK
  <1>10. Kept(q) \subseteq Held(d)
    BY <1>5, <1>8 DEF Held, SchedKept
  <1>11. QED
    BY <1>4, <1>5, <1>8, <1>9, <1>10

\* ... and the locks it keeps are held by no other CPU.
LEMMA KeptHeld ==
  ASSUME ProcInv, NEW q \in Procs, proc[q].pc \in LockPcs, NEW k \in Kept(q), k \in LockNames
  PROVE  \E d \in Cpus : cpu[d].proc = q /\ cpu[d].sched = "run" /\ lock[k] = d
  <1>1. PICK d \in Cpus : cpu[d].proc = q /\ cpu[d].sched = "run" /\ Kept(q) \subseteq Held(d)
    BY LockPcRuns
  <1>2. k \in Held(d)
    BY <1>1
  <1>3. QED
    BY <1>1, <1>2, HeldIs

\* The process that a thread works on while it holds that process's lock.
GripPcs == {"fkTake", "fkFail", "fkAdmit", "klAdd", "wtFree"}

\* A thread that has locked the process it works on: that process is not running.
LEMMA WorkGripped ==
  ASSUME ProcInv, NEW q \in Procs,
         \/ proc[q].pc \in GripPcs
         \/ proc[q].pc \in {"panic", "wild"} /\ proc[q].loc # Nil
  PROVE  /\ proc[q].loc \in Procs
         /\ proc[proc[q].loc].state \in {"UNUSED", "USED", "RUNNABLE"}
         /\ \E d \in Cpus : cpu[d].proc = q /\ cpu[d].sched = "run" /\ lock[PLock(proc[q].loc)] = d
  <1>1. WorkOK(q) /\ proc[q].pc \in LockPcs
    BY DEF ProcInv, GripPcs, LockPcs
  <1>2. /\ proc[q].loc \in Procs
        /\ proc[proc[q].loc].state \in {"UNUSED", "USED", "RUNNABLE"}
    BY <1>1, NoNames DEF WorkOK, GripPcs
  <1>3. proc[q].yl = "none"
    BY <1>1, LockPcRuns
  <1>4. PLock(proc[q].loc) \in Kept(q)
    BY <1>3 DEF Kept, GripPcs
  <1>5. PLock(proc[q].loc) \in LockNames
    BY <1>2, Names
  <1>6. QED
    BY <1>1, <1>2, <1>4, <1>5, KeptHeld

\* The process that runs on c is c's to change.
LEMMA OwnRunning ==
  ASSUME ProcInv, NEW c \in Cpus, NEW x \in Procs, cpu[c].proc = x
  PROVE  Owned(c, x)
  <1> SUFFICES ASSUME NEW d \in Cpus, d # c PROVE cpu[d].proc # x /\ lock[PLock(x)] # d
    BY DEF Owned
  <1>1. cpu[d].proc # x
    BY NoNames DEF ProcInv, OneCpu
  <1>2. SUFFICES ASSUME lock[PLock(x)] = d PROVE FALSE
    BY <1>1
  <1>3. proc[x].state = "RUNNING"
    BY <1>2, CurrentRuns
  <1>4. PLock(x) \in Held(d) /\ CpuOK(d) /\ TypeOK
    BY <1>2, HeldIs, Names DEF ProcInv
  <1>5. PLock(x) \notin WakeKept(d)
    <2>1. SUFFICES ASSUME cpu[d].wk = "add" PROVE PLock(cpu[d].wi) # PLock(x)
      BY DEF WakeKept
    <2>2. cpu[d].wi \in Procs /\ proc[cpu[d].wi].state = "RUNNABLE"
      BY <1>4, <2>1 DEF CpuOK
    <2>3. QED
      BY <1>3, <2>2, NamesDiffer
  <1>6. PLock(x) \notin IntrKept(d)
    BY NamesDiffer DEF IntrKept
  <1>7. PLock(x) \in SchedKept(d)
    BY <1>4, <1>5, <1>6 DEF Held
  <1>8. cpu[d].sched # "lock"
    BY <1>7, NamesDiffer DEF SchedKept
  <1>9. cpu[d].sched \in {"take", "run", "back"}
    BY <1>7, <1>8 DEF SchedKept
  <1>10. cpu[d].proc \in Procs
    BY <1>4, <1>9, FieldTypes DEF CpuOK
  <1>11. cpu[d].sched = "run" /\ PLock(x) \in Kept(cpu[d].proc)
    BY <1>1, <1>7, <1>9, <1>10, NamesDiffer DEF SchedKept
  <1> DEFINE q == cpu[d].proc
  <1>12. \/ proc[q].pc \in GripPcs
         \/ proc[q].pc \in {"panic", "wild"} /\ proc[q].loc # Nil
    BY <1>1, <1>10, <1>11, NamesDiffer DEF Kept, GripPcs
  <1>13. /\ proc[q].loc \in Procs
         /\ proc[proc[q].loc].state \in {"UNUSED", "USED", "RUNNABLE"}
    BY <1>10, <1>12, WorkGripped
  <1>14. PLock(x) # PLock(proc[q].loc)
    BY <1>3, <1>13, NamesDiffer
  <1>15. proc[q].yl # "add"
    BY <1>1, <1>10, <1>11, NamesDiffer DEF Kept
  <1>16. PLock(x) \notin Kept(q)
    BY <1>12, <1>14, <1>15, NamesDiffer DEF Kept, GripPcs
  <1>17. QED
    BY <1>11, <1>16

\* A thread in kernel code is RUNNING, and its CPU alone deals with it.
LEMMA InKernelRuns ==
  ASSUME ProcInv, NEW c \in Cpus, NEW p \in Procs, InKernel(c, p)
  PROVE  /\ proc[p].state = "RUNNING" /\ proc[p].pc \in FreePcs \cup LockPcs /\ Owned(c, p)
         /\ \A d \in Cpus : p \notin Takes(d) /\ p \notin Adds(d)
  <1>1. CpuOK(c) /\ cpu[c].proc = p /\ cpu[c].sched = "run" /\ proc[p].yl = "none"
    BY DEF ProcInv, InKernel
  <1>2. proc[p].state = "RUNNING" /\ proc[p].pc \in FreePcs \cup LockPcs
    BY <1>1 DEF CpuOK
  <1>3. Owned(c, p)
    BY <1>1, OwnRunning
  <1>4. ASSUME NEW d \in Cpus PROVE p \notin Adds(d)
    <2>1. SUFFICES ASSUME p \in Adds(d) PROVE FALSE
      OBVIOUS
    <2>2. proc[p].state \in {"RUNNABLE", "UNUSED"}
      BY <2>1, AddsLocked
    <2>3. QED
      BY <1>2, <2>2
  <1>5. ASSUME NEW d \in Cpus PROVE p \notin Takes(d)
    <2>1. SUFFICES ASSUME p \in Takes(d) PROVE FALSE
      OBVIOUS
    <2>2. cpu[d].proc = p /\ cpu[d].sched = "take"
      BY <2>1, TakesLocked DEF Takes
    <2>3. QED
      BY <1>1, <1>3, <2>2 DEF Owned
  <1>6. QED
    BY <1>2, <1>3, <1>4, <1>5

\* A thread that returns from its system call.
LEMMA DoneIs ==
  ASSUME NEW t \in Thread
  PROVE  LET u == Done(t)
         IN  /\ u \in Thread /\ u.pc = "sysret" /\ u.loc = Nil
             /\ u.state = t.state /\ u.yl = t.yl /\ u.chan = t.chan
             /\ u.parent = t.parent /\ u.left = t.left /\ u.disk = t.disk
  <1>1. "sysret" \in Labels
    BY DEF Labels
  <1>2. QED
    BY <1>1 DEF Done, Thread

-----------------------------------------------------------------------------
(* Lists, wakeup() and interrupts                                          *)

\* A process on a list that no one is moving is in the state of that list.
LEMMA ListedState ==
  ASSUME ProcInv, NEW x \in Procs, NEW k \in ListNames, OnList(x, k), Free(PLock(x))
  PROVE  proc[x].state # "RUNNING" /\ k \in ListOf(proc[x].state) /\ \A d \in Cpus : x \notin Adds(d) /\ x \notin Takes(d)
  <1>1. \A d \in Cpus : x \notin Adds(d)
    <2> SUFFICES ASSUME NEW d \in Cpus, x \in Adds(d) PROVE FALSE
      OBVIOUS
    <2>1. lock[PLock(x)] = d
      BY AddsLocked
    <2>2. QED
      BY <2>1, NoNames DEF Free
  <1>2. \A d \in Cpus : x \notin Takes(d)
    <2> SUFFICES ASSUME NEW d \in Cpus, x \in Takes(d) PROVE FALSE
      OBVIOUS
    <2>1. lock[PLock(x)] = d
      BY TakesLocked
    <2>2. QED
      BY <2>1, NoNames DEF Free
  <1>3. k \in Place(x)
    BY DEF ProcInv, Listed
  <1>4. proc[x].state # "RUNNING"
    BY <1>1, <1>2, <1>3 DEF Place
  <1>5. QED
    BY <1>1, <1>2, <1>3, <1>4 DEF Place

\* Only unused entries belong on the unused list.
LEMMA ListOfUnused ==
  ASSUME NEW st, Unused \in ListOf(st)
  PROVE  st = "UNUSED"
  BY DEF ListOf, Unused, Zombie, Sleeping, Runnable

\* The CPU record when wakeup() begins, ...
LEMMA WakeBeginIs ==
  ASSUME NEW r \in Cpu, NEW ch \in Chans \cup {Nil}
  PROVE  LET s == WakeBegin(r, ch)
         IN  /\ s \in Cpu /\ s.wk = "scan" /\ s.wchan = ch /\ s.wi = WakeFrom(r, 0)
             /\ s.proc = r.proc /\ s.sched = r.sched /\ s.pick = r.pick /\ s.intr = r.intr
  <1>1. WakeFrom(r, 0) \in 0 .. NPROC + 1
    BY SMT, ProcAssumption DEF WakeFrom
  <1>2. QED
    BY <1>1 DEF WakeBegin, Cpu

\* ... goes on, ...
LEMMA WakeNextIs ==
  ASSUME NEW r \in Cpu, r.wi < NPROC
  PROVE  LET s == WakeNext(r)
         IN  /\ s \in Cpu /\ s.wk = "scan" /\ s.wchan = r.wchan /\ s.wi = WakeFrom(r, r.wi + 1)
             /\ s.proc = r.proc /\ s.sched = r.sched /\ s.pick = r.pick /\ s.intr = r.intr
  <1>1. r.wi \in 0 .. NPROC + 1 /\ r.proc \in Procs \cup {Nil}
    BY DEF Cpu
  <1>2. WakeFrom(r, r.wi + 1) \in 0 .. NPROC + 1
    BY SMT, <1>1, ProcAssumption DEF WakeFrom, Procs, Nil
  <1>3. QED
    BY <1>2 DEF WakeNext, Cpu

\* ... and ends.
LEMMA WakeEndIs ==
  ASSUME NEW r \in Cpu
  PROVE  LET s == WakeEnd(r)
         IN  /\ s \in Cpu /\ s.wk = "none" /\ s.proc = r.proc /\ s.sched = r.sched
             /\ s.pick = r.pick /\ s.intr = r.intr
  <1>1. 0 \in 0 .. NPROC + 1
    BY SMT, ProcAssumption
  <1>2. QED
    BY <1>1 DEF WakeEnd, Cpu

\* Where an interrupt can come: in the scheduler's loop, or in code without locks.
LEMMA InterruptibleIs ==
  ASSUME ProcInv, NEW c \in Cpus, Interruptible(c)
  PROVE  /\ cpu[c].intr = "none" /\ cpu[c].wk = "none" /\ Held(c) = {} /\ Adds(c) = {}
         /\ cpu[c].sched \in {"loop", "run"}
         /\ cpu[c].sched = "loop" => cpu[c].proc = Nil
         /\ cpu[c].sched = "run" => /\ cpu[c].proc \in Procs /\ proc[cpu[c].proc].yl = "none"
                                    /\ proc[cpu[c].proc].pc \in FreePcs
                                    /\ proc[cpu[c].proc].state = "RUNNING"
  <1> DEFINE p == cpu[c].proc
  <1>1. TypeOK /\ CpuOK(c) /\ Held(c) = {} /\ p \in Procs \cup {Nil}
    BY FieldTypes DEF ProcInv, LocksOK, Interruptible
  <1>2. cpu[c].intr = "none" /\ cpu[c].wk = "none" /\ cpu[c].sched \in {"loop", "run"}
    BY DEF Interruptible
  <1>3. cpu[c].sched = "loop" => p = Nil
    BY <1>1 DEF CpuOK
  <1>4. ASSUME cpu[c].sched = "run"
        PROVE  p \in Procs /\ proc[p].yl = "none" /\ proc[p].pc \in FreePcs /\ proc[p].state = "RUNNING"
    <2>1. proc[p].yl = "none" /\ proc[p].pc \notin {"panic", "wild"}
      BY <1>4 DEF Interruptible
    <2>2. Kept(p) = {}
      BY <1>1, <1>4 DEF Held, SchedKept
    <2>3. proc[p].pc \notin LockPcs
      BY <2>1, <2>2 DEF Kept, LockPcs
    <2>4. QED
      BY <1>1, <1>4, <2>1, <2>3 DEF CpuOK
  <1>5. Adds(c) = {}
    BY <1>2, <1>4 DEF Adds, FreePcs
  <1>6. QED
    BY <1>1, <1>2, <1>3, <1>4, <1>5

-----------------------------------------------------------------------------
(* The states of the processes                                             *)

\* Where a step takes them: nowhere, or along an edge of LifeCycle.
Along == \A p \in Procs : proc'[p].state # proc[p].state => <<proc[p].state, proc'[p].state>> \in Edges

\* One step of a thread in its own code changes no state, ...
LEMMA OwnAlong ==
  ASSUME ProcInv, NEW c \in Cpus, NEW p \in Procs,
         \/ SysReturn(c, p) \/ ForkNone(c, p) \/ ForkPeek(c, p) \/ ForkFail(c, p) \/ ForkAdmit(c, p)
         \/ SleepStart(c, p) \/ SleepAgain(c, p) \/ DiskStart(c, p) \/ DiskAgain(c, p)
         \/ WaitEnter(c, p) \/ WaitFree(c, p) \/ WaitDecide(c, p) \/ InitExits(c, p) \/ ExitStart(c, p)
         \/ KillPass(c, p) \/ KillAdd(c, p) \/ SetCpu(c, p) \/ YieldAdd(c, p)
         \/ \E np \in Procs : WaitPass(c, p, np) \/ WaitNoCopy(c, p, np)
         \/ \E call \in Calls : Syscall(c, p, call)
  PROVE  Along
  <1>0. proc \in [Procs -> Thread] /\ proc[p] \in Thread
    BY FieldTypes DEF ProcInv, TypeOK
  <1>1. ASSUME NEW t, proc' = [proc EXCEPT ![p] = t], t.state = proc[p].state PROVE Along
    BY <1>0, <1>1 DEF Along
  <1>2. ASSUME NEW u \in Thread, u.state = proc[p].state, proc' = [proc EXCEPT ![p] = Done(u)] PROVE Along
    BY <1>1, <1>2, DoneIs
  <1>3. CASE ForkNone(c, p) \/ ForkAdmit(c, p) \/ WaitFree(c, p) \/ KillAdd(c, p) \/ \E np \in Procs : WaitNoCopy(c, p, np)
    BY <1>0, <1>2, <1>3 DEF ForkNone, ForkAdmit, WaitFree, KillAdd, WaitNoCopy
  <1>4. CASE SysReturn(c, p) \/ ForkPeek(c, p) \/ ForkFail(c, p) \/ WaitEnter(c, p) \/ InitExits(c, p) \/ ExitStart(c, p)
    <2>1. ASSUME NEW l, \/ proc' = [proc EXCEPT ![p].pc = l]
                        \/ \E k : proc' = [proc EXCEPT ![p].pc = l, ![p].loc = k] PROVE Along
      <3>1. CASE proc' = [proc EXCEPT ![p].pc = l]
        BY SMT, <1>0, <3>1 DEF Along, Thread
      <3>2. ASSUME NEW k, proc' = [proc EXCEPT ![p].pc = l, ![p].loc = k] PROVE Along
        BY SMT, <1>0, <3>2 DEF Along, Thread
      <3>3. QED
        BY <2>1, <3>1, <3>2
    <2>2. QED
      BY <1>4, <2>1 DEF SysReturn, ForkPeek, ForkFail, WaitEnter, InitExits, ExitStart
  <1>5. CASE YieldAdd(c, p) \/ \E np \in Procs : WaitPass(c, p, np)
    BY SMT, <1>0, <1>5 DEF YieldAdd, WaitPass, Along, Thread
  <1>6. ASSUME NEW call \in Calls, Syscall(c, p, call) PROVE Along
    <2>1. PICK l, k : proc' = [proc EXCEPT ![p].pc = l, ![p].loc = 0, ![p].tgt = k]
      BY <1>6 DEF Syscall
    <2>2. QED
      BY SMT, <1>0, <2>1 DEF Along, Thread
  <1>7. CASE WaitDecide(c, p) \/ KillPass(c, p) \/ SetCpu(c, p)
    <2>1. CASE WaitDecide(c, p)
      <3>1. CASE Children(p) = {} \/ proc[p].killed
        BY <1>0, <1>2, <2>1, <3>1 DEF WaitDecide
      <3>2. CASE ~(Children(p) = {} \/ proc[p].killed)
        BY SMT, <1>0, <2>1, <3>2 DEF WaitDecide, Along, Thread
      <3>3. QED
        BY <3>1, <3>2
    <2>2. CASE KillPass(c, p)
      <3>1. CASE proc[p].loc + 1 = NPROC
        BY <1>0, <1>2, <2>2, <3>1 DEF KillPass
      <3>2. CASE proc[p].loc + 1 # NPROC
        BY SMT, <1>0, <2>2, <3>2 DEF KillPass, Along, Thread
      <3>3. QED
        BY <3>1, <3>2
    <2>3. CASE SetCpu(c, p)
      <3>1. PICK u : u = Done(proc[p])
        OBVIOUS
      <3>2. u \in Thread /\ u.state = proc[p].state
        BY <1>0, <3>1, DoneIs
      <3>3. PICK n \in Cpus : proc' = [proc EXCEPT ![p] = [u EXCEPT !.cpu_num = n]]
        BY <2>3, <3>1, <1>0 DEF SetCpu
      <3>4. PICK t : t = [u EXCEPT !.cpu_num = n]
        OBVIOUS
      <3>5. t.state = u.state
        BY SMT, <3>2, <3>4 DEF Thread
      <3>6. QED
        BY <1>1, <3>2, <3>3, <3>4, <3>5
    <2>4. QED
      BY <1>7, <2>1, <2>2, <2>3
  <1>8. ASSUME NEW lk, NEW r, NEW l, NEW u \in Thread, u.state = proc[p].state, Test(c, p, lk, r, l, u)
        PROVE  Along
    <2>1. CASE r
      BY <1>2, <1>8, <2>1 DEF Test
    <2>2. CASE ~r
      <3>1. PICK t : t = [u EXCEPT !.pc = l]
        OBVIOUS
      <3>2. t.state = u.state
        BY <1>8, <3>1 DEF Thread
      <3>3. QED
        BY <1>1, <1>8, <2>2, <3>1, <3>2 DEF Test
    <2>3. QED
      BY <2>1, <2>2
  <1>9. ASSUME NEW n \in 0 .. TickMod - 1, SleepTest(c, p, n) PROVE Along
    <2>1. PICK m \in 0 .. TickMod - 1 : m = IF proc[p].killed THEN 0 ELSE n
      <3>1. 0 \in 0 .. TickMod - 1
        BY SMT, ProcAssumption
      <3>2. QED
        BY <3>1
    <2>2. PICK u : u = [proc[p] EXCEPT !.left = m]
      OBVIOUS
    <2>3. u \in Thread /\ u.state = proc[p].state
      BY <1>0, <2>2 DEF Thread
    <2>4. QED
      BY <1>8, <1>9, <2>1, <2>2, <2>3 DEF SleepTest
  <1>10. CASE SleepStart(c, p) \/ SleepAgain(c, p)
    <2>1. PICK n : n \in 0 .. TickMod - 1 /\ SleepTest(c, p, n)
      <3>1. \A n \in SleepArgs : n % TickMod \in 0 .. TickMod - 1
        BY SMT, ProcAssumption
      <3>2. proc[p].left \in 0 .. TickMod - 1
        BY <1>0 DEF Thread
      <3>3. QED
        BY <1>10, <3>1, <3>2 DEF SleepStart, SleepAgain
    <2>2. QED
      BY <1>9, <2>1
  <1>11. CASE DiskStart(c, p) \/ DiskAgain(c, p)
    <2>1. PICK u : u = [proc[p] EXCEPT !.disk = TRUE]
      OBVIOUS
    <2>2. u \in Thread /\ u.state = proc[p].state
      BY <1>0, <2>1 DEF Thread
    <2>3. QED
      BY <1>0, <1>8, <1>11, <2>1, <2>2 DEF DiskStart, DiskAgain
  <1>12. QED
    BY <1>3, <1>4, <1>5, <1>6, <1>7, <1>10, <1>11

\* ... nor does one of scheduler(), wakeup() or an interrupt, other than those that are about a state.
LEMMA CpuAlong ==
  ASSUME ProcInv, NEW c \in Cpus,
         \/ SchedPeek(c) \/ SchedBack(c) \/ SchedSwitch(c) \/ WakePass(c) \/ WakeAdd(c)
         \/ ClockIntr(c) \/ Preempt(c) \/ IntrDone(c) \/ \E p \in Procs : DiskIntr(c, p)
  PROVE  Along
  <1>0. proc \in [Procs -> Thread]
    BY DEF ProcInv, TypeOK
  <1>1. proc' = proc => Along
    BY DEF Along
  <1>2. CASE SchedPeek(c) \/ SchedBack(c) \/ WakePass(c) \/ WakeAdd(c)
    BY <1>1, <1>2 DEF SchedPeek, SchedBack, WakePass, WakeAdd
  <1>3. CASE SchedSwitch(c)
    <2>1. \A t \in Thread : Resume(t).state = t.state
      BY SMT DEF Resume, Thread
    <2>2. QED
      BY <1>0, <1>3, <2>1 DEF SchedSwitch, Along
  <1>4. CASE ClockIntr(c) \/ \E p \in Procs : DiskIntr(c, p)
    BY SMT, <1>0, <1>4 DEF ClockIntr, DiskIntr, Along, Thread
  <1>5. ASSUME NEW timer, EndTrap(c, timer) PROVE Along
    BY SMT, <1>0, <1>5 DEF EndTrap, Along, Thread
  <1>6. CASE Preempt(c) \/ IntrDone(c)
    BY <1>5, <1>6 DEF Preempt, IntrDone
  <1>7. QED
    BY <1>2, <1>3, <1>4, <1>6

\* fork(), wait() and kill() on another process.
LEMMA PairAlong ==
  ASSUME ~BLNCFLG, ProcInv, NEW c \in Cpus, NEW p \in Procs,
         \/ ForkLock(c, p) \/ ForkTake(c, p) \/ ForkParent(c, p) \/ ForkReady(c, p)
         \/ KillMark(c, p) \/ KillWake(c, p) \/ Reparent(c, p)
         \/ \E np \in Procs : WaitReap(c, p, np)
  PROVE  Along
  <1>0. proc \in [Procs -> Thread] /\ WorkOK(p)
    BY DEF ProcInv, TypeOK
  <1>1. CASE ForkLock(c, p) \/ ForkParent(c, p)
    <2>1. PICK i : i = proc[p].loc
      OBVIOUS
    <2>2. i \in Procs
      BY <1>0, <1>1, <2>1 DEF ForkLock, ForkParent, At, WorkOK
    <2>3. CASE ForkLock(c, p)
      <3>1. proc' = [proc EXCEPT ![i].pid = nextpid, ![p].pc = "fkTake"]
        BY <2>1, <2>3 DEF ForkLock
      <3>2. QED
        BY SMT, <1>0, <2>2, <3>1 DEF Along, Thread
    <2>4. CASE ForkParent(c, p)
      <3>1. proc' = [proc EXCEPT ![i].parent = p, ![p].pc = "fkReady"]
        BY <2>1, <2>4 DEF ForkParent
      <3>2. QED
        BY SMT, <1>0, <2>2, <3>1 DEF Along, Thread
    <2>5. QED
      BY <1>1, <2>3, <2>4
  <1>2. CASE ForkTake(c, p)
    <2>1. PICK i : i = proc[p].loc
      OBVIOUS
    <2>2. i \in Procs /\ proc[i].state = "UNUSED"
      BY <1>0, <1>2, <2>1 DEF ForkTake, At, WorkOK
    <2>3. PICK l : proc' = [proc EXCEPT ![i].state = "USED", ![i].pc = "forkret", ![p].pc = l]
      BY <1>2, <2>1 DEF ForkTake
    <2>4. <<"UNUSED", "USED">> \in Edges
      BY DEF Edges
    <2>5. \A q \in Procs : proc'[q].state = IF q = i THEN "USED" ELSE proc[q].state
      BY SMT, <1>0, <2>2, <2>3 DEF Thread
    <2>6. QED
      BY <2>2, <2>4, <2>5 DEF Along
  <1>3. CASE ForkReady(c, p)
    <2>1. PICK i : i = proc[p].loc
      OBVIOUS
    <2>2. i \in Procs /\ proc[i].state = "USED"
      BY <1>0, <1>3, <2>1 DEF ForkReady, At, WorkOK
    <2>3. proc' = [proc EXCEPT ![i].state = "RUNNABLE", ![p].pc = "fkAdmit"]
      BY <1>3, <2>1 DEF ForkReady, Balanced
    <2>4. <<"USED", "RUNNABLE">> \in Edges
      BY DEF Edges
    <2>5. \A q \in Procs : proc'[q].state = IF q = i THEN "RUNNABLE" ELSE proc[q].state
      BY SMT, <1>0, <2>2, <2>3 DEF Thread
    <2>6. QED
      BY <2>2, <2>4, <2>5 DEF Along
  <1>4. CASE KillMark(c, p)
    <2>1. PICK i : i = proc[p].loc
      OBVIOUS
    <2>2. i \in Procs
      BY <1>0, <1>4, <2>1 DEF KillMark, At, WorkOK
    <2>3. PICK u : u = Done(proc[p])
      OBVIOUS
    <2>4. u \in Thread /\ u.state = proc[p].state
      BY <1>0, <2>3, DoneIs
    <2>5. PICK f : f = [proc EXCEPT ![p] = u]
      OBVIOUS
    <2>6. f \in [Procs -> Thread] /\ \A q \in Procs : f[q].state = proc[q].state
      BY <1>0, <2>4, <2>5
    <2>7. proc' = [f EXCEPT ![i].killed = TRUE]
      BY <1>0, <1>4, <2>1, <2>3, <2>5 DEF KillMark
    <2>8. QED
      BY SMT, <2>2, <2>6, <2>7 DEF Along, Thread
  <1>5. CASE KillWake(c, p)
    <2>1. PICK i : i = proc[p].loc
      OBVIOUS
    <2>2. i \in Procs /\ proc[i].state = "SLEEPING"
      BY <1>0, <1>5, <2>1 DEF KillWake, At, WorkOK
    <2>3. proc' = [proc EXCEPT ![i].killed = TRUE, ![i].state = "RUNNABLE", ![p].pc = "klAdd"]
      BY <1>5, <2>1 DEF KillWake
    <2>4. <<"SLEEPING", "RUNNABLE">> \in Edges
      BY DEF Edges
    <2>5. \A q \in Procs : proc'[q].state = IF q = i THEN "RUNNABLE" ELSE proc[q].state
      BY SMT, <1>0, <2>2, <2>3 DEF Thread
    <2>6. QED
      BY <2>2, <2>4, <2>5 DEF Along
  <1>6. CASE Reparent(c, p)
    <2>1. CASE proc' = [proc EXCEPT ![p].pc = "exZombie"]
      BY SMT, <1>0, <2>1 DEF Along, Thread
    <2>2. ASSUME NEW k \in Procs, proc' = [proc EXCEPT ![k].parent = InitProc, ![p].loc = k + 1] PROVE Along
      BY SMT, <1>0, <2>2 DEF Along, Thread
    <2>3. QED
      BY <1>6, <2>1, <2>2 DEF Reparent, KidsFrom, Children
  <1>7. CASE \E np \in Procs : WaitReap(c, p, np)
    <2>1. PICK np \in Procs : WaitReap(c, p, np)
      BY <1>7
    <2>2. np # p /\ proc[np].state = "ZOMBIE"
      BY <2>1, InKernelRuns DEF WaitReap, WaitSees, At
    <2>3. PICK t : t = [proc[np] EXCEPT !.pid = 0, !.parent = Nil, !.chan = Nil, !.killed = FALSE, !.state = "UNUSED"]
      OBVIOUS
    <2>4. t.state = "UNUSED"
      BY SMT, <1>0, <2>3 DEF Thread
    <2>5. proc' = [proc EXCEPT ![np] = t, ![p].pc = "wtFree", ![p].loc = np]
      BY <1>0, <2>1, <2>3 DEF WaitReap
    <2>6. QED
      BY SMT, <1>0, <2>2, <2>4, <2>5 DEF Along, Thread, Edges
  <1>8. QED
    BY <1>1, <1>2, <1>3, <1>4, <1>5, <1>6, <1>7

\* scheduler(), yield(), sleep(), exit() and wakeup() change one state each.
LEMMA MoveAlong ==
  ASSUME ~BLNCFLG, ProcInv, NEW c \in Cpus,
         \/ SchedLock(c) \/ WakeTake(c)
         \/ \E p \in Procs : \/ YieldLock(c, p) \/ SleepWait(c, p) \/ DiskWait(c, p) \/ WaitSleep(c, p)
                             \/ ExitZombie(c, p)
  PROVE  Along
  <1>0. proc \in [Procs -> Thread] /\ CpuOK(c) /\ TypeOK
    BY DEF ProcInv, TypeOK
  <1>1. ASSUME NEW i \in Procs, NEW t, proc' = [proc EXCEPT ![i] = t], <<proc[i].state, t.state>> \in Edges PROVE Along
    BY <1>0, <1>1 DEF Along
  <1>2. CASE SchedLock(c)
    <2>1. PICK p : p = cpu[c].pick
      OBVIOUS
    <2>2. p \in Procs /\ OnList(p, Runnable(c))
      BY <1>0, <1>2, <2>1 DEF SchedLock, CpuOK
    <2>3. proc[p].state = "RUNNABLE"
      <3>1. Free(PLock(p)) /\ Runnable(c) \in ListNames
        BY <1>2, <2>1 DEF SchedLock, ListNames
      <3>2. Runnable(c) \in ListOf(proc[p].state)
        BY <2>2, <3>1, ListedState
      <3>3. QED
        BY <3>2 DEF ListOf, Runnable, Unused, Zombie, Sleeping
    <2>4. QED
      BY SMT, <1>0, <1>2, <2>1, <2>2, <2>3 DEF SchedLock, Along, Thread, Edges
  <1>3. CASE WakeTake(c)
    <2>1. PICK i : i = cpu[c].wi
      OBVIOUS
    <2>2. i \in 0 .. NPROC + 1 /\ i < NPROC
      BY <1>0, <1>3, <2>1, FieldTypes DEF WakeTake
    <2>3. i \in Procs
      BY SMT, <2>2, ProcAssumption DEF Procs
    <2>4. QED
      BY SMT, <1>0, <1>3, <2>1, <2>3 DEF WakeTake, Balanced, Along, Thread, Edges
  <1>4. ASSUME NEW p \in Procs, YieldLock(c, p) PROVE Along
    <2>1. proc[p].state = "RUNNING"
      BY <1>0, <1>4 DEF YieldLock, CpuOK
    <2>2. QED
      BY SMT, <1>0, <1>4, <2>1 DEF YieldLock, Along, Thread, Edges
  <1>5. ASSUME NEW p \in Procs, InKernel(c, p), NEW ch, NEW lk, NEW a, Sleep(c, p, ch, lk, a) PROVE Along
    <2>1. proc[p].state = "RUNNING"
      BY <1>5, InKernelRuns
    <2>2. QED
      BY SMT, <1>0, <1>5, <2>1 DEF Sleep, Along, Thread, Edges
  <1>6. ASSUME NEW p \in Procs, ExitZombie(c, p) PROVE Along
    <2>1. proc[p].state = "RUNNING"
      BY <1>6, InKernelRuns DEF ExitZombie
    <2>2. QED
      <3>1. proc' = [proc EXCEPT ![p].state = "ZOMBIE", ![p].pc = "none", ![p].loc = Nil]
        BY <1>6 DEF ExitZombie
      <3>2. QED
        BY SMT, <1>0, <2>1, <3>1 DEF Along, Thread, Edges
  <1>7. QED
    BY <1>2, <1>3, <1>4, <1>5, <1>6 DEF SleepWait, DiskWait, WaitSleep, At

\* Every step goes along.
LEMMA NextAlong ==
  ASSUME ~BLNCFLG, ProcInv, Next
  PROVE  Along
  <1>1. PICK c \in Cpus : \/ CpuStep(c)
                          \/ ClockIntr(c) \/ Preempt(c)
                          \/ \E p \in Procs : DiskIntr(c, p)
                          \/ \E p \in Procs, call \in Calls : Syscall(c, p, call)
    BY DEF Next
  <1>2. ASSUME NEW p \in Procs, ProcStep(c, p) PROVE Along
    BY <1>2, OwnAlong, PairAlong, MoveAlong DEF ProcStep
  <1>3. CASE CpuStep(c)
    BY <1>2, <1>3, OwnAlong, CpuAlong, MoveAlong DEF CpuStep, SchedStep
  <1>4. QED
    BY <1>1, <1>3, OwnAlong, CpuAlong

-----------------------------------------------------------------------------
(* The initial state                                                       *)

\* procinit() and userinit() leave a well-typed state, ...
LEMMA InitTypes == Init => TypeOK
  <1> SUFFICES ASSUME Init PROVE TypeOK
    OBVIOUS
  <1>1. InitProc \in Procs /\ 0 \in Cpus /\ 0 \in 0 .. NPROC /\ 0 \in 0 .. TickMod - 1 /\ 0 \in 0 .. NPROC + 1
    BY SMT, ProcAssumption DEF InitProc, Procs, Cpus
  <1>2. proc \in [Procs -> Thread]
    <2>1. {"none", "forkret"} \subseteq Labels
      BY DEF Labels
    <2>2. ASSUME NEW p \in Procs
          PROVE  [state |-> IF p = InitProc THEN "RUNNABLE" ELSE "UNUSED",
                  pid |-> IF p = InitProc THEN 1 ELSE 0,
                  chan |-> Nil, killed |-> FALSE, parent |-> Nil, cpu_num |-> 0,
                  pc |-> IF p = InitProc THEN "forkret" ELSE "none",
                  loc |-> Nil, tgt |-> 0, yl |-> "none", left |-> 0, disk |-> FALSE] \in Thread
      BY <1>1, <2>1 DEF Thread
    <2>3. QED
      BY <2>2 DEF Init
  <1>3. cpu \in [Cpus -> Cpu]
    <2>1. [proc |-> Nil, procCount |-> 0, sched |-> "loop", pick |-> Nil,
           intr |-> "none", wk |-> "none", wi |-> 0, wchan |-> Nil] \in Cpu
      BY <1>1 DEF Cpu
    <2>2. QED
      BY <2>1 DEF Init
  <1>4. lock \in [LockNames -> Cpus \cup {NoCpu}]
    BY DEF Init
  <1>5. list \in [ListNames -> Seq(Procs)]
    <2>1. [i \in 1 .. NPROC - 1 |-> i] \in Seq(Procs)
      BY SMT, ProcAssumption DEF Procs
    <2>2. <<InitProc>> \in Seq(Procs) /\ << >> \in Seq(Procs)
      BY SMT, <1>1
    <2>3. QED
      BY <2>1, <2>2 DEF Init
  <1>6. QED
    BY <1>2, <1>3, <1>4, <1>5 DEF Init, TypeOK

\* What the initial state says of one process and one CPU.
LEMMA InitFacts ==
  ASSUME Init
  PROVE  /\ \A p \in Procs : /\ proc[p].state = IF p = InitProc THEN "RUNNABLE" ELSE "UNUSED"
                             /\ proc[p].pc = IF p = InitProc THEN "forkret" ELSE "none"
                             /\ proc[p].yl = "none"
         /\ \A c \in Cpus : /\ cpu[c].proc = Nil /\ cpu[c].sched = "loop" /\ cpu[c].intr = "none"
                            /\ cpu[c].wk = "none"
         /\ \A k \in LockNames : lock[k] = NoCpu
  BY DEF Init

\* Which list each process is on at first.
LEMMA InitLists ==
  ASSUME Init
  PROVE  /\ \A p \in Procs, k \in ListNames :
              OnList(p, k) <=> k = IF p = InitProc THEN Runnable(0) ELSE Unused
         /\ ListedOnce
  <1>1. 0 \in Cpus /\ Runnable(0) \in ListNames /\ Unused \in ListNames /\ Runnable(0) # Unused /\ InitProc = 0
    BY SMT, ProcAssumption, Names, NamesDiffer DEF Cpus, InitProc
  <1>2. list[Unused] = [i \in 1 .. NPROC - 1 |-> i] /\ list[Runnable(0)] = <<InitProc>>
    BY <1>1 DEF Init
  <1>3. \A k \in ListNames : k \notin {Unused, Runnable(0)} => list[k] = << >>
    BY DEF Init
  <1>4. Len(list[Unused]) = NPROC - 1 /\ \A i \in 1 .. NPROC - 1 : list[Unused][i] = i
    BY SMT, <1>2, ProcAssumption
  <1>5. Len(list[Runnable(0)]) = 1 /\ list[Runnable(0)][1] = 0
    BY SMT, <1>1, <1>2
  <1>6. \A p \in Procs : OnList(p, Unused) <=> p # 0
    BY SMT, <1>4, ProcAssumption DEF OnList, Procs
  <1>7. \A p \in Procs : OnList(p, Runnable(0)) <=> p = 0
    BY SMT, <1>5 DEF OnList
  <1>8. \A p \in Procs, k \in ListNames : k \notin {Unused, Runnable(0)} => ~OnList(p, k)
    BY SMT, <1>3 DEF OnList
  <1>9. \A p \in Procs, k \in ListNames : OnList(p, k) <=> k = IF p = InitProc THEN Runnable(0) ELSE Unused
    BY <1>1, <1>6, <1>7, <1>8
  <1>10. ListedOnce
    <2> SUFFICES ASSUME NEW p \in Procs, NEW k \in ListNames, NEW m \in ListNames,
                        NEW i \in 1 .. Len(list[k]), NEW j \in 1 .. Len(list[m]),
                        list[k][i] = p, list[m][j] = p
                 PROVE  k = m /\ i = j
      BY SMT DEF ListedOnce
    <2>1. OnList(p, k) /\ OnList(p, m)
      BY DEF OnList
    <2>2. k = m /\ k \in {Unused, Runnable(0)}
      BY <1>9, <2>1
    <2>3. CASE k = Unused
      BY <1>4, <2>2, <2>3
    <2>4. CASE k = Runnable(0)
      BY SMT, <1>5, <2>2, <2>4
    <2>5. QED
      BY <2>2, <2>3, <2>4
  <1>11. QED
    BY <1>9, <1>10

\* ... and the invariant holds in it.
LEMMA InitOK == Init => ProcInv
  <1> SUFFICES ASSUME Init PROVE ProcInv
    OBVIOUS
  <1>1. TypeOK /\ ListedOnce
    BY InitTypes, InitLists
  <1>2. /\ \A p \in Procs : /\ proc[p].state = IF p = InitProc THEN "RUNNABLE" ELSE "UNUSED"
                            /\ proc[p].pc = IF p = InitProc THEN "forkret" ELSE "none"
                            /\ proc[p].yl = "none"
        /\ \A c \in Cpus : /\ cpu[c].proc = Nil /\ cpu[c].sched = "loop" /\ cpu[c].intr = "none"
                           /\ cpu[c].wk = "none"
        /\ \A k \in LockNames : lock[k] = NoCpu
    BY InitFacts
  <1>3. LocksOK
    <2>1. \A c \in Cpus : Held(c) = {}
      BY <1>2 DEF Held, SchedKept, IntrKept, WakeKept
    <2>2. \A c \in Cpus : Holds(c) = {}
      BY <1>2, NoNames DEF Holds
    <2>3. QED
      BY <2>1, <2>2 DEF LocksOK
  <1>4. OneCpu
    BY <1>2 DEF OneCpu
  <1>5. ForksApart
    BY <1>2 DEF ForksApart
  <1>6. \A c \in Cpus : CpuOK(c)
    BY <1>2 DEF CpuOK
  <1>7. \A p \in Procs : ThreadOK(p)
    BY <1>2 DEF ThreadOK, Ready
  <1>8. \A p \in Procs : WorkOK(p)
    BY <1>2 DEF WorkOK
  <1>9. ASSUME NEW p \in Procs PROVE Listed(p)
    <2>1. \A c \in Cpus : Adds(c) = {}
      BY <1>2 DEF Adds
    <2>2. Place(p) = ListOf(proc[p].state)
      BY <1>2, <2>1 DEF Place
    <2>3. 0 \in Cpus
      BY SMT, ProcAssumption DEF Cpus
    <2>4. (IF p = InitProc THEN Runnable(0) ELSE Unused) \in ListOf(proc[p].state)
      BY <1>2, <2>3 DEF ListOf
    <2>5. (IF p = InitProc THEN Runnable(0) ELSE Unused) \in ListNames
      BY <2>3, Names
    <2>6. QED
      BY <2>2, <2>4, <2>5, InitLists DEF Listed
  <1>10. QED
    BY <1>1, <1>3, <1>4, <1>5, <1>6, <1>7, <1>8, <1>9 DEF ProcInv

-----------------------------------------------------------------------------
(* What follows from the invariant                                         *)

\* While nobody holds the lock of a process, it is on the list of its state.
LEMMA ListsFollow == ProcInv => ListsMatchState
  <1> SUFFICES ASSUME ProcInv PROVE ListsMatchState
    OBVIOUS
  <1>1. ASSUME NEW p \in Procs, Free(PLock(p))
        PROVE  /\ \A k \in ListNames : On(p, k) # {} => k \in ListOf(proc[p].state)
               /\ ListOf(proc[p].state) # {} => \E k \in ListNames : On(p, k) # {}
    <2>1. \A d \in Cpus : p \notin Adds(d) /\ p \notin Takes(d)
      <3> TAKE d \in Cpus
      <3>1. p \in Adds(d) => lock[PLock(p)] = d
        BY AddsLocked
      <3>2. p \in Takes(d) => lock[PLock(p)] = d
        BY TakesLocked
      <3>3. QED
        BY <1>1, <3>1, <3>2, NoNames DEF Free
    <2>2. Place(p) = ListOf(proc[p].state)
      <3>1. CASE proc[p].state = "RUNNING"
        BY <2>1, <3>1 DEF Place, ListOf
      <3>2. CASE proc[p].state # "RUNNING"
        BY <2>1, <3>2 DEF Place
      <3>3. QED
        BY <3>1, <3>2
    <2>3. \A k \in ListNames : OnList(p, k) <=> On(p, k) # {}
      BY DEF OnList, On
    <2>4. Listed(p)
      BY <1>1 DEF ProcInv
    <2>5. QED
      BY <2>2, <2>3, <2>4 DEF Listed
  <1>2. \A p \in Procs, k, m \in ListNames : \A i \in On(p, k), j \in On(p, m) : k = m /\ i = j
    <2>1. ListedOnce
      BY DEF ProcInv
    <2>2. QED
      BY SMT, <2>1 DEF ListedOnce, On
  <1>3. QED
    BY <1>1, <1>2 DEF ListsMatchState

\* A process whose lock is free is RUNNING exactly when it is the current one of a CPU.
LEMMA RunsFollow == ProcInv => RunsOnce
  <1> SUFFICES ASSUME ProcInv PROVE RunsOnce
    OBVIOUS
  <1>1. ASSUME NEW p \in Procs, Free(PLock(p))
        PROVE  proc[p].state = "RUNNING" <=> \E c \in Cpus : cpu[c].proc = p
    <2>1. ASSUME proc[p].state = "RUNNING" PROVE \E c \in Cpus : cpu[c].proc = p
      BY <2>1 DEF ProcInv, ThreadOK
    <2>2. ASSUME NEW c \in Cpus, cpu[c].proc = p PROVE proc[p].state = "RUNNING"
      <3>1. lock[PLock(p)] # c
        BY <1>1, NoNames DEF Free
      <3>2. QED
        BY <2>2, <3>1, CurrentRuns
    <2>3. QED
      BY <2>1, <2>2
  <1>2. QED
    BY <1>1 DEF RunsOnce, ProcInv, OneCpu
=============================================================================
