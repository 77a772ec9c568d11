----------------------------- MODULE ProcProofs -----------------------------
(***************************************************************************)
(* The last actions of Proc, those with which fork(), wait() and kill() move*)
(* another process, keep the invariant of module ProcInv; so all do.  Then *)
(* what the invariants of modules ProcInv and ProcWake give for every      *)
(* behaviour of Proc.                                                      *)
(***************************************************************************)
EXTENDS ProcSteps, ProcWake

-----------------------------------------------------------------------------
(* fork(), wait() and kill() move another process                          *)

AddPcs == {"fkAdmit", "wtFree", "klAdd"}

\* Zenon proves the leaves that name no other prover.
USE ZenonT(60)

\* Thread p on c moves process np, which no other CPU works on.
LEMMA PairStep ==
  ASSUME ProcInv, TypeOK', NEW c \in Cpus, NEW p \in Procs, NEW l, At(c, p, l), l \in FreePcs \cup LockPcs,
         NEW np \in Procs, Owned(c, np), proc[np].state # "RUNNING",
         \A q \in Procs : q \notin {p, np} => SameThread(q), cpu' = cpu,
         proc'[p].state = "RUNNING", proc'[p].yl = "none",
         proc'[p].pc \in FreePcs \cup LockPcs, proc'[p].pc # "exZombie",
         l \in AddPcs => proc[p].loc = np, proc'[p].pc \in AddPcs => proc'[p].loc = np,
         LockMove(c, Kept(p), Kept(p)'), Moves(c, np), Placed(c, np)', ForksApart',
         ThreadOK(np)', WorkOK(np)', WorkOK(p)',
         \A q \in Procs : q # p /\ proc[q].pc \in ForkPcs => proc[q].loc # np
  PROVE  ProcInv'
  <1> DEFINE X == {p, np}
  <1>0. X = {p, np}
    OBVIOUS
  <1> HIDE DEF X
  <1>1. /\ cpu[c].sched = "run" /\ cpu[c].proc = p /\ cpu[c].intr = "none" /\ cpu[c].wk = "none"
        /\ proc[p].yl = "none" /\ proc[p].pc = l /\ InKernel(c, p)
    BY DEF At, InKernel
  <1>2. proc[p].state = "RUNNING" /\ Owned(c, p)
    BY <1>1, InKernelRuns
  <1>3. p # np /\ p # Nil
    BY <1>2, NoNames
  <1>4. Held(c) = Kept(p) /\ Held(c)' = Kept(p)'
    <2>1. SchedKept(c) = Kept(p) /\ IntrKept(c) = {} /\ WakeKept(c) = {}
      BY <1>1 DEF SchedKept, IntrKept, WakeKept
    <2>2. SchedKept(c)' = Kept(p)' /\ IntrKept(c)' = {} /\ WakeKept(c)' = {}
      BY <1>1 DEF SchedKept, IntrKept, WakeKept
    <2>3. QED
      BY <2>1, <2>2 DEF Held
  <1>5. LockMove(c, Held(c), Held(c)')
    BY <1>4
  <1>6. Adds(c) \subseteq {np} /\ Adds(c)' \subseteq {np} /\ Takes(c) = {} /\ Takes(c)' = {}
    BY <1>1 DEF Adds, Takes, AddPcs
  <1>7. StepOf(c, X)
    BY <1>0, <1>1, <1>2, <1>6 DEF StepOf
  <1>8. ListMove(c, X)
    <2>1. np \in X
      BY <1>0
    <2>2. QED
      BY <2>1, MovesList
  <1>9. CpuOK(c)'
    BY <1>1, <1>3 DEF CpuOK
  <1>10. ThreadOK(p)'
    BY <1>1 DEF ThreadOK
  <1>11. Listed(p)'
    <2>1. NotOn(p)
      BY <1>1, <1>2, RunningOff
    <2>2. NotOn(p)'
      BY <1>3, <2>1 DEF NotOn, Moves
    <2>3. p \in X /\ p \notin Adds(c)' /\ p \notin Takes(c)' /\ proc'[p].state \in {"RUNNING", "USED"}
      BY <1>0, <1>3, <1>6
    <2>4. QED
      BY <1>7, <2>2, <2>3, ListedOff
  <1>12. Listed(np)'
    <2>1. np \in X /\ np \notin Takes(c)'
      BY <1>0, <1>6
    <2>2. QED
      BY <1>7, <2>1, PlacedListed
  <1>13. \A q \in Procs, x \in X : q \notin X /\ proc[q].pc \in {"fkParent", "fkReady"} => proc[q].loc # x
    <2>1. \A q \in Procs : proc[q].pc \in {"fkParent", "fkReady"} => proc[q].loc # p
      BY <1>2, RunningNotForked
    <2>2. QED
      BY <1>0, <2>1 DEF ForkPcs
  <1>14. \A x \in X : ThreadOK(x)' /\ WorkOK(x)' /\ Listed(x)'
    BY <1>0, <1>10, <1>11, <1>12
  <1>15. ListedOnce'
    BY DEF Moves
  <1>16. QED
    BY <1>5, <1>7, <1>8, <1>9, <1>13, <1>14, <1>15, Assemble

\* A process that a step leaves as it is stays in order.
LEMMA StillOK ==
  ASSUME ProcInv, NEW np \in Procs, proc[np].state \in {"UNUSED", "RUNNABLE"}, SameThread(np), cpu' = cpu,
         \A q \in Procs : proc'[q].state = proc[q].state
  PROVE  ThreadOK(np)' /\ WorkOK(np)'
  <1>1. ThreadOK(np) /\ WorkOK(np)
    BY DEF ProcInv
  <1>2. ThreadOK(np)'
    BY <1>1 DEF ThreadOK, Ready, SameThread
  <1>3. proc[np].pc \notin WorkPcs \/ proc[np].pc = "kill" \/ proc[np].pc \in ForkPcs
    BY <1>1 DEF ThreadOK, Ready, FreePcs, WorkPcs, ForkPcs, AsleepPcs
  <1>4. WorkOK(np)'
    BY <1>1, <1>3, WorkKept DEF SameThread
  <1>5. QED
    BY <1>2, <1>4

\* fork(), kill() and wait() put process np on list k and return.
LEMMA AddStep ==
  ASSUME ProcInv, NEW c \in Cpus, NEW p \in Procs, NEW l \in AddPcs, At(c, p, l), NEW np, np = proc[p].loc,
         NEW k \in ListNames, k \in ListOf(proc[np].state), Enlist(k, np), proc' = [proc EXCEPT ![p] = Done(proc[p])],
         cpu' = cpu, nextpid' = nextpid, LockMove(c, Kept(p), {}), lock' \in [LockNames -> Cpus \cup {NoCpu}]
  PROVE  ProcInv'
  <1> DEFINE t == Done(proc[p])
  <1>1. /\ TypeOK /\ ListedOnce /\ WorkOK(p) /\ InKernel(c, p) /\ proc[p].pc = l /\ cpu[c].wk = "none"
        /\ cpu[c].sched = "run" /\ cpu[c].proc = p /\ proc[p].yl = "none" /\ proc[p] \in Thread
    BY FieldTypes DEF ProcInv, At, InKernel
  <1>2. proc[p].state = "RUNNING"
    BY <1>1, InKernelRuns
  <1>3. np \in Procs /\ proc[np].state \in {"UNUSED", "RUNNABLE"} /\ np # p
    BY <1>1, <1>2 DEF WorkOK, AddPcs
  <1>4. np \in Adds(c)
    BY <1>1 DEF Adds, AddPcs
  <1>5. NotOn(np) /\ lock[PLock(np)] = c
    BY <1>4, AddedOff, AddsLocked
  <1>6. Owned(c, np)
    BY <1>3, <1>5, OwnLocked
  <1>7. t \in Thread /\ t.pc = "sysret" /\ t.state = proc[p].state /\ t.yl = proc[p].yl
    BY <1>1, DoneIs
  <1> HIDE DEF t
  <1>8. /\ proc' \in [Procs -> Thread] /\ proc'[p] = t
        /\ \A q \in Procs : q # p => proc'[q] = proc[q] /\ SameThread(q)
    BY <1>1, <1>7, PutProc DEF t
  <1>9. /\ list' \in [ListNames -> Seq(Procs)] /\ ListedOnce'
        /\ \A q \in Procs, m \in ListNames : q # np => (OnList(q, m)' <=> OnList(q, m))
        /\ \A m \in ListNames : OnList(np, m)' <=> m = k
    <2>1. TypeOK /\ ListedOnce /\ np \in Procs /\ NotOn(np) /\ k \in ListNames /\ Enlist(k, np)
      BY <1>1, <1>3, <1>5
    <2>2. QED
      BY ONLY Zenon, <2>1, Joins DEF NotOn
  <1>10. Moves(c, np)
    <2>1. ~OnList(np, Unused) /\ \A d \in Cpus : ~OnList(np, Runnable(d))
      BY <1>5, Names DEF NotOn
    <2>2. QED
      BY <1>9, <2>1 DEF Moves
  <1>11. TypeOK'
    BY <1>1, <1>8, <1>9 DEF TypeOK
  <1>12. SameThread(np) /\ \A q \in Procs : proc'[q].state = proc[q].state
    BY <1>3, <1>7, <1>8
  <1>13. ThreadOK(np)' /\ WorkOK(np)'
    BY <1>3, <1>12, StillOK
  <1>14. WorkOK(p)' /\ Kept(p)' = {} /\ proc'[p].pc = "sysret" /\ proc'[p].state = "RUNNING" /\ proc'[p].yl = "none"
    BY <1>1, <1>2, <1>7, <1>8 DEF WorkOK, Kept
  <1>15. Placed(c, np)'
    <2>1. np \notin Adds(c)'
      BY <1>1, <1>14 DEF Adds
    <2>2. OnlyOn(np, k)'
      BY <1>9 DEF OnlyOn
    <2>3. proc'[np].state # "RUNNING" /\ k \in ListOf(proc'[np].state)
      BY <1>3, <1>12
    <2>4. QED
      BY <2>1, <2>2, <2>3 DEF Placed
  <1>16. ForksApart'
    <2>1. \A q \in Procs : proc'[q].pc \in ForkPcs => proc[q].pc \in ForkPcs /\ proc'[q].loc = proc[q].loc
      BY <1>8, <1>14 DEF ForkPcs
    <2>2. QED
      BY <2>1, ForksKept
  <1>17. \A q \in Procs : q # p /\ proc[q].pc \in ForkPcs => proc[q].loc # np
    BY <1>3, RunningNotForked DEF ForkPcs
  <1>18. LockMove(c, Kept(p), Kept(p)')
    BY <1>14
  <1>19. /\ l \in FreePcs \cup LockPcs /\ proc'[p].pc \in FreePcs \cup LockPcs /\ proc'[p].pc # "exZombie"
         /\ proc'[p].pc \notin AddPcs /\ proc[np].state # "RUNNING"
    BY <1>3, <1>14 DEF AddPcs, FreePcs, LockPcs
  <1>20. \A q \in Procs : q \notin {p, np} => SameThread(q)
    BY <1>8
  <1>21. QED
    BY <1>3, <1>6, <1>10, <1>11, <1>13, <1>14, <1>15, <1>16, <1>17, <1>18, <1>19, <1>20, PairStep

\* fork() admitting the child keeps the invariant.
LEMMA ForkAdmitOK ==
  ASSUME ProcInv, NEW c \in Cpus, NEW p \in Procs, ForkAdmit(c, p), ~BLNCFLG
  PROVE  ProcInv'
  <1>n. PICK np : np = proc[p].loc
    OBVIOUS
  <1>k. PICK k : k = Runnable(proc[p].cpu_num)
    OBVIOUS
  <1>1. /\ TypeOK /\ WorkOK(p) /\ At(c, p, "fkAdmit") /\ proc[p].cpu_num \in Cpus /\ proc[p].pc = "fkAdmit"
        /\ proc[p].yl = "none"
    BY FieldTypes DEF ProcInv, ForkAdmit, At, InKernel
  <1>2. /\ Enlist(k, np) /\ proc' = [proc EXCEPT ![p] = Done(proc[p])] /\ Release(PLock(np))
        /\ cpu' = cpu /\ nextpid' = nextpid
    BY <1>n, <1>k, <1>1 DEF ForkAdmit, AdmitTo, TypeOK
  <1>3. np \in Procs /\ proc[np].state = "RUNNABLE" /\ Kept(p) = {PLock(np)}
    BY <1>n, <1>1 DEF WorkOK, Kept
  <1>4. k \in ListNames /\ k \in ListOf(proc[np].state) /\ PLock(np) \in LockNames
    BY <1>k, <1>1, <1>3, Names DEF ListOf
  <1>5. LockMove(c, {PLock(np)}, {}) /\ lock' \in [LockNames -> Cpus \cup {NoCpu}]
    BY <1>1, <1>2, <1>4, LockDrop
  <1>6. LockMove(c, Kept(p), {}) /\ "fkAdmit" \in AddPcs
    BY <1>3, <1>5 DEF AddPcs
  <1>7. QED
    BY <1>n, <1>1, <1>2, <1>4, <1>5, <1>6, AddStep

\* kill() admitting the process it woke keeps the invariant.
LEMMA KillAddOK ==
  ASSUME ProcInv, NEW c \in Cpus, NEW p \in Procs, KillAdd(c, p)
  PROVE  ProcInv'
  <1>n. PICK np : np = proc[p].loc
    OBVIOUS
  <1>k. PICK k : k = Runnable(proc[np].cpu_num)
    OBVIOUS
  <1>1. /\ TypeOK /\ WorkOK(p) /\ At(c, p, "klAdd") /\ proc[p].pc = "klAdd" /\ proc[p].yl = "none"
    BY FieldTypes DEF ProcInv, KillAdd, At, InKernel
  <1>2. /\ Enlist(k, np) /\ proc' = [proc EXCEPT ![p] = Done(proc[p])] /\ Release(PLock(np))
        /\ cpu' = cpu /\ nextpid' = nextpid
    BY <1>n, <1>k, <1>1 DEF KillAdd, TypeOK
  <1>3. np \in Procs /\ proc[np].state = "RUNNABLE" /\ Kept(p) = {PLock(np)}
    BY <1>n, <1>1 DEF WorkOK, Kept
  <1>4. k \in ListNames /\ k \in ListOf(proc[np].state) /\ PLock(np) \in LockNames
    <2>1. proc[np].cpu_num \in Cpus
      BY <1>1, <1>3, FieldTypes
    <2>2. QED
      BY <1>k, <1>3, <2>1, Names DEF ListOf
  <1>5. LockMove(c, {PLock(np)}, {}) /\ lock' \in [LockNames -> Cpus \cup {NoCpu}]
    BY <1>1, <1>2, <1>4, LockDrop
  <1>6. LockMove(c, Kept(p), {}) /\ "klAdd" \in AddPcs
    BY <1>3, <1>5 DEF AddPcs
  <1>7. QED
    BY <1>n, <1>1, <1>2, <1>4, <1>5, <1>6, AddStep

\* freeproc() returning an entry to the unused list keeps the invariant.
LEMMA WaitFreeOK ==
  ASSUME ProcInv, NEW c \in Cpus, NEW p \in Procs, WaitFree(c, p)
  PROVE  ProcInv'
  <1>n. PICK np : np = proc[p].loc
    OBVIOUS
  <1>1. /\ TypeOK /\ WorkOK(p) /\ At(c, p, "wtFree") /\ proc[p].pc = "wtFree" /\ proc[p].yl = "none"
    BY FieldTypes DEF ProcInv, WaitFree, At, InKernel
  <1>2. /\ Enlist(Unused, np) /\ proc' = [proc EXCEPT ![p] = Done(proc[p])]
        /\ lock' = [lock EXCEPT ![PLock(np)] = NoCpu, ![WaitLock] = NoCpu]
        /\ cpu' = cpu /\ nextpid' = nextpid
    BY <1>n, <1>1 DEF WaitFree, TypeOK
  <1>3. np \in Procs /\ proc[np].state = "UNUSED" /\ Kept(p) = {PLock(np), WaitLock}
    BY <1>n, <1>1 DEF WorkOK, Kept
  <1>4. Unused \in ListNames /\ Unused \in ListOf(proc[np].state) /\ PLock(np) \in LockNames /\ WaitLock \in LockNames
    BY <1>3, Names DEF ListOf
  <1>5. LockMove(c, {PLock(np), WaitLock}, {}) /\ lock' \in [LockNames -> Cpus \cup {NoCpu}]
    BY <1>1, <1>2, <1>4 DEF LockMove, TypeOK
  <1>6. LockMove(c, Kept(p), {}) /\ "wtFree" \in AddPcs
    BY <1>3, <1>5 DEF AddPcs
  <1>7. QED
    BY <1>n, <1>1, <1>2, <1>4, <1>5, <1>6, AddStep

\* A process taken off a list, and where it then is.
Off(np) == /\ list' \in [ListNames -> Seq(Procs)] /\ ListedOnce'
           /\ \A q \in Procs, m \in ListNames : q # np => (OnList(q, m)' <=> OnList(q, m))
           /\ NotOn(np)'

\* fork(), wait() or kill() takes np, locked now, off its list.
LEMMA TakeOff ==
  ASSUME ProcInv, NEW np \in Procs, Free(PLock(np)), NEW k \in ListNames, ListOf(proc[np].state) = {k},
         k \in {Sleeping, Zombie}, Delist(k, np), NEW c \in Cpus
  PROVE  Off(np) /\ Moves(c, np)
  <1>1. TypeOK /\ ListedOnce
    BY DEF ProcInv
  <1>2. OnlyOn(np, k) /\ OnList(np, k)
    BY FreeListed
  <1>3. /\ list' \in [ListNames -> Seq(Procs)] /\ ListedOnce'
        /\ \A q \in Procs, m \in ListNames : q # np => (OnList(q, m)' <=> OnList(q, m))
        /\ \A m \in ListNames : ~OnList(np, m)'
    BY <1>1, <1>2, Leaves
  <1>4. ~OnList(np, Unused) /\ \A d \in Cpus : ~OnList(np, Runnable(d))
    BY <1>2, Names, NamesDiffer DEF OnlyOn
  <1>5. QED
    BY <1>3, <1>4 DEF Off, Moves, NotOn

\* kill() of a sleeper keeps the invariant.
LEMMA KillWakeOK ==
  ASSUME ProcInv, NEW c \in Cpus, NEW p \in Procs, KillWake(c, p)
  PROVE  ProcInv'
  <1>n. PICK np : np = proc[p].loc
    OBVIOUS
  <1> DEFINE t == [proc[p] EXCEPT !.pc = "klAdd"]
             u == [proc[np] EXCEPT !.killed = TRUE, !.state = "RUNNABLE"]
  <1>1. /\ TypeOK /\ WorkOK(p) /\ At(c, p, "kill") /\ InKernel(c, p) /\ cpu[c].wk = "none" /\ proc[p].pc = "kill"
        /\ proc[p].yl = "none" /\ cpu[c].sched = "run" /\ cpu[c].proc = p
        /\ Acquire(c, PLock(np)) /\ proc[np].state = "SLEEPING" /\ Delist(Sleeping, np)
        /\ cpu' = cpu /\ nextpid' = nextpid
    BY <1>n DEF ProcInv, KillWake, At, InKernel
  <1>2. np \in Procs /\ proc[p].state = "RUNNING" /\ np # p
    BY <1>n, <1>1, InKernelRuns DEF WorkOK
  <1>3. proc[np] \in Thread /\ proc[p] \in Thread /\ ThreadOK(np) /\ "klAdd" \in Labels
    BY <1>1, <1>2, FieldTypes DEF ProcInv, Labels
  <1>4. t \in Thread /\ t.state = proc[p].state /\ t.yl = "none" /\ t.pc = "klAdd" /\ t.loc = proc[p].loc
    BY <1>1, <1>3 DEF Thread
  <1>5. u \in Thread /\ u.state = "RUNNABLE" /\ u.yl = proc[np].yl /\ u.pc = proc[np].pc /\ u.loc = proc[np].loc
    BY <1>3 DEF Thread
  <1>6. proc' = [proc EXCEPT ![p] = t, ![np] = u]
    BY <1>n, <1>1, <1>2 DEF KillWake, TypeOK
  <1> HIDE DEF t, u
  <1>7. /\ proc' \in [Procs -> Thread] /\ proc'[p] = t /\ proc'[np] = u
        /\ \A q \in Procs : q \notin {p, np} => proc'[q] = proc[q] /\ SameThread(q)
    BY <1>1, <1>2, <1>4, <1>5, <1>6, PutProcs
  <1>8. /\ Free(PLock(np)) /\ PLock(np) \in LockNames /\ Sleeping \in ListNames
        /\ ListOf(proc[np].state) = {Sleeping} /\ Sleeping \in {Sleeping, Zombie}
    BY <1>1, <1>2, Names DEF Acquire, ListOf
  <1>9. Off(np) /\ Moves(c, np)
    BY <1>1, <1>2, <1>8, TakeOff
  <1>10. LockMove(c, {}, {PLock(np)}) /\ lock' \in [LockNames -> Cpus \cup {NoCpu}]
    BY <1>1, <1>8, LockTake
  <1>11. Kept(p) = {} /\ Kept(p)' = {PLock(np)}
    BY <1>n, <1>1, <1>4, <1>7 DEF Kept
  <1>12. LockMove(c, Kept(p), Kept(p)')
    BY <1>10, <1>11
  <1>13. TypeOK'
    BY <1>1, <1>7, <1>9, <1>10 DEF TypeOK, Off
  <1>14. Owned(c, np)
    BY <1>1, <1>2, <1>8, OwnLocked
  <1>15. Placed(c, np)'
    <2>1. np \in Adds(c)'
      BY <1>n, <1>1, <1>4, <1>7 DEF Adds
    <2>2. QED
      BY <1>9, <2>1 DEF Placed, Off
  <1>16. ThreadOK(np)' /\ WorkOK(np)'
    <2>1. proc[np].pc \in AsleepPcs /\ proc[np].yl = "none"
      BY <1>1, <1>3 DEF ThreadOK
    <2>2. QED
      BY <1>5, <1>7, <2>1 DEF ThreadOK, WorkOK, Ready, AsleepPcs
  <1>17. WorkOK(p)'
    BY <1>n, <1>2, <1>4, <1>5, <1>7 DEF WorkOK
  <1>18. ForksApart'
    <2>1. \A q \in Procs : proc'[q].pc \in ForkPcs => proc[q].pc \in ForkPcs /\ proc'[q].loc = proc[q].loc
      BY <1>4, <1>5, <1>7 DEF ForkPcs
    <2>2. QED
      BY <2>1, ForksKept
  <1>19. \A q \in Procs : q # p /\ proc[q].pc \in ForkPcs => proc[q].loc # np
    BY <1>1, <1>2, RunningNotForked DEF ForkPcs
  <1>20. /\ "kill" \in FreePcs \cup LockPcs /\ proc'[p].pc \in FreePcs \cup LockPcs /\ proc'[p].pc # "exZombie"
         /\ "kill" \notin AddPcs /\ proc'[p].loc = np /\ proc[np].state # "RUNNING"
         /\ proc'[p].state = "RUNNING" /\ proc'[p].yl = "none"
    BY <1>n, <1>1, <1>2, <1>4, <1>7 DEF AddPcs, FreePcs, LockPcs
  <1>21. \A q \in Procs : q \notin {p, np} => SameThread(q)
    BY <1>7
  <1>22. QED
    BY <1>1, <1>2, <1>9, <1>12, <1>13, <1>14, <1>15, <1>16, <1>17, <1>18, <1>19, <1>20, <1>21, PairStep

\* freeproc() of a zombie keeps the invariant.
LEMMA WaitReapOK ==
  ASSUME ProcInv, NEW c \in Cpus, NEW p \in Procs, NEW np \in Procs, WaitReap(c, p, np)
  PROVE  ProcInv'
  <1> DEFINE t == [proc[p] EXCEPT !.pc = "wtFree", !.loc = np]
             u == [proc[np] EXCEPT !.pid = 0, !.parent = Nil, !.chan = Nil, !.killed = FALSE, !.state = "UNUSED"]
  <1>1. /\ TypeOK /\ At(c, p, "wtScan") /\ InKernel(c, p) /\ cpu[c].wk = "none" /\ proc[p].pc = "wtScan"
        /\ proc[p].yl = "none" /\ cpu[c].sched = "run" /\ cpu[c].proc = p
        /\ Acquire(c, PLock(np)) /\ proc[np].state = "ZOMBIE" /\ Delist(Zombie, np)
        /\ cpu' = cpu /\ nextpid' = nextpid
    BY DEF ProcInv, WaitReap, WaitSees, At, InKernel
  <1>2. proc[p].state = "RUNNING" /\ np # p
    BY <1>1, InKernelRuns
  <1>3. proc[np] \in Thread /\ proc[p] \in Thread /\ ThreadOK(np) /\ "wtFree" \in Labels /\ np \in 0 .. NPROC \cup {Nil}
    <2>1. np \in 0 .. NPROC \cup {Nil}
      BY SMT, ProcAssumption DEF Procs
    <2>2. "wtFree" \in Labels
      BY DEF Labels
    <2>3. QED
      BY <1>1, <2>1, <2>2, FieldTypes DEF ProcInv
  <1>4. t \in Thread /\ t.state = proc[p].state /\ t.yl = "none" /\ t.pc = "wtFree" /\ t.loc = np
    BY <1>1, <1>3 DEF Thread
  <1>5. u \in Thread /\ u.state = "UNUSED" /\ u.yl = proc[np].yl /\ u.pc = proc[np].pc /\ u.loc = proc[np].loc
    BY <1>3, ProcAssumption DEF Thread
  <1>6. proc' = [proc EXCEPT ![p] = t, ![np] = u]
    BY <1>1, <1>2 DEF WaitReap, TypeOK
  <1> HIDE DEF t, u
  <1>7. /\ proc' \in [Procs -> Thread] /\ proc'[p] = t /\ proc'[np] = u
        /\ \A q \in Procs : q \notin {p, np} => proc'[q] = proc[q] /\ SameThread(q)
    BY <1>1, <1>2, <1>4, <1>5, <1>6, PutProcs
  <1>8. /\ Free(PLock(np)) /\ PLock(np) \in LockNames /\ Zombie \in ListNames
        /\ ListOf(proc[np].state) = {Zombie} /\ Zombie \in {Sleeping, Zombie}
    BY <1>1, <1>2, Names DEF Acquire, ListOf
  <1>9. Off(np) /\ Moves(c, np)
    BY <1>1, <1>2, <1>8, TakeOff
  <1>10. Kept(p) = {WaitLock} /\ Kept(p)' = {PLock(np), WaitLock}
    BY <1>1, <1>4, <1>7 DEF Kept
  <1>11. LockMove(c, Kept(p), Kept(p)') /\ lock' \in [LockNames -> Cpus \cup {NoCpu}]
    <2>1. Held(c) = Kept(p)
      BY <1>1 DEF Held, SchedKept, IntrKept, WakeKept, InKernel
    <2>2. LockMove(c, Held(c), Held(c) \cup {PLock(np)}) /\ lock' \in [LockNames -> Cpus \cup {NoCpu}]
      BY <1>1, <1>8, HeldTake
    <2>3. Kept(p)' = Held(c) \cup {PLock(np)}
      BY <1>10, <2>1
    <2>4. QED
      BY <2>1, <2>2, <2>3
  <1>13. TypeOK'
    BY <1>1, <1>7, <1>9, <1>11 DEF TypeOK, Off
  <1>14. Owned(c, np)
    BY <1>1, <1>2, <1>8, OwnLocked
  <1>15. Placed(c, np)'
    <2>1. np \in Adds(c)'
      BY <1>1, <1>4, <1>7 DEF Adds
    <2>2. QED
      BY <1>9, <2>1 DEF Placed, Off
  <1>16. ThreadOK(np)' /\ WorkOK(np)'
    <2>1. proc[np].pc = "none" /\ proc[np].yl = "none"
      BY <1>1, <1>3 DEF ThreadOK
    <2>2. QED
      BY <1>5, <1>7, <2>1 DEF ThreadOK, WorkOK
  <1>17. WorkOK(p)'
    BY <1>2, <1>4, <1>5, <1>7 DEF WorkOK
  <1>18. ForksApart'
    <2>1. \A q \in Procs : proc'[q].pc \in ForkPcs => proc[q].pc \in ForkPcs /\ proc'[q].loc = proc[q].loc
      BY <1>4, <1>5, <1>7 DEF ForkPcs
    <2>2. QED
      BY <2>1, ForksKept
  <1>19. \A q \in Procs : q # p /\ proc[q].pc \in ForkPcs => proc[q].loc # np
    BY <1>1, <1>2, RunningNotForked DEF ForkPcs
  <1>20. /\ "wtScan" \in FreePcs \cup LockPcs /\ proc'[p].pc \in FreePcs \cup LockPcs /\ proc'[p].pc # "exZombie"
         /\ "wtScan" \notin AddPcs /\ proc'[p].loc = np /\ proc[np].state # "RUNNING"
         /\ proc'[p].state = "RUNNING" /\ proc'[p].yl = "none"
    BY <1>1, <1>2, <1>4, <1>7 DEF AddPcs, FreePcs, LockPcs
  <1>21. \A q \in Procs : q \notin {p, np} => SameThread(q)
    BY <1>7
  <1>22. QED
    BY <1>1, <1>2, <1>9, <1>11, <1>13, <1>14, <1>15, <1>16, <1>17, <1>18, <1>19, <1>20, <1>21, PairStep

\* fork() making the child RUNNABLE keeps the invariant.
LEMMA ForkReadyOK ==
  ASSUME ProcInv, NEW c \in Cpus, NEW p \in Procs, ForkReady(c, p), ~BLNCFLG
  PROVE  ProcInv'
  <1>n. PICK np : np = proc[p].loc
    OBVIOUS
  <1> DEFINE t == [proc[p] EXCEPT !.pc = "fkAdmit"]
             u == [proc[np] EXCEPT !.state = "RUNNABLE"]
  <1>1. /\ TypeOK /\ ListedOnce /\ WorkOK(p) /\ ForksApart /\ At(c, p, "fkReady") /\ InKernel(c, p)
        /\ cpu[c].wk = "none" /\ proc[p].pc = "fkReady"
        /\ proc[p].yl = "none" /\ cpu[c].sched = "run" /\ cpu[c].proc = p
        /\ Acquire(c, PLock(np)) /\ cpu' = cpu /\ list' = list /\ nextpid' = nextpid
    BY <1>n DEF ProcInv, ForkReady, At, InKernel, Counted
  <1>2. np \in Procs /\ proc[p].state = "RUNNING" /\ np # p /\ proc[np].state = "USED"
    BY <1>n, <1>1, InKernelRuns DEF WorkOK
  <1>3. proc[np] \in Thread /\ proc[p] \in Thread /\ ThreadOK(np) /\ "fkAdmit" \in Labels
    BY <1>1, <1>2, FieldTypes DEF ProcInv, Labels
  <1>4. t \in Thread /\ t.state = proc[p].state /\ t.yl = "none" /\ t.pc = "fkAdmit" /\ t.loc = proc[p].loc
    BY <1>1, <1>3 DEF Thread
  <1>5. u \in Thread /\ u.state = "RUNNABLE" /\ u.yl = proc[np].yl /\ u.pc = proc[np].pc /\ u.loc = proc[np].loc
    BY <1>3 DEF Thread
  <1>6. proc' = [proc EXCEPT ![p] = t, ![np] = u]
    BY <1>n, <1>1, <1>2 DEF ForkReady, Balanced, TypeOK
  <1> HIDE DEF t, u
  <1>7. /\ proc' \in [Procs -> Thread] /\ proc'[p] = t /\ proc'[np] = u
        /\ \A q \in Procs : q \notin {p, np} => proc'[q] = proc[q] /\ SameThread(q)
    BY <1>1, <1>2, <1>4, <1>5, <1>6, PutProcs
  <1>8. Free(PLock(np)) /\ PLock(np) \in LockNames
    BY <1>1, <1>2, Names DEF Acquire
  <1>9. NotOn(np) /\ NotOn(np)' /\ Moves(c, np)
    <2>1. NotOn(np)
      BY <1>2, UsedOff
    <2>2. \A q, m : OnList(q, m)' <=> OnList(q, m)
      BY <1>1 DEF OnList
    <2>3. list' \in [ListNames -> Seq(Procs)] /\ ListedOnce'
      BY SMT, <1>1 DEF ListedOnce, TypeOK
    <2>4. QED
      BY <2>1, <2>2, <2>3, Names DEF NotOn, Moves
  <1>10. LockMove(c, {}, {PLock(np)}) /\ lock' \in [LockNames -> Cpus \cup {NoCpu}]
    BY <1>1, <1>8, LockTake
  <1>11. Kept(p) = {} /\ Kept(p)' = {PLock(np)}
    BY <1>n, <1>1, <1>4, <1>7 DEF Kept
  <1>12. LockMove(c, Kept(p), Kept(p)')
    BY <1>10, <1>11
  <1>13. TypeOK'
    BY <1>1, <1>7, <1>10 DEF TypeOK
  <1>14. Owned(c, np)
    BY <1>2, <1>8, OwnLocked
  <1>15. Placed(c, np)'
    <2>1. np \in Adds(c)'
      BY <1>n, <1>1, <1>4, <1>7 DEF Adds
    <2>2. QED
      BY <1>9, <2>1 DEF Placed
  <1>16. ThreadOK(np)' /\ WorkOK(np)'
    <2>1. proc[np].pc = "forkret" /\ proc[np].yl = "none"
      BY <1>2, <1>3 DEF ThreadOK
    <2>2. QED
      BY <1>5, <1>7, <2>1 DEF ThreadOK, WorkOK, Ready
  <1>17. WorkOK(p)'
    BY <1>n, <1>2, <1>4, <1>5, <1>7 DEF WorkOK
  <1>18. ForksApart'
    <2>1. \A q \in Procs : proc'[q].pc \in ForkPcs => proc[q].pc \in ForkPcs /\ proc'[q].loc = proc[q].loc
      BY <1>4, <1>5, <1>7 DEF ForkPcs
    <2>2. QED
      BY <2>1, ForksKept
  <1>19. \A q \in Procs : q # p /\ proc[q].pc \in ForkPcs => proc[q].loc # np
    BY <1>n, <1>1 DEF ForkPcs, ForksApart
  <1>20. /\ "fkReady" \in FreePcs \cup LockPcs /\ proc'[p].pc \in FreePcs \cup LockPcs /\ proc'[p].pc # "exZombie"
         /\ "fkReady" \notin AddPcs /\ proc'[p].loc = np /\ proc[np].state # "RUNNING"
         /\ proc'[p].state = "RUNNING" /\ proc'[p].yl = "none"
    BY <1>n, <1>1, <1>2, <1>4, <1>7 DEF AddPcs, FreePcs, LockPcs
  <1>21. \A q \in Procs : q \notin {p, np} => SameThread(q)
    BY <1>7
  <1>22. QED
    BY <1>1, <1>2, <1>9, <1>12, <1>13, <1>14, <1>15, <1>16, <1>17, <1>18, <1>19, <1>20, <1>21, PairStep

\* allocproc() taking an entry off the unused list keeps the invariant.
LEMMA ForkTakeOK ==
  ASSUME ProcInv, NEW c \in Cpus, NEW p \in Procs, ForkTake(c, p)
  PROVE  ProcInv'
  <1>n. PICK np : np = proc[p].loc
    OBVIOUS
  <1>l. PICK l \in {"fkParent", "fkFail"} :
          /\ proc' = [proc EXCEPT ![np].state = "USED", ![np].pc = "forkret", ![p].pc = l]
          /\ l = "fkParent" => Release(PLock(np))
          /\ l = "fkFail" => lock' = lock
    BY <1>n DEF ForkTake
  <1> DEFINE t == [proc[p] EXCEPT !.pc = l]
             u == [proc[np] EXCEPT !.state = "USED", !.pc = "forkret"]
  <1>1. /\ TypeOK /\ ListedOnce /\ WorkOK(p) /\ At(c, p, "fkTake") /\ InKernel(c, p) /\ cpu[c].wk = "none"
        /\ proc[p].pc = "fkTake" /\ Free(Unused)
        /\ proc[p].yl = "none" /\ cpu[c].sched = "run" /\ cpu[c].proc = p
        /\ Delist(Unused, np) /\ cpu' = cpu /\ nextpid' = nextpid
    BY <1>n DEF ProcInv, ForkTake, At, InKernel
  <1>2. np \in Procs /\ proc[p].state = "RUNNING" /\ np # p /\ proc[np].state = "UNUSED" /\ OnList(np, Unused)
    BY <1>n, <1>1, InKernelRuns DEF WorkOK
  <1>3. proc[np] \in Thread /\ proc[p] \in Thread /\ ThreadOK(np) /\ l \in Labels /\ "forkret" \in Labels
    BY <1>1, <1>2, FieldTypes DEF ProcInv, Labels
  <1>4. t \in Thread /\ t.state = proc[p].state /\ t.yl = "none" /\ t.pc = l /\ t.loc = proc[p].loc
    BY <1>1, <1>3 DEF Thread
  <1>5. u \in Thread /\ u.state = "USED" /\ u.yl = proc[np].yl /\ u.pc = "forkret" /\ u.loc = proc[np].loc
    BY <1>3 DEF Thread
  <1>6. proc' = [proc EXCEPT ![p] = t, ![np] = u]
    BY <1>l, <1>1, <1>2 DEF TypeOK
  <1> HIDE DEF t, u
  <1>7. /\ proc' \in [Procs -> Thread] /\ proc'[p] = t /\ proc'[np] = u
        /\ \A q \in Procs : q \notin {p, np} => proc'[q] = proc[q] /\ SameThread(q)
    BY <1>1, <1>2, <1>4, <1>5, <1>6, PutProcs
  <1>8. PLock(np) \in LockNames /\ Unused \in ListNames /\ Kept(p) = {PLock(np)} /\ InKernel(c, p)
    BY <1>n, <1>1, <1>2, Names DEF Kept
  <1>9. Off(np) /\ Moves(c, np)
    <2>1. /\ list' \in [ListNames -> Seq(Procs)] /\ ListedOnce'
          /\ \A q \in Procs, m \in ListNames : q # np => (OnList(q, m)' <=> OnList(q, m))
          /\ \A m \in ListNames : ~OnList(np, m)'
      BY <1>1, <1>2, <1>8, Leaves
    <2>2. OnlyOn(np, Unused)
      <3>1. PICK j \in 1 .. Len(list[Unused]) : list[Unused][j] = np
        BY <1>2 DEF OnList
      <3>2. ASSUME NEW m \in ListNames, OnList(np, m) PROVE m = Unused
        <4>1. PICK i \in 1 .. Len(list[m]) : list[m][i] = np
          BY <3>2 DEF OnList
        <4>2. ListedOnce /\ np \in Procs /\ Unused \in ListNames
          BY <1>1, <1>2, <1>8
        <4>3. QED
          BY ONLY SMT, <3>1, <4>1, <4>2 DEF ListedOnce
      <3>3. QED
        BY <1>2, <3>2 DEF OnlyOn
    <2>3. (\A d \in Cpus : ~OnList(np, Runnable(d))) /\ lock[Unused] \in {c, NoCpu}
      BY <1>1, <2>2, Names, NamesDiffer DEF OnlyOn, Free
    <2>4. QED
      BY <2>1, <2>3 DEF Off, Moves, NotOn
  <1>10. LockMove(c, Kept(p), Kept(p)') /\ lock' \in [LockNames -> Cpus \cup {NoCpu}]
    <2>1. CASE l = "fkParent"
      <3>1. Kept(p)' = {}
        BY <1>4, <1>7, <2>1 DEF Kept
      <3>2. LockMove(c, {PLock(np)}, {}) /\ lock' \in [LockNames -> Cpus \cup {NoCpu}]
        BY <1>l, <1>1, <1>8, <2>1, LockDrop
      <3>3. QED
        BY <1>8, <3>1, <3>2
    <2>2. CASE l = "fkFail"
      <3>1. Kept(p)' = Kept(p)
        BY <1>n, <1>4, <1>7, <1>8, <2>2 DEF Kept
      <3>2. LockMove(c, Kept(p), Kept(p)) /\ lock' \in [LockNames -> Cpus \cup {NoCpu}]
        BY <1>l, <1>1, <2>2, LockStay
      <3>3. QED
        BY <3>1, <3>2
    <2>3. QED
      BY <2>1, <2>2
  <1>13. TypeOK'
    BY <1>1, <1>7, <1>9, <1>10 DEF TypeOK, Off
  <1>14. Owned(c, np)
    <2>1. Held(c) = Kept(p)
      BY <1>1 DEF Held, SchedKept, IntrKept, WakeKept, InKernel
    <2>2. lock[PLock(np)] = c
      <3>1. PLock(np) \in Held(c)
        BY <1>8, <2>1
      <3>2. QED
        BY <1>8, <3>1, HeldIs
    <2>3. QED
      BY <1>2, <2>2, OwnLocked
  <1>15. Placed(c, np)'
    <2>1. np \notin Adds(c)'
      BY <1>1, <1>4, <1>7 DEF Adds
    <2>2. QED
      BY <1>5, <1>7, <1>9, <2>1 DEF Placed, Off
  <1>16. ThreadOK(np)' /\ WorkOK(np)'
    <2>1. proc[np].yl = "none"
      BY <1>2, <1>3 DEF ThreadOK
    <2>2. QED
      BY <1>5, <1>7, <2>1 DEF ThreadOK, WorkOK
  <1>17. WorkOK(p)'
    BY <1>n, <1>2, <1>4, <1>5, <1>7 DEF WorkOK
  <1>19. \A q \in Procs : q # p /\ proc[q].pc \in ForkPcs => proc[q].loc # np
    BY <1>2, RunningNotForked DEF ForkPcs
  <1>18. ForksApart'
    <2>1. ForksApart
      BY DEF ProcInv
    <2>2. \A q \in Procs : q # p /\ proc'[q].pc \in ForkPcs =>
            proc[q].pc \in ForkPcs /\ proc'[q].loc = proc[q].loc /\ proc'[q].loc # np
      BY <1>5, <1>7, <1>19 DEF ForkPcs
    <2>3. proc'[p].loc = np
      BY <1>n, <1>4, <1>7
    <2>4. QED
      BY <2>1, <2>2, <2>3 DEF ForksApart, ForkPcs
  <1>20. /\ "fkTake" \in FreePcs \cup LockPcs /\ proc'[p].pc \in FreePcs \cup LockPcs /\ proc'[p].pc # "exZombie"
         /\ "fkTake" \notin AddPcs /\ proc'[p].loc = np /\ proc[np].state # "RUNNING"
         /\ proc'[p].state = "RUNNING" /\ proc'[p].yl = "none"
    BY <1>n, <1>1, <1>2, <1>4, <1>7 DEF AddPcs, FreePcs, LockPcs
  <1>21. \A q \in Procs : q \notin {p, np} => SameThread(q)
    BY <1>7
  <1>22. QED
    BY <1>1, <1>2, <1>9, <1>10, <1>13, <1>14, <1>15, <1>16, <1>17, <1>18, <1>19, <1>20, <1>21, PairStep

-----------------------------------------------------------------------------
(* The invariant                                                           *)

\* Every step of a system call keeps the invariant.
LEMMA ProcStepOK ==
  ASSUME ProcInv, ~BLNCFLG, NEW c \in Cpus, NEW p \in Procs, ProcStep(c, p)
  PROVE  ProcInv'
  BY SysReturnOK, ForkNoneOK, ForkPeekOK, ForkLockOK, ForkTakeOK, ForkFailOK, ForkParentOK, ForkReadyOK,
     ForkAdmitOK, SleepStartOK, SleepAgainOK, SleepWaitOK, DiskStartOK, DiskAgainOK, DiskWaitOK, WaitEnterOK,
     WaitFreeOK, WaitDecideOK, WaitSleepOK, WaitPassOK, WaitNoCopyOK, WaitReapOK, InitExitsOK, ExitStartOK,
     ReparentOK, ExitZombieOK, KillPassOK, KillMarkOK, KillWakeOK, KillAddOK, SetCpuOK DEF ProcStep

\* Every step keeps the invariant.
LEMMA NextOK ==
  ASSUME ProcInv, ~BLNCFLG, Next
  PROVE  ProcInv'
  <1>1. PICK c \in Cpus : \/ CpuStep(c)
                          \/ ClockIntr(c) \/ Preempt(c)
                          \/ \E p \in Procs : DiskIntr(c, p)
                          \/ \E p \in Procs, call \in Calls : Syscall(c, p, call)
    BY DEF Next
  <1>2. CASE CpuStep(c)
    BY <1>2, SchedPeekOK, SchedLockOK, SchedSwitchOK, SchedBackOK, WakePassOK, WakeTakeOK, WakeAddOK,
       IntrDoneOK, YieldLockOK, YieldAddOK, ProcStepOK DEF CpuStep, SchedStep
  <1>3. QED
    BY <1>1, <1>2, ClockIntrOK, PreemptOK, DiskIntrOK, SyscallOK

\* The invariant of proc.c holds in every reachable state, for any number of CPUs and
\* processes, without the balancer.  (With it, leastUsedCpu() returns a count that is used
\* as the index of a CPU: see AdmitLeastUsed.)
THEOREM ProcInvariant == ASSUME ~BLNCFLG PROVE Spec => []ProcInv
  <1>1. Init => ProcInv
    BY InitOK
  <1>2. ProcInv /\ [Next]_vars => ProcInv'
    <2>1. ProcInv /\ Next => ProcInv'
      BY NextOK
    <2>2. QED
      BY <2>1, StutterOK
  <1>3. QED
    BY <1>1, <1>2, PTL DEF Spec

\* scheduler(), sleep(), wakeup(), yield(), fork(), exit(), wait() and kill() never lose a
\* process and never have it on two lists: while nobody holds its lock, it is on the list
\* of its state and on no other.
THEOREM ListsRight == ASSUME ~BLNCFLG PROVE Spec => []ListsMatchState
  BY ProcInvariant, ListsFollow, PTL

\* scheduler() never runs a process that another CPU runs, and a process whose lock is
\* free is RUNNING exactly when some CPU runs it.
THEOREM RunsRight == ASSUME ~BLNCFLG PROVE Spec => []RunsOnce
  BY ProcInvariant, RunsFollow, PTL

-----------------------------------------------------------------------------
(* What follows from the second invariant, and the life cycle              *)

\* The invariant of module ProcWake, on top of ProcInv: each sleeper waits for something
\* that has not come, or has a wakeup() on its way; each parent lives.
THEOREM WakeInvariant == ASSUME ~BLNCFLG PROVE Spec => []WakeInv
  <1>1. Init => WakeInv
    BY InitWake
  <1>2. ProcInv /\ ProcInv' /\ WakeInv /\ [Next]_vars => WakeInv'
    BY NextWake
  <1>3. QED
    BY <1>1, <1>2, ProcInvariant, PTL DEF Spec

\* exit() hands every child to init before it becomes a zombie, and fork() and wait() keep
\* up: while wait_lock is free, every parent is alive and every zombie has one to reap it.
THEOREM ParentsRight == ASSUME ~BLNCFLG PROVE Spec => []ParentsLive
  BY WakeInvariant, ParentsFollow, PTL

\* wait(), sys_sleep() and virtio_disk_rw() sleep on a condition they have tested under the
\* lock they hand to sleep(), and exit(), clockintr() and virtio_disk_intr() change it
\* under that lock, where they wake too: while the lock is free, nobody is asleep whose
\* condition has come.
THEOREM WakeupsRight == ASSUME ~BLNCFLG PROVE Spec => []NoLostWakeup
  BY ProcInvariant, WakeInvariant, WakeupsFollow, PTL

\* procstate is a state machine: no call, interrupt or scheduler step ever takes a process
\* from one state to another other than along an edge of the life cycle.
THEOREM LifeCycleRight == ASSUME ~BLNCFLG PROVE Spec => LifeCycle
  <1>1. ProcInv /\ [Next]_vars => [Along]_vars
    BY NextAlong
  <1>2. QED
    BY <1>1, ProcInvariant, PTL DEF Spec, LifeCycle, Along
=============================================================================
