------------------------------ MODULE ProcWake ------------------------------
(***************************************************************************)
(* Why no wakeup is lost and no process is left without a parent: a second *)
(* invariant of module Proc, on top of that of module ProcInv.  It says of *)
(* each sleeper that its condition does not hold yet, or that a wakeup()   *)
(* on its channel has still to look at it, and of each process that its    *)
(* parent lives.  Most steps leave the waits alone (CalmStep); the others  *)
(* are those of sleep() and its callers, of fork(), wait() and exit(), and *)
(* of wakeup() and the interrupts that call it.                            *)
(***************************************************************************)
EXTENDS ProcInv

\* Parents live, and every process but init has one.  A process that exits has handed its
\* children below loc to init, and then all of them.
Alive(p) == proc[p].state \in {"SLEEPING", "RUNNABLE", "RUNNING"}

FamilyOK ==
  /\ Alive(InitProc)
  /\ \A q \in Procs : proc[q].parent # Nil => Alive(proc[q].parent)
  /\ \A p \in Procs : p # InitProc /\ (Alive(p) \/ proc[p].state = "ZOMBIE") => proc[p].parent # Nil
  /\ \A p \in Procs : proc[p].pc = "fkReady" => proc[proc[p].loc].parent # Nil
  /\ \A p \in Procs : proc[p].pc \in {"exReparent", "exZombie"} => p # InitProc
  /\ \A p, q \in Procs : proc[q].parent = p =>
       /\ proc[p].pc = "exReparent" => q >= proc[p].loc
       /\ proc[p].pc # "exZombie"

\* The channel of a sleeper is that of its call.
ChanOK(p) == proc[p].state = "SLEEPING" =>
  proc[p].chan = CASE proc[p].pc = "wtAsleep" -> p
                   [] proc[p].pc = "slAsleep" -> TickChan
                   [] proc[p].pc = "dkAsleep" -> BufChan(p)

Asleep(p, label) == proc[p].state = "SLEEPING" /\ proc[p].pc = label

HasZombie(p) == \E q \in Procs : proc[q].parent = p /\ proc[q].state = "ZOMBIE"

\* The wakeup() of c on channel ch has still to look at p.
Coming(c, p, ch) == cpu[c].wk # "none" /\ cpu[c].wchan = ch /\ cpu[c].wi <= p

\* A wait() looks at its children in turn, and sleeps when none is a zombie.  One that is
\* asleep although it has a zombie is init, which reparent() is about to wake; exit()
\* wakes the parent before the zombie is there.
WaitOK ==
  /\ \A p, q \in Procs : proc[q].parent = p /\ proc[q].state = "ZOMBIE" =>
       /\ proc[p].pc = "wtScan" => q >= proc[p].loc
       /\ proc[p].pc # "wtSleep"
  /\ \A p \in Procs : Asleep(p, "wtAsleep") /\ HasZombie(p) =>
       p = InitProc /\ \E c \in Cpus : /\ Coming(c, p, p) /\ cpu[c].intr = "none"
                                        /\ proc[cpu[c].proc].pc = "exReparent"
  /\ \A c \in Cpus : cpu[c].sched = "run" /\ proc[cpu[c].proc].pc = "exZombie" =>
       /\ cpu[c].wchan = proc[cpu[c].proc].parent
       /\ Asleep(cpu[c].wchan, "wtAsleep") => Coming(c, cpu[c].wchan, cpu[c].wchan)

\* A sys_sleep() asleep has ticks left, or the clock interrupt is about to wake it; a disk
\* wait has its request outstanding, or the disk interrupt is about to wake it.
TimeOK(p) ==
  /\ proc[p].pc = "slSleep" => proc[p].left > 0
  /\ Asleep(p, "slAsleep") => proc[p].left > 0 \/ \E c \in Cpus : cpu[c].intr = "clock" /\ Coming(c, p, TickChan)

DiskOK(p) ==
  /\ proc[p].pc = "dkSleep" => proc[p].disk
  /\ Asleep(p, "dkAsleep") => proc[p].disk \/ \E c \in Cpus : cpu[c].intr = "disk" /\ Coming(c, p, BufChan(p))

WakeInv == /\ FamilyOK /\ WaitOK
           /\ \A p \in Procs : ChanOK(p) /\ TimeOK(p) /\ DiskOK(p)

\* A step leaves q as it was, as far as the waits are concerned, ...
Calm(q) ==
  /\ proc'[q].parent = proc[q].parent /\ proc'[q].chan = proc[q].chan
  /\ proc'[q].left = proc[q].left /\ proc'[q].disk = proc[q].disk
  /\ proc'[q].pc = proc[q].pc /\ proc'[q].loc = proc[q].loc
  /\ Alive(q)' <=> Alive(q)
  /\ proc'[q].state = "SLEEPING" <=> proc[q].state = "SLEEPING"
  /\ proc'[q].state = "ZOMBIE" <=> proc[q].state = "ZOMBIE"

\* ... or puts it where no wait, fork or exit is halfway.
WatchPcs == {"slSleep", "dkSleep", "wtScan", "wtSleep", "exReparent", "exZombie", "fkReady"}
ExitPcs == {"exReparent", "exZombie"}
Plain(q) ==
  /\ proc'[q].parent = proc[q].parent
  /\ Alive(q)' <=> Alive(q)
  /\ proc'[q].state = "ZOMBIE" <=> proc[q].state = "ZOMBIE"
  /\ proc'[q].state # "SLEEPING" /\ proc'[q].pc \notin WatchPcs /\ proc[q].pc \notin ExitPcs

\* What a step may do to one process for the families to stay right: give it a live parent,
\* free it, or end it when it has no child; ...
Adopted(q) == \E w \in Procs : proc'[q].parent = w /\ Alive(w)' /\ proc'[w].pc \notin ExitPcs
Freed(q) == proc'[q].parent = Nil /\ proc'[q].state = "UNUSED"
Childless(q) == q # InitProc /\ \A r \in Procs : proc'[r].parent # q
FamilyCalm(q) ==
  /\ proc'[q].parent = proc[q].parent \/ Adopted(q) \/ Freed(q)
  /\ Alive(q) => Alive(q)' \/ Childless(q)
  /\ q # InitProc /\ (Alive(q)' \/ proc'[q].state = "ZOMBIE") =>
       Alive(q) \/ proc[q].state = "ZOMBIE" \/ proc'[q].parent # Nil
  /\ proc'[q].pc = "fkReady" => \/ proc[q].pc = "fkReady" /\ proc'[q].loc = proc[q].loc
                                \/ proc'[proc'[q].loc].parent # Nil
  /\ proc'[q].pc \in ExitPcs =>
       \/ proc'[q].pc = proc[q].pc /\ proc'[q].loc = proc[q].loc
       \/ /\ q # InitProc
          /\ \A r \in Procs : proc'[r].parent = q => proc'[q].pc = "exReparent" /\ r >= proc'[q].loc

\* ... for its sleep: nothing, or not be asleep; ...
Rests(q) == /\ proc'[q].pc = proc[q].pc
            /\ proc'[q].state = "SLEEPING" => proc[q].state = "SLEEPING"
Awake(q) == proc'[q].state # "SLEEPING" /\ proc'[q].pc \notin {"slSleep", "dkSleep"}
ChanCalm(q) == Awake(q) \/ (Rests(q) /\ proc'[q].chan = proc[q].chan)
TimeCalm(q) == Awake(q) \/ (Rests(q) /\ proc'[q].left = proc[q].left)
DiskCalm(q) == Awake(q) \/ (Rests(q) /\ proc'[q].disk = proc[q].disk)
SleepCalm(q) == ChanCalm(q) /\ TimeCalm(q) /\ DiskCalm(q)

\* ... and for its wait(): no zombie appears, and it goes on only when it has seen none.
WaitCalm(q) ==
  /\ proc'[q].state = "ZOMBIE" => proc[q].state = "ZOMBIE" /\ proc'[q].parent = proc[q].parent
  /\ proc'[q].pc = "wtScan" =>
       \/ proc[q].pc = "wtScan" /\ proc'[q].loc = proc[q].loc
       \/ \A r \in Procs : proc'[r].parent = q /\ proc'[r].state = "ZOMBIE" => r >= proc'[q].loc
  /\ proc'[q].pc = "wtSleep" => proc[q].pc = "wtSleep" \/ ~HasZombie(q)'
  /\ Asleep(q, "wtAsleep")' => \/ Asleep(q, "wtAsleep")
                               \/ ~HasZombie(q)' /\ \A r \in Procs : proc'[r].pc # "exZombie"
  /\ proc'[q].pc = "exZombie" => proc[q].pc = "exZombie" /\ proc'[q].parent = proc[q].parent
  /\ proc[q].pc = "exReparent" => proc'[q].pc = "exReparent"

\* A step leaves the wakeup() of c on its way to every sleeper that it has still to reach.
Carries(c) ==
  /\ cpu'[c].proc = cpu[c].proc /\ cpu'[c].sched = cpu[c].sched
  /\ cpu'[c].intr = cpu[c].intr /\ cpu'[c].wchan = cpu[c].wchan
  /\ \A q \in Procs :
       proc'[q].state = "SLEEPING" /\ proc'[q].chan = cpu[c].wchan /\ Coming(c, q, cpu[c].wchan)
         => cpu'[c].wk # "none" /\ cpu'[c].wi <= q
\* CPU c is in no wakeup() of a process; in none of an interrupt that is not over.
NoWake(c) == cpu[c].wk = "none" \/ cpu[c].intr # "none"
NoIntr(c) == cpu[c].intr = "none" \/ WakeDone(cpu[c])

SleeperOK(p) == ChanOK(p) /\ TimeOK(p) /\ DiskOK(p)

\* Zenon proves the leaves that name no other prover.
USE ZenonT(60)

\* A calm step is all of that.
LEMMA CalmParts == ASSUME NEW q, Calm(q) \/ Plain(q) PROVE FamilyCalm(q) /\ SleepCalm(q) /\ WaitCalm(q)
  <1>1. FamilyCalm(q)
    BY SMT DEF Calm, Plain, FamilyCalm, WatchPcs, ExitPcs
  <1>2. SleepCalm(q)
    BY DEF Calm, Plain, SleepCalm, ChanCalm, TimeCalm, DiskCalm, Rests, Awake, WatchPcs
  <1>3. WaitCalm(q)
    BY SMT DEF Calm, Plain, WaitCalm, WatchPcs, ExitPcs, Asleep
  <1>4. QED
    BY <1>1, <1>2, <1>3

\* An untouched process is calm, an untouched CPU carries on.
LEMMA SameCalm == ASSUME NEW q, proc'[q] = proc[q] PROVE Calm(q)
  BY SMT DEF Calm, Alive
\* So is the wakeup() of an untouched CPU.
LEMMA SameCarries == ASSUME NEW c, cpu'[c] = cpu[c] PROVE Carries(c)
  BY SMT DEF Carries, Coming

\* The families stay right.
LEMMA FamilyPart ==
  ASSUME ProcInv, ProcInv', FamilyOK, \A q \in Procs : FamilyCalm(q)
  PROVE  FamilyOK'
  <1>0. TypeOK /\ TypeOK' /\ InitProc \in Procs /\ Nil \notin Procs
    BY SMT, ProcAssumption DEF ProcInv, InitProc, Procs, Nil
  <1>1. \A q \in Procs : proc[q].parent \in Procs \cup {Nil}
    BY SMT, <1>0, FieldTypes DEF Thread
  <1>2. Alive(InitProc)'
    BY SMT, <1>0 DEF FamilyOK, FamilyCalm, InitProc, Childless
  <1>3. ASSUME NEW q \in Procs, NEW w, proc'[q].parent = w, w # Nil
        PROVE  Alive(w)'
    <2>1. CASE proc'[q].parent = proc[q].parent
      <3>1. w \in Procs /\ Alive(w)
        BY <1>1, <1>3, <2>1 DEF FamilyOK
      <3>2. ~Childless(w)
        BY <1>3 DEF Childless
      <3>3. QED
        BY <3>1, <3>2 DEF FamilyCalm
    <2>2. CASE Adopted(q)
      BY <1>3, <2>2 DEF Adopted
    <2>3. CASE Freed(q)
      BY <1>3, <2>3 DEF Freed
    <2>4. QED
      BY <2>1, <2>2, <2>3 DEF FamilyCalm
  <1>4. ASSUME NEW p \in Procs, p # InitProc, Alive(p)' \/ proc'[p].state = "ZOMBIE"
        PROVE  proc'[p].parent # Nil
    <2>1. CASE Alive(p) \/ proc[p].state = "ZOMBIE"
      <3>1. proc[p].parent # Nil /\ ~Freed(p)
        BY <1>4, <2>1 DEF FamilyOK, Freed, Alive
      <3>2. QED
        BY <1>0, <3>1 DEF FamilyCalm, Adopted
    <2>2. CASE ~(Alive(p) \/ proc[p].state = "ZOMBIE")
      BY <1>4, <2>2 DEF FamilyCalm
    <2>3. QED
      BY <2>1, <2>2
  <1>5. ASSUME NEW p \in Procs, proc'[p].pc = "fkReady"
        PROVE  proc'[proc'[p].loc].parent # Nil
    <2>1. CASE proc[p].pc = "fkReady" /\ proc'[p].loc = proc[p].loc
      <3>1. PICK np : np = proc[p].loc
        OBVIOUS
      <3>2. np \in Procs /\ proc[np].parent # Nil
        BY <2>1, <3>1 DEF ProcInv, WorkOK, FamilyOK
      <3>3. proc'[np].state = "USED"
        BY <1>5, <2>1, <3>1 DEF ProcInv, WorkOK
      <3>4. ~Freed(np)
        BY <3>3 DEF Freed
      <3>5. proc'[np].parent # Nil
        BY <1>0, <3>2, <3>4 DEF FamilyCalm, Adopted
      <3>6. QED
        BY <2>1, <3>1, <3>5
    <2>2. QED
      BY <1>5, <2>1 DEF FamilyCalm
  <1>6. \A p \in Procs : proc'[p].pc \in {"exReparent", "exZombie"} => p # InitProc
    BY DEF FamilyOK, FamilyCalm, ExitPcs
  <1>7. ASSUME NEW p \in Procs, NEW q \in Procs, proc'[q].parent = p, proc'[p].pc \in ExitPcs
        PROVE  proc'[p].pc = "exReparent" /\ q >= proc'[p].loc
    <2>1. CASE proc'[p].pc = proc[p].pc /\ proc'[p].loc = proc[p].loc
      <3>1. ~Adopted(q) /\ ~Freed(q)
        BY <1>0, <1>7 DEF Adopted, Freed
      <3>2. proc[q].parent = p
        BY <1>7, <3>1 DEF FamilyCalm
      <3>3. QED
        BY <1>7, <2>1, <3>2 DEF FamilyOK, ExitPcs
    <2>2. QED
      BY <1>7, <2>1 DEF FamilyCalm
  <1>8. \A q \in Procs : proc'[q].parent # Nil => Alive(proc[q].parent)'
    BY <1>3 DEF Alive
  <1>9. QED
    BY <1>2, <1>4, <1>5, <1>6, <1>7, <1>8 DEF FamilyOK, ExitPcs, InitProc, Alive

\* A wakeup() of an interrupt that is to reach a sleeper still is.
LEMMA StillComing ==
  ASSUME ProcInv, NEW p \in Procs, proc'[p].state = "SLEEPING", NEW ch, proc'[p].chan = ch,
         NEW c \in Cpus, cpu[c].intr # "none", Coming(c, p, ch), Carries(c) \/ NoIntr(c)
  PROVE  cpu'[c].intr = cpu[c].intr /\ cpu'[c].wk # "none" /\ cpu'[c].wchan = ch /\ cpu'[c].wi <= p
  <1>1. cpu[c].wi \in 0 .. NPROC + 1
    BY SMT, FieldTypes DEF ProcInv
  <1>2. ~WakeDone(cpu[c])
    BY SMT, <1>1, ProcAssumption DEF WakeDone, Coming, Procs
  <1>3. Carries(c)
    BY SMT, <1>2 DEF NoIntr
  <1>4. cpu[c].wchan = ch
    BY SMT DEF Coming
  <1>5. QED
    BY SMT, <1>3, <1>4 DEF Carries

\* The sleepers stay right: on the channel of their call, ...
LEMMA ChanPart == ASSUME NEW p \in Procs, ChanOK(p), ChanCalm(p) PROVE ChanOK(p)'
  BY DEF ChanOK, ChanCalm, Rests, Awake

\* ... in sys_sleep() with ticks left, ...
LEMMA TimePart ==
  ASSUME ProcInv, NEW p \in Procs, TimeOK(p), TimeCalm(p), ChanOK(p)', \A c \in Cpus : Carries(c) \/ NoIntr(c)
  PROVE  TimeOK(p)'
  <1>1. proc'[p].pc = "slSleep" => proc'[p].left > 0
    BY SMT DEF TimeOK, TimeCalm, Rests, Awake
  <1>2. ASSUME Asleep(p, "slAsleep")', ~(proc'[p].left > 0)
        PROVE  \E c \in Cpus : cpu'[c].intr = "clock" /\ Coming(c, p, TickChan)'
    <2>1. Asleep(p, "slAsleep") /\ ~(proc[p].left > 0) /\ proc'[p].state = "SLEEPING"
      BY SMT, <1>2 DEF Asleep, TimeCalm, Rests, Awake
    <2>2. PICK c \in Cpus : cpu[c].intr = "clock" /\ Coming(c, p, TickChan)
      BY <2>1 DEF TimeOK
    <2>3. proc'[p].chan = TickChan
      BY SMT, <1>2, <2>1 DEF ChanOK, Asleep, TickChan
    <2>4. cpu'[c].intr = cpu[c].intr /\ cpu'[c].wk # "none" /\ cpu'[c].wchan = TickChan /\ cpu'[c].wi <= p
      BY SMT, <2>1, <2>2, <2>3, StillComing
    <2>5. QED
      BY SMT, <2>2, <2>4 DEF Coming, TickChan
  <1>3. QED
    BY SMT, <1>1, <1>2 DEF TimeOK

\* ... in a disk wait with the request outstanding.
LEMMA DiskPart ==
  ASSUME ProcInv, NEW p \in Procs, DiskOK(p), DiskCalm(p), ChanOK(p)', \A c \in Cpus : Carries(c) \/ NoIntr(c)
  PROVE  DiskOK(p)'
  <1>1. proc'[p].pc = "dkSleep" => proc'[p].disk
    BY SMT DEF DiskOK, DiskCalm, Rests, Awake
  <1>2. ASSUME Asleep(p, "dkAsleep")', ~proc'[p].disk
        PROVE  \E c \in Cpus : cpu'[c].intr = "disk" /\ Coming(c, p, BufChan(p))'
    <2>1. Asleep(p, "dkAsleep") /\ ~proc[p].disk /\ proc'[p].state = "SLEEPING"
      BY SMT, <1>2 DEF Asleep, DiskCalm, Rests, Awake
    <2>2. PICK c \in Cpus : cpu[c].intr = "disk" /\ Coming(c, p, BufChan(p))
      BY <2>1 DEF DiskOK
    <2>3. proc'[p].chan = BufChan(p)
      BY SMT, <1>2, <2>1 DEF ChanOK, Asleep, BufChan
    <2>4. cpu'[c].intr = cpu[c].intr /\ cpu'[c].wk # "none" /\ cpu'[c].wchan = BufChan(p) /\ cpu'[c].wi <= p
      BY SMT, <2>1, <2>2, <2>3, StillComing
    <2>5. QED
      BY SMT, <2>2, <2>4 DEF Coming, BufChan
  <1>3. QED
    BY SMT, <1>1, <1>2 DEF DiskOK

\* The three together.
LEMMA SleepPart ==
  ASSUME ProcInv, \A p \in Procs : SleeperOK(p), \A q \in Procs : SleepCalm(q) \/ SleeperOK(q)',
         \A c \in Cpus : Carries(c) \/ NoIntr(c)
  PROVE  \A p \in Procs : SleeperOK(p)'
  <1> SUFFICES ASSUME NEW p \in Procs, SleepCalm(p) PROVE SleeperOK(p)'
    OBVIOUS
  <1>1. ChanOK(p) /\ TimeOK(p) /\ DiskOK(p) /\ ChanCalm(p) /\ TimeCalm(p) /\ DiskCalm(p)
    BY DEF SleeperOK, SleepCalm
  <1>2. ChanOK(p)'
    BY <1>1, ChanPart
  <1>3. TimeOK(p)' /\ DiskOK(p)'
    BY <1>1, <1>2, TimePart, DiskPart
  <1>4. QED
    BY <1>2, <1>3 DEF SleeperOK

\* The waits of wait() and the wakeups of exit() stay right.
LEMMA WaitPart ==
  ASSUME ProcInv, ProcInv', FamilyOK, WaitOK, \A q \in Procs : WaitCalm(q), \A q \in Procs : ChanOK(q)',
         \A c \in Cpus : Carries(c) \/ (NoWake(c) /\ NoWake(c)')
  PROVE  WaitOK'
  <1>0. TypeOK /\ TypeOK' /\ InitProc \in Procs
    BY SMT, ProcAssumption DEF ProcInv, InitProc, Procs
  <1>1. ASSUME NEW p \in Procs, NEW q \in Procs, proc'[q].parent = p, proc'[q].state = "ZOMBIE"
        PROVE  /\ proc'[p].pc = "wtScan" => q >= proc'[p].loc
               /\ proc'[p].pc # "wtSleep"
    <2>1. proc[q].parent = p /\ proc[q].state = "ZOMBIE" /\ HasZombie(p)'
      BY <1>1 DEF WaitCalm, HasZombie
    <2>2. QED
      BY <1>1, <2>1 DEF WaitOK, WaitCalm
  <1>2. ASSUME NEW p \in Procs, Asleep(p, "wtAsleep")', HasZombie(p)'
        PROVE  p = InitProc /\ \E c \in Cpus : /\ Coming(c, p, p)' /\ cpu'[c].intr = "none"
                                               /\ proc'[cpu'[c].proc].pc = "exReparent"
    <2>1. Asleep(p, "wtAsleep")
      BY <1>2 DEF WaitCalm
    <2>2. HasZombie(p)
      BY <1>2 DEF HasZombie, WaitCalm
    <2>3. p = InitProc
      BY <2>1, <2>2 DEF WaitOK
    <2>4. PICK c \in Cpus : /\ Coming(c, p, p) /\ cpu[c].intr = "none"
                            /\ proc[cpu[c].proc].pc = "exReparent"
      BY <2>1, <2>2 DEF WaitOK
    <2>5. Carries(c)
      BY SMT, <2>4 DEF NoWake, Coming
    <2>6. proc'[p].state = "SLEEPING" /\ proc'[p].chan = p
      BY SMT, <1>2 DEF ChanOK, Asleep
    <2>7. cpu[c].wchan = p
      BY SMT, <2>4 DEF Coming
    <2>8. Coming(c, p, p)' /\ cpu'[c].intr = "none" /\ cpu'[c].proc = cpu[c].proc
      <3>1. Coming(c, p, cpu[c].wchan) /\ proc'[p].chan = cpu[c].wchan
        BY <2>4, <2>6, <2>7
      <3>2. cpu'[c].wk # "none" /\ cpu'[c].wi <= p /\ cpu'[c].wchan = cpu[c].wchan
        BY <2>5, <2>6, <3>1 DEF Carries
      <3>3. cpu'[c].proc = cpu[c].proc /\ cpu'[c].intr = cpu[c].intr
        BY <2>5 DEF Carries
      <3>4. QED
        BY <2>4, <2>7, <3>2, <3>3 DEF Coming
    <2>9. cpu[c].proc \in Procs
      <3>1. CpuOK(c) /\ cpu[c].wk # "none"
        BY <2>4 DEF ProcInv, Coming
      <3>2. cpu[c].sched = "run"
        BY <2>4, <3>1 DEF CpuOK
      <3>3. cpu[c].proc \in Procs \cup {Nil}
        BY <1>0, FieldTypes DEF Cpu
      <3>4. cpu[c].proc # Nil
        BY <3>1, <3>2 DEF CpuOK
      <3>5. QED
        BY <3>3, <3>4
    <2>10. proc'[cpu'[c].proc].pc = "exReparent"
      BY <2>4, <2>8, <2>9 DEF WaitCalm
    <2>11. QED
      BY <2>3, <2>8, <2>10
  <1>3. ASSUME NEW c \in Cpus, cpu'[c].sched = "run", proc'[cpu'[c].proc].pc = "exZombie"
        PROVE  /\ cpu'[c].wchan = proc'[cpu'[c].proc].parent
               /\ Asleep(cpu[c].wchan, "wtAsleep")' => Coming(c, cpu[c].wchan, cpu[c].wchan)'
    <2>1. CpuOK(c)' /\ cpu'[c].proc \in Procs \cup {Nil}
      <3>1. cpu' \in [Cpus -> Cpu]
        BY <1>0 DEF TypeOK
      <3>2. QED
        BY SMT, <3>1 DEF ProcInv, Cpu
    <2>2. cpu'[c].proc \in Procs
      BY SMT, <1>3, <2>1 DEF CpuOK
    <2>3. cpu'[c].wk # "none" /\ cpu'[c].intr = "none"
      BY SMT, <1>3, <2>1 DEF CpuOK, FreePcs
    <2>4. Carries(c)
      BY SMT, <2>3 DEF NoWake
    <2>5. PICK p \in Procs : p = cpu[c].proc
      BY SMT, <2>2, <2>4 DEF Carries
    <2>6. cpu'[c].proc = p /\ cpu[c].sched = "run" /\ cpu'[c].wchan = cpu[c].wchan
      BY SMT, <1>3, <2>4, <2>5 DEF Carries
    <2>7. proc[p].pc = "exZombie" /\ proc'[p].parent = proc[p].parent
      BY SMT, <1>3, <2>6 DEF WaitCalm
    <2>8. /\ cpu[c].wchan = proc[p].parent
          /\ Asleep(cpu[c].wchan, "wtAsleep") => Coming(c, cpu[c].wchan, cpu[c].wchan)
      BY <2>5, <2>6, <2>7 DEF WaitOK
    <2>9. cpu[c].wchan \in Procs
      <3>1. proc[p].parent \in Procs \cup {Nil}
        BY SMT, <1>0, FieldTypes DEF Thread
      <3>2. proc[p].pc \in LockPcs
        BY SMT, <2>7 DEF LockPcs
      <3>3. proc[p].state = "RUNNING"
        BY <3>2, LockPcRuns
      <3>4. p # InitProc /\ Alive(p)
        BY SMT, <2>7, <3>3 DEF FamilyOK, Alive
      <3>5. proc[p].parent # Nil
        BY <3>4 DEF FamilyOK
      <3>6. QED
        BY SMT, <2>8, <3>1, <3>5
    <2>10. ASSUME NEW w \in Procs, w = cpu[c].wchan, proc'[w].state = "SLEEPING", proc'[w].pc = "wtAsleep"
           PROVE  cpu'[c].wk # "none" /\ cpu'[c].wi <= w
      <3>1. Asleep(w, "wtAsleep") /\ proc'[w].chan = w
        <4>1. Asleep(w, "wtAsleep")' /\ proc'[p].pc = "exZombie"
          BY <1>3, <2>6, <2>10 DEF Asleep
        <4>2. Asleep(w, "wtAsleep")
          BY <4>1 DEF WaitCalm
        <4>3. QED
          BY SMT, <2>10, <4>2 DEF ChanOK
      <3>2. Coming(c, w, cpu[c].wchan)
        BY SMT, <2>8, <2>10, <3>1
      <3>3. QED
        BY SMT, <2>4, <2>10, <3>1, <3>2 DEF Carries
    <2>11. QED
      BY SMT, <2>6, <2>7, <2>8, <2>9, <2>10 DEF Asleep, Coming
  <1>4. QED
    BY <1>1, <1>2, <1>3 DEF WaitOK

-----------------------------------------------------------------------------
(* What a step may do                                                      *)

\* What a step does to each process, and to each wakeup(), decides whether it keeps the invariant.
LEMMA PartStep ==
  ASSUME ProcInv, ProcInv', WakeInv,
         \A q \in Procs : FamilyCalm(q) /\ WaitCalm(q) /\ (SleepCalm(q) \/ SleeperOK(q)'),
         \A c \in Cpus : Carries(c) \/ (NoIntr(c) /\ NoWake(c) /\ NoWake(c)')
  PROVE  WakeInv'
  <1>1. FamilyOK /\ WaitOK /\ \A p \in Procs : SleeperOK(p)
    BY DEF WakeInv, SleeperOK
  <1>2. FamilyOK'
    BY <1>1, FamilyPart
  <1>3. \A p \in Procs : SleeperOK(p)'
    BY <1>1, SleepPart
  <1>4. WaitOK'
    BY <1>1, <1>3, WaitPart DEF SleeperOK
  <1>5. QED
    BY <1>2, <1>3, <1>4 DEF WakeInv, SleeperOK

\* A step that leaves every process but p calm.
LEMMA OneStep ==
  ASSUME ProcInv, ProcInv', WakeInv, NEW p \in Procs, \A q \in Procs : q # p => proc'[q] = proc[q],
         FamilyCalm(p), WaitCalm(p), SleepCalm(p) \/ SleeperOK(p)',
         \A c \in Cpus : cpu'[c] = cpu[c] \/ (NoIntr(c) /\ NoWake(c) /\ NoWake(c)')
  PROVE  WakeInv'
  <1>1. \A q \in Procs : q # p => FamilyCalm(q) /\ SleepCalm(q) /\ WaitCalm(q)
    BY SameCalm, CalmParts
  <1>2. \A c \in Cpus : Carries(c) \/ (NoIntr(c) /\ NoWake(c) /\ NoWake(c)')
    BY SameCarries
  <1>3. \A q \in Procs : FamilyCalm(q) /\ WaitCalm(q) /\ (SleepCalm(q) \/ SleeperOK(q)')
    BY <1>1
  <1>4. QED
    BY <1>2, <1>3, PartStep

\* A step that leaves every process calm, and no wakeup() cut short, keeps the invariant.
LEMMA CalmStep ==
  ASSUME ProcInv, ProcInv', WakeInv, \A q \in Procs : Calm(q) \/ Plain(q),
         \A c \in Cpus : cpu'[c] = cpu[c] \/ (NoIntr(c) /\ NoWake(c) /\ NoWake(c)')
  PROVE  WakeInv'
  <1>1. \A q \in Procs : FamilyCalm(q) /\ WaitCalm(q) /\ (SleepCalm(q) \/ SleeperOK(q)')
    BY CalmParts
  <1>2. \A c \in Cpus : Carries(c) \/ (NoIntr(c) /\ NoWake(c) /\ NoWake(c)')
    BY SameCarries
  <1>3. QED
    BY <1>1, <1>2, PartStep

\* Thread p moves in its own code, and not to where the invariant watches it.
Own(p) == /\ \A q \in Procs : q # p => proc'[q] = proc[q]
          /\ proc'[p].parent = proc[p].parent /\ proc'[p].state = proc[p].state
          /\ proc'[p].pc \notin WatchPcs /\ proc[p].pc \notin ExitPcs

\* Such a move keeps the invariant.
LEMMA OwnStep ==
  ASSUME ProcInv, ProcInv', WakeInv, NEW p \in Procs, Own(p), proc[p].state = "RUNNING", cpu' = cpu
  PROVE  WakeInv'
  <1>1. Plain(p)
    BY DEF Own, Plain, Alive
  <1>2. \A q \in Procs : q # p => Calm(q)
    BY SameCalm DEF Own
  <1>3. QED
    BY <1>1, <1>2, CalmStep

Minor(c, p) ==
  \/ SysReturn(c, p) \/ ForkNone(c, p) \/ ForkPeek(c, p) \/ ForkFail(c, p) \/ ForkAdmit(c, p)
  \/ WaitFree(c, p) \/ InitExits(c, p) \/ KillPass(c, p) \/ KillAdd(c, p) \/ SetCpu(c, p)
  \/ \E np \in Procs : WaitNoCopy(c, p, np)
  \/ \E call \in Calls : Syscall(c, p, call)

\* The steps of a thread that touch no wait: they only move it in its own code.
LEMMA MinorWake ==
  ASSUME ProcInv, ProcInv', WakeInv, NEW c \in Cpus, NEW p \in Procs, Minor(c, p)
  PROVE  WakeInv'
  <1>0. proc \in [Procs -> Thread] /\ proc[p] \in Thread
    BY FieldTypes DEF ProcInv, TypeOK
  <1>1. InKernel(c, p) /\ proc[p].pc \notin ExitPcs /\ cpu' = cpu
    BY DEF Minor, SysReturn, ForkNone, ForkPeek, ForkFail, ForkAdmit, WaitFree, InitExits, KillPass, KillAdd,
       SetCpu, WaitNoCopy, WaitSees, Syscall, At, ExitPcs
  <1> SUFFICES Own(p)
    BY <1>1, InKernelRuns, OwnStep
  <1>2. ASSUME NEW t, proc' = [proc EXCEPT ![p] = t], t.parent = proc[p].parent, t.state = proc[p].state,
               t.pc \notin WatchPcs
        PROVE  Own(p)
    BY <1>0, <1>1, <1>2 DEF Own
  <1>3. LET t == Done(proc[p]) IN t.parent = proc[p].parent /\ t.state = proc[p].state /\ t.pc \notin WatchPcs
    BY <1>0, DoneIs DEF WatchPcs
  <1>4. proc' = [proc EXCEPT ![p] = Done(@)] => Own(p)
    BY <1>2, <1>3
  <1>5. ASSUME NEW l, l \notin WatchPcs, proc' = [proc EXCEPT ![p].pc = l] PROVE Own(p)
    <2> DEFINE t == [proc[p] EXCEPT !.pc = l]
    <2>1. proc' = [proc EXCEPT ![p] = t]
      BY <1>0, <1>5
    <2>2. t.parent = proc[p].parent /\ t.state = proc[p].state /\ t.pc = l
      BY <1>0 DEF Thread
    <2>3. QED
      BY <1>2, <1>5, <2>1, <2>2
  <1>6. CASE ForkNone(c, p) \/ ForkAdmit(c, p) \/ WaitFree(c, p) \/ KillAdd(c, p) \/ \E np \in Procs : WaitNoCopy(c, p, np)
    BY <1>4, <1>6 DEF ForkNone, ForkAdmit, WaitFree, KillAdd, WaitNoCopy
  <1>7. CASE SysReturn(c, p)
    <2> DEFINE l == IF proc[p].killed THEN "exit" ELSE "user"
    <2>1. l \notin WatchPcs
      BY DEF WatchPcs
    <2>2. proc' = [proc EXCEPT ![p].pc = l]
      BY <1>7 DEF SysReturn
    <2> HIDE DEF l
    <2>3. QED
      BY <1>5, <2>1, <2>2
  <1>8. CASE ForkFail(c, p)
    <2> DEFINE l == IF list[Zombie] = << >> THEN "panic" ELSE "wild"
    <2>1. l \notin WatchPcs
      BY DEF WatchPcs
    <2>2. proc' = [proc EXCEPT ![p].pc = l]
      BY <1>8 DEF ForkFail
    <2> HIDE DEF l
    <2>3. QED
      BY <1>5, <2>1, <2>2
  <1>9. ASSUME NEW l, l \notin WatchPcs, NEW x, proc' = [proc EXCEPT ![p].pc = l, ![p].loc = x] PROVE Own(p)
    <2> DEFINE t == [proc[p] EXCEPT !.pc = l, !.loc = x]
    <2>1. proc' = [proc EXCEPT ![p] = t]
      BY <1>0, <1>9
    <2>2. t.parent = proc[p].parent /\ t.state = proc[p].state /\ t.pc = l
      BY <1>0 DEF Thread
    <2>3. QED
      BY <1>2, <1>9, <2>1, <2>2
  <1>10. CASE ForkPeek(c, p)
    BY <1>9, <1>10 DEF ForkPeek, WatchPcs
  <1>11. CASE InitExits(c, p)
    BY <1>9, <1>11 DEF InitExits, WatchPcs
  <1>12. CASE KillPass(c, p)
    <2>1. CASE proc[p].loc + 1 = NPROC
      BY <1>4, <1>12, <2>1 DEF KillPass
    <2>2. CASE proc[p].loc + 1 # NPROC
      <3> DEFINE t == [proc[p] EXCEPT !.loc = proc[p].loc + 1]
      <3>1. proc' = [proc EXCEPT ![p] = t]
        BY <1>0, <1>12, <2>2 DEF KillPass
      <3>2. t.parent = proc[p].parent /\ t.state = proc[p].state /\ t.pc = "kill"
        BY <1>0, <1>12 DEF Thread, KillPass, At
      <3>3. QED
        BY <1>2, <3>1, <3>2 DEF WatchPcs
    <2>3. QED
      BY <2>1, <2>2
  <1>13. CASE SetCpu(c, p)
    <2>1. PICK n \in Cpus : proc' = [proc EXCEPT ![p] = [Done(@) EXCEPT !.cpu_num = n]]
      BY <1>13 DEF SetCpu
    <2> DEFINE u == Done(proc[p])
               t == [u EXCEPT !.cpu_num = n]
    <2>2. proc' = [proc EXCEPT ![p] = t]
      BY <1>0, <2>1
    <2>3. u \in Thread /\ u.parent = proc[p].parent /\ u.state = proc[p].state /\ u.pc \notin WatchPcs
      BY <1>0, <1>3, DoneIs
    <2> HIDE DEF u
    <2>4. t.parent = u.parent /\ t.state = u.state /\ t.pc = u.pc
      BY <2>3 DEF Thread
    <2>5. QED
      BY <1>2, <2>2, <2>3, <2>4
  <1>14. CASE \E call \in Calls : Syscall(c, p, call)
    <2>1. PICK call \in Calls : Syscall(c, p, call)
      BY <1>14
    <2>2. PICK k : proc' = [proc EXCEPT ![p].pc = IF proc[p].killed THEN "exit" ELSE call, ![p].loc = 0, ![p].tgt = k]
      BY <2>1 DEF Syscall
    <2> DEFINE l == IF proc[p].killed THEN "exit" ELSE call
               t == [proc[p] EXCEPT !.pc = l, !.loc = 0, !.tgt = k]
    <2>3. l \notin WatchPcs
      BY ProcAssumption DEF WatchPcs
    <2>4. proc' = [proc EXCEPT ![p] = t]
      BY <1>0, <2>2
    <2> HIDE DEF l
    <2>5. t.parent = proc[p].parent /\ t.state = proc[p].state /\ t.pc = l
      BY <1>0 DEF Thread
    <2>6. QED
      BY <1>2, <2>3, <2>4, <2>5
  <1>15. QED
    BY <1>6, <1>7, <1>8, <1>10, <1>11, <1>12, <1>13, <1>14 DEF Minor

-----------------------------------------------------------------------------
(* fork() and kill()                                                       *)

\* Thread p works on process np: the rest is calm.
LEMMA PairIs ==
  ASSUME TypeOK, NEW p \in Procs, NEW np \in Procs, p # np, NEW t, NEW u,
         proc' = [proc EXCEPT ![p] = t, ![np] = u]
  PROVE  proc'[p] = t /\ proc'[np] = u /\ \A q \in Procs : q \notin {p, np} => Calm(q)
  <1>1. proc'[p] = t /\ proc'[np] = u /\ \A q \in Procs : q \notin {p, np} => proc'[q] = proc[q]
    BY DEF TypeOK
  <1>2. QED
    BY <1>1, SameCalm

\* A step of thread p that leaves np calm too keeps the invariant.
LEMMA PairWake ==
  ASSUME ProcInv, ProcInv', WakeInv, NEW c \in Cpus, NEW p \in Procs, NEW np \in Procs, p # np, InKernel(c, p),
         NEW t, NEW u, proc' = [proc EXCEPT ![p] = t, ![np] = u], cpu' = cpu,
         t.parent = proc[p].parent, t.state = proc[p].state, t.pc \notin WatchPcs, proc[p].pc \notin ExitPcs,
         Calm(np) \/ Plain(np)
  PROVE  WakeInv'
  <1>0. TypeOK
    BY DEF ProcInv
  <1>1. proc'[p] = t /\ proc'[np] = u /\ \A q \in Procs : q \notin {p, np} => Calm(q)
    BY <1>0, PairIs
  <1>2. proc[p].state = "RUNNING"
    BY InKernelRuns
  <1>3. Plain(p)
    BY <1>1, <1>2 DEF Plain, Alive
  <1>4. \A q \in Procs : Calm(q) \/ Plain(q)
    BY <1>1, <1>3
  <1>5. QED
    BY <1>4, CalmStep

\* allocproc() gives the new entry its pid.
LEMMA ForkLockWake ==
  ASSUME ProcInv, ProcInv', WakeInv, NEW c \in Cpus, NEW p \in Procs, ForkLock(c, p)
  PROVE  WakeInv'
  <1>n. PICK np : np = proc[p].loc
    OBVIOUS
  <1> DEFINE t == [proc[p] EXCEPT !.pc = "fkTake"]
             u == [proc[np] EXCEPT !.pid = nextpid]
  <1>1. TypeOK /\ InKernel(c, p) /\ proc[p].pc = "fkLock" /\ WorkOK(p) /\ Free(PLock(np)) /\ cpu' = cpu
    BY <1>n DEF ProcInv, ForkLock, At
  <1>2. np \in Procs /\ OnList(np, Unused)
    BY <1>n, <1>1 DEF WorkOK
  <1>3. proc[np].state = "UNUSED" /\ proc[np] \in Thread /\ proc[p] \in Thread
    BY <1>1, <1>2, ListedState, ListOfUnused, FieldTypes, Names
  <1>4. p # np
    BY <1>1, <1>3, InKernelRuns
  <1>5. proc' = [proc EXCEPT ![p] = t, ![np] = u]
    BY <1>n, <1>1, <1>2, <1>4 DEF ForkLock, TypeOK
  <1>6. t.parent = proc[p].parent /\ t.state = proc[p].state /\ t.pc = "fkTake"
    BY <1>3 DEF Thread
  <1>7. /\ u.parent = proc[np].parent /\ u.chan = proc[np].chan /\ u.left = proc[np].left /\ u.disk = proc[np].disk
        /\ u.pc = proc[np].pc /\ u.loc = proc[np].loc /\ u.state = proc[np].state
    BY <1>3 DEF Thread
  <1> HIDE DEF t, u
  <1>8. proc'[np] = u
    BY <1>1, <1>2, <1>4, <1>5, PairIs
  <1>9. Calm(np)
    BY <1>7, <1>8 DEF Calm, Alive
  <1>10. t.pc \notin WatchPcs /\ proc[p].pc \notin ExitPcs
    BY <1>1, <1>6 DEF WatchPcs, ExitPcs
  <1>11. QED
    BY <1>1, <1>2, <1>4, <1>5, <1>6, <1>9, <1>10, PairWake

\* allocproc() takes the entry off the unused list.
LEMMA ForkTakeWake ==
  ASSUME ProcInv, ProcInv', WakeInv, NEW c \in Cpus, NEW p \in Procs, ForkTake(c, p)
  PROVE  WakeInv'
  <1>n. PICK np : np = proc[p].loc
    OBVIOUS
  <1>l. PICK l \in {"fkParent", "fkFail"} :
          proc' = [proc EXCEPT ![np].state = "USED", ![np].pc = "forkret", ![p].pc = l]
    BY <1>n DEF ForkTake
  <1> DEFINE t == [proc[p] EXCEPT !.pc = l]
             u == [proc[np] EXCEPT !.state = "USED", !.pc = "forkret"]
  <1>1. TypeOK /\ InKernel(c, p) /\ proc[p].pc = "fkTake" /\ WorkOK(p) /\ cpu' = cpu
    BY <1>n DEF ProcInv, ForkTake, At
  <1>2. np \in Procs /\ proc[np].state = "UNUSED" /\ np # p
    BY <1>n, <1>1, InKernelRuns DEF WorkOK
  <1>3. proc[np] \in Thread /\ proc[p] \in Thread /\ proc[np].pc = "none"
    BY <1>1, <1>2, FieldTypes DEF ProcInv, ThreadOK
  <1>5. proc' = [proc EXCEPT ![p] = t, ![np] = u]
    BY <1>l, <1>1, <1>2 DEF TypeOK
  <1>6. t.parent = proc[p].parent /\ t.state = proc[p].state /\ t.pc = l
    BY <1>3 DEF Thread
  <1>7. u.parent = proc[np].parent /\ u.pc = "forkret" /\ u.state = "USED"
    BY <1>3 DEF Thread
  <1> HIDE DEF t, u
  <1>8. proc'[np] = u
    <2>1. TypeOK /\ np \in Procs /\ p # np
      BY <1>1, <1>2
    <2>2. QED
      BY <1>5, <2>1, PairIs
  <1>9. Plain(np)
    BY <1>2, <1>3, <1>7, <1>8 DEF Plain, Alive, WatchPcs, ExitPcs
  <1>10. t.pc \notin WatchPcs /\ proc[p].pc \notin ExitPcs
    BY <1>1, <1>6 DEF WatchPcs, ExitPcs
  <1>11. QED
    BY <1>1, <1>2, <1>5, <1>6, <1>9, <1>10, PairWake

\* kill() makes a sleeper runnable, whatever it slept on.
LEMMA KillWakeWake ==
  ASSUME ProcInv, ProcInv', WakeInv, NEW c \in Cpus, NEW p \in Procs, KillWake(c, p)
  PROVE  WakeInv'
  <1>n. PICK np : np = proc[p].loc
    OBVIOUS
  <1> DEFINE t == [proc[p] EXCEPT !.pc = "klAdd"]
             u == [proc[np] EXCEPT !.killed = TRUE, !.state = "RUNNABLE"]
  <1>1. TypeOK /\ InKernel(c, p) /\ proc[p].pc = "kill" /\ WorkOK(p) /\ cpu' = cpu /\ proc[np].state = "SLEEPING"
    BY <1>n DEF ProcInv, KillWake, At
  <1>2. np \in Procs /\ np # p
    BY <1>n, <1>1, InKernelRuns DEF WorkOK
  <1>3. proc[np] \in Thread /\ proc[p] \in Thread /\ proc[np].pc \in AsleepPcs
    BY <1>1, <1>2, FieldTypes DEF ProcInv, ThreadOK
  <1>5. proc' = [proc EXCEPT ![p] = t, ![np] = u]
    BY <1>n, <1>1, <1>2 DEF KillWake, TypeOK
  <1>6. t.parent = proc[p].parent /\ t.state = proc[p].state /\ t.pc = "klAdd"
    BY <1>3 DEF Thread
  <1>7. u.parent = proc[np].parent /\ u.pc = proc[np].pc /\ u.state = "RUNNABLE"
    BY <1>3 DEF Thread
  <1> HIDE DEF t, u
  <1>8. proc'[np] = u
    <2>1. TypeOK /\ np \in Procs /\ p # np
      BY <1>1, <1>2
    <2>2. QED
      BY <1>5, <2>1, PairIs
  <1>9. Plain(np)
    BY <1>1, <1>3, <1>7, <1>8 DEF Plain, Alive, WatchPcs, ExitPcs, AsleepPcs
  <1>10. t.pc \notin WatchPcs /\ proc[p].pc \notin ExitPcs
    BY <1>1, <1>6 DEF WatchPcs, ExitPcs
  <1>11. QED
    BY <1>1, <1>2, <1>5, <1>6, <1>9, <1>10, PairWake

\* kill() marks a process that is awake.
LEMMA KillMarkWake ==
  ASSUME ProcInv, ProcInv', WakeInv, NEW c \in Cpus, NEW p \in Procs, KillMark(c, p)
  PROVE  WakeInv'
  <1>n. PICK i : i = proc[p].loc
    OBVIOUS
  <1> DEFINE t == Done(proc[p])
  <1>1. TypeOK /\ InKernel(c, p) /\ proc[p].pc = "kill" /\ WorkOK(p) /\ cpu' = cpu
    BY DEF ProcInv, KillMark, At
  <1>2. i \in Procs /\ proc[p] \in Thread
    BY <1>n, <1>1, FieldTypes DEF WorkOK
  <1>3. t \in Thread /\ t.pc = "sysret" /\ t.state = proc[p].state /\ t.parent = proc[p].parent
    BY <1>2, DoneIs
  <1>4. proc' = [[proc EXCEPT ![p] = t] EXCEPT ![i].killed = TRUE]
    BY <1>n DEF KillMark
  <1> HIDE DEF t
  <1>5. t.pc \notin WatchPcs /\ proc[p].pc \notin ExitPcs
    BY <1>1, <1>3 DEF WatchPcs, ExitPcs
  <1>6. CASE i = p
    <2> DEFINE v == [t EXCEPT !.killed = TRUE]
    <2>1. proc' = [proc EXCEPT ![p] = v]
      BY <1>1, <1>4, <1>6 DEF TypeOK
    <2>2. v.pc = t.pc /\ v.state = t.state /\ v.parent = t.parent
      BY <1>3 DEF Thread
    <2> HIDE DEF v
    <2>3. Own(p)
      BY <1>1, <1>3, <1>5, <2>1, <2>2 DEF Own, TypeOK
    <2>4. QED
      BY <1>1, <2>3, InKernelRuns, OwnStep
  <1>7. CASE i # p
    <2> DEFINE u == [proc[i] EXCEPT !.killed = TRUE]
    <2>1. proc' = [proc EXCEPT ![p] = t, ![i] = u]
      BY <1>1, <1>2, <1>4, <1>7 DEF TypeOK
    <2>2. proc[i] \in Thread
      BY <1>1, <1>2, FieldTypes
    <2>3. /\ u.parent = proc[i].parent /\ u.chan = proc[i].chan /\ u.left = proc[i].left /\ u.disk = proc[i].disk
          /\ u.pc = proc[i].pc /\ u.loc = proc[i].loc /\ u.state = proc[i].state
      BY <2>2 DEF Thread
    <2> HIDE DEF u
    <2>4. proc'[i] = u
      BY <1>1, <1>2, <1>7, <2>1, PairIs
    <2>5. Calm(i)
      BY <2>3, <2>4 DEF Calm, Alive
    <2>6. QED
      BY <1>1, <1>2, <1>3, <1>5, <1>7, <2>1, <2>5, PairWake
  <1>8. QED
    BY <1>6, <1>7

-----------------------------------------------------------------------------
(* scheduler()                                                             *)

\* The record of CPU c changes outside of wakeup(), or at its end.
LEMMA CpuCalm ==
  ASSUME TypeOK, NEW c \in Cpus, NEW r, cpu' = [cpu EXCEPT ![c] = r], r.wk = "none",
         cpu[c].wk = "none" \/ (cpu[c].intr # "none" /\ WakeDone(cpu[c])),
         cpu[c].intr = "none" \/ WakeDone(cpu[c])
  PROVE  \A d \in Cpus : cpu'[d] = cpu[d] \/ (NoIntr(d) /\ NoWake(d) /\ NoWake(d)')
  <1>1. cpu'[c] = r /\ \A d \in Cpus : d # c => cpu'[d] = cpu[d]
    BY DEF TypeOK
  <1>2. NoIntr(c) /\ NoWake(c) /\ NoWake(c)'
    BY <1>1 DEF NoIntr, NoWake
  <1>3. QED
    BY <1>1, <1>2

\* scheduler() looks for a process, or is back from one.
LEMMA SchedPeekWake ==
  ASSUME ProcInv, ProcInv', WakeInv, NEW c \in Cpus, SchedPeek(c) \/ SchedBack(c)
  PROVE  WakeInv'
  <1>1. TypeOK /\ CpuOK(c) /\ cpu[c] \in Cpu /\ proc' = proc
    BY FieldTypes DEF ProcInv, SchedPeek, SchedBack
  <1>2. \A q \in Procs : Calm(q)
    BY <1>1, SameCalm
  <1>3. cpu[c].wk = "none" /\ cpu[c].intr = "none"
    BY <1>1 DEF SchedPeek, SchedBack, CpuOK
  <1>4. PICK r : cpu' = [cpu EXCEPT ![c] = r] /\ r.wk = cpu[c].wk
    <2>1. CASE SchedPeek(c)
      <3> DEFINE r == [cpu[c] EXCEPT !.sched = "lock", !.pick = Head(list[Runnable(c)])]
      <3>1. cpu' = [cpu EXCEPT ![c] = r]
        BY <1>1, <2>1 DEF SchedPeek, TypeOK
      <3>2. r.wk = cpu[c].wk
        BY <1>1 DEF Cpu
      <3>3. QED
        BY <3>1, <3>2
    <2>2. CASE SchedBack(c)
      <3> DEFINE r == [cpu[c] EXCEPT !.sched = "loop", !.proc = Nil]
      <3>1. cpu' = [cpu EXCEPT ![c] = r]
        BY <1>1, <2>2 DEF SchedBack, TypeOK
      <3>2. r.wk = cpu[c].wk
        BY <1>1 DEF Cpu
      <3>3. QED
        BY <3>1, <3>2
    <2>3. QED
      BY <2>1, <2>2
  <1>5. \A d \in Cpus : cpu'[d] = cpu[d] \/ (NoIntr(d) /\ NoWake(d) /\ NoWake(d)')
    BY <1>1, <1>3, <1>4, CpuCalm
  <1>6. QED
    BY <1>2, <1>5, CalmStep

\* Only the entry of p changes, and p stays calm.
LEMMA SelfCalm ==
  ASSUME ProcInv, ProcInv', WakeInv, NEW p \in Procs, NEW t, proc' = [proc EXCEPT ![p] = t],
         t.parent = proc[p].parent, t.chan = proc[p].chan, t.left = proc[p].left, t.disk = proc[p].disk,
         t.pc = proc[p].pc, t.loc = proc[p].loc,
         t.state \in {"RUNNABLE", "RUNNING"}, proc[p].state \in {"RUNNABLE", "RUNNING"},
         \A c \in Cpus : cpu'[c] = cpu[c] \/ (NoIntr(c) /\ NoWake(c) /\ NoWake(c)')
  PROVE  WakeInv'
  <1>1. proc'[p] = t /\ \A q \in Procs : q # p => proc'[q] = proc[q]
    BY DEF ProcInv, TypeOK
  <1>2. Calm(p)
    BY <1>1 DEF Calm, Alive
  <1>3. \A q \in Procs : Calm(q)
    BY <1>1, <1>2, SameCalm
  <1>4. QED
    BY <1>3, CalmStep

\* scheduler() marks its process as running.
LEMMA SchedLockWake ==
  ASSUME ProcInv, ProcInv', WakeInv, NEW c \in Cpus, SchedLock(c)
  PROVE  WakeInv'
  <1>p. PICK p : p = cpu[c].pick
    OBVIOUS
  <1>1. TypeOK /\ CpuOK(c) /\ cpu[c] \in Cpu /\ cpu[c].sched = "lock" /\ Free(PLock(p))
    BY <1>p, FieldTypes DEF ProcInv, SchedLock
  <1>2. cpu[c].wk = "none" /\ cpu[c].intr = "none" /\ p \in Procs /\ OnList(p, Runnable(c))
    BY <1>p, <1>1 DEF CpuOK
  <1>3. proc[p] \in Thread
    BY <1>1, <1>2, FieldTypes
  <1>4. proc[p].state = "RUNNABLE"
    <2>1. Runnable(c) \in ListNames /\ Runnable(c) \in ListOf(proc[p].state)
      BY <1>1, <1>2, ListedState, Names
    <2>2. QED
      BY SMT, <2>1, NamesDiffer DEF ListOf
  <1> DEFINE t == [proc[p] EXCEPT !.state = "RUNNING"]
             r == [cpu[c] EXCEPT !.sched = "take", !.proc = p]
  <1>5. proc' = [proc EXCEPT ![p] = t] /\ cpu' = [cpu EXCEPT ![c] = r]
    BY <1>p, <1>1, <1>2 DEF SchedLock, TypeOK
  <1>6. /\ t.parent = proc[p].parent /\ t.chan = proc[p].chan /\ t.left = proc[p].left /\ t.disk = proc[p].disk
        /\ t.pc = proc[p].pc /\ t.loc = proc[p].loc /\ t.state = "RUNNING"
    BY <1>3 DEF Thread
  <1>7. r.wk = "none"
    BY <1>1, <1>2 DEF Cpu
  <1> HIDE DEF t, r
  <1>8. \A d \in Cpus : cpu'[d] = cpu[d] \/ (NoIntr(d) /\ NoWake(d) /\ NoWake(d)')
    BY <1>1, <1>2, <1>5, <1>7, CpuCalm
  <1>9. t.state \in {"RUNNABLE", "RUNNING"} /\ proc[p].state \in {"RUNNABLE", "RUNNING"}
    BY <1>4, <1>6
  <1>10. QED
    BY <1>2, <1>5, <1>6, <1>8, <1>9, SelfCalm

\* scheduler() switches to it: out of sleep(), yield() or forkret().
LEMMA SchedSwitchWake ==
  ASSUME ProcInv, ProcInv', WakeInv, NEW c \in Cpus, SchedSwitch(c)
  PROVE  WakeInv'
  <1>p. PICK p : p = cpu[c].pick
    OBVIOUS
  <1>1. TypeOK /\ CpuOK(c) /\ cpu[c] \in Cpu /\ cpu[c].sched = "take"
    BY FieldTypes DEF ProcInv, SchedSwitch
  <1>2. /\ cpu[c].wk = "none" /\ cpu[c].intr = "none" /\ cpu[c].proc = p
        /\ proc[p].state = "RUNNING" /\ Ready(p)
    BY <1>p, <1>1 DEF CpuOK
  <1>3. p \in Procs /\ proc[p] \in Thread
    <2>1. p \in Procs \cup {Nil} /\ p # Nil
      BY <1>1, <1>2 DEF CpuOK, Cpu
    <2>2. QED
      BY <1>1, <2>1, FieldTypes
  <1> DEFINE t == Resume(proc[p])
             r == [cpu[c] EXCEPT !.sched = "run", !.pick = Nil]
  <1>4. proc' = [proc EXCEPT ![p] = t] /\ cpu' = [cpu EXCEPT ![c] = r]
    BY <1>p, <1>1, <1>3 DEF SchedSwitch, TypeOK
  <1>5. r.wk = "none"
    BY <1>1, <1>2 DEF Cpu
  <1> HIDE DEF r
  <1>6. \A d \in Cpus : cpu'[d] = cpu[d] \/ (NoIntr(d) /\ NoWake(d) /\ NoWake(d)')
    BY <1>1, <1>2, <1>4, <1>5, CpuCalm
  <1>7. CASE proc[p].yl = "off"
    <2>1. /\ t.parent = proc[p].parent /\ t.chan = proc[p].chan /\ t.left = proc[p].left /\ t.disk = proc[p].disk
          /\ t.pc = proc[p].pc /\ t.loc = proc[p].loc /\ t.state = "RUNNING"
      BY <1>2, <1>3, <1>7 DEF Thread, Resume
    <2> HIDE DEF t
    <2>2. t.state \in {"RUNNABLE", "RUNNING"} /\ proc[p].state \in {"RUNNABLE", "RUNNING"}
      BY <1>2, <2>1
    <2>3. QED
      BY <1>3, <1>4, <1>6, <2>1, <2>2, SelfCalm
  <1>8. CASE proc[p].yl # "off"
    <2>1. proc[p].pc \in AsleepPcs \cup {"forkret"}
      BY <1>2, <1>8 DEF Ready
    <2>2. t.parent = proc[p].parent /\ t.state = "RUNNING"
      BY <1>2, <1>3, <1>8 DEF Thread, Resume
    <2>3. t.pc \in {"user", "wait", "slTest", "dkTest"}
      BY SMT, <1>3, <1>8, <2>1 DEF Thread, Resume, AsleepPcs
    <2> HIDE DEF t
    <2>4. proc'[p] = t /\ \A q \in Procs : q # p => proc'[q] = proc[q]
      BY <1>1, <1>3, <1>4 DEF TypeOK
    <2>5. Plain(p)
      BY <1>2, <2>1, <2>2, <2>3, <2>4 DEF Plain, Alive, WatchPcs, ExitPcs, AsleepPcs
    <2>6. \A q \in Procs : Calm(q) \/ Plain(q)
      BY <2>4, <2>5, SameCalm
    <2>7. QED
      BY <1>6, <2>6, CalmStep
  <1>9. QED
    BY <1>7, <1>8

-----------------------------------------------------------------------------
(* yield() and the end of an interrupt                                     *)

\* yield() gives up the CPU in code where no wait is halfway.
LEMMA YieldWake ==
  ASSUME ProcInv, ProcInv', WakeInv, NEW c \in Cpus, NEW p \in Procs, YieldLock(c, p) \/ YieldAdd(c, p)
  PROVE  WakeInv'
  <1>1. /\ TypeOK /\ CpuOK(c) /\ cpu[c] \in Cpu /\ cpu[c].sched = "run" /\ cpu[c].proc = p
        /\ proc[p].yl \in {"lock", "add"} /\ proc[p] \in Thread
    BY FieldTypes DEF ProcInv, YieldLock, YieldAdd
  <1>2. /\ proc[p].pc \in FreePcs /\ proc[p].state \in {"RUNNING", "RUNNABLE"}
        /\ proc[p].yl = "lock" => proc[p].state = "RUNNING"
    BY <1>1 DEF CpuOK
  <1>3. cpu[c].wk = "none" /\ cpu[c].intr = "none"
    BY <1>1, <1>2 DEF CpuOK, FreePcs
  <1>4. CASE YieldLock(c, p)
    <2> DEFINE t == [proc[p] EXCEPT !.state = "RUNNABLE", !.yl = "add"]
    <2>1. proc' = [proc EXCEPT ![p] = t] /\ cpu' = cpu
      BY <1>1, <1>4 DEF YieldLock, TypeOK
    <2>2. /\ t.parent = proc[p].parent /\ t.chan = proc[p].chan /\ t.left = proc[p].left /\ t.disk = proc[p].disk
          /\ t.pc = proc[p].pc /\ t.loc = proc[p].loc /\ t.state = "RUNNABLE"
      BY <1>1 DEF Thread
    <2> HIDE DEF t
    <2>3. t.state \in {"RUNNABLE", "RUNNING"} /\ proc[p].state \in {"RUNNABLE", "RUNNING"}
      BY <1>2, <2>2
    <2>4. \A d \in Cpus : cpu'[d] = cpu[d]
      BY <2>1
    <2>5. QED
      BY <2>1, <2>2, <2>3, <2>4, SelfCalm
  <1>5. CASE YieldAdd(c, p)
    <2> DEFINE t == [proc[p] EXCEPT !.yl = "off"]
               r == [cpu[c] EXCEPT !.sched = "back"]
    <2>1. proc' = [proc EXCEPT ![p] = t] /\ cpu' = [cpu EXCEPT ![c] = r]
      BY <1>1, <1>5 DEF YieldAdd, TypeOK
    <2>2. /\ t.parent = proc[p].parent /\ t.chan = proc[p].chan /\ t.left = proc[p].left /\ t.disk = proc[p].disk
          /\ t.pc = proc[p].pc /\ t.loc = proc[p].loc /\ t.state = proc[p].state
      BY <1>1 DEF Thread
    <2>6. r.wk = "none"
      BY <1>1, <1>3 DEF Cpu
    <2> HIDE DEF t, r
    <2>3. t.state \in {"RUNNABLE", "RUNNING"} /\ proc[p].state \in {"RUNNABLE", "RUNNING"}
      BY <1>2, <2>2
    <2>4. \A d \in Cpus : cpu'[d] = cpu[d] \/ (NoIntr(d) /\ NoWake(d) /\ NoWake(d)')
      BY <1>1, <1>3, <2>1, <2>6, CpuCalm
    <2>5. QED
      BY <2>1, <2>2, <2>3, <2>4, SelfCalm
  <1>6. QED
    BY <1>4, <1>5

\* The end of a trap is calm.
LEMMA EndTrapCalm ==
  ASSUME ProcInv, NEW c \in Cpus, NEW timer, EndTrap(c, timer), cpu[c].sched \in {"loop", "run"},
         cpu[c].sched = "run" => /\ cpu[c].proc \in Procs /\ proc[cpu[c].proc].state = "RUNNING"
                                 /\ proc[cpu[c].proc].pc \in FreePcs
  PROVE  \A q \in Procs : Calm(q) \/ Plain(q)
  <1>1. CASE cpu[c].sched = "loop"
    <2>1. proc' = proc
      BY <1>1 DEF EndTrap
    <2>2. QED
      BY <2>1, SameCalm
  <1>2. CASE cpu[c].sched = "run"
    <2>p. PICK p : p = cpu[c].proc
      OBVIOUS
    <2>1. p \in Procs /\ proc[p].state = "RUNNING" /\ proc[p].pc \in FreePcs /\ cpu[c].sched # "loop"
      BY <1>2, <2>p
    <2>2. TypeOK /\ proc[p] \in Thread
      BY <2>1, FieldTypes DEF ProcInv
    <2>3. CASE proc[p].pc = "user" /\ proc[p].killed
      <3> DEFINE t == [proc[p] EXCEPT !.pc = "exit"]
      <3>1. proc' = [proc EXCEPT ![p] = t]
        BY <2>p, <2>1, <2>2, <2>3 DEF EndTrap, TypeOK
      <3>2. t.parent = proc[p].parent /\ t.state = "RUNNING" /\ t.pc = "exit"
        BY <2>1, <2>2 DEF Thread
      <3> HIDE DEF t
      <3>3. proc'[p] = t /\ \A q \in Procs : q # p => proc'[q] = proc[q]
        BY <2>1, <2>2, <3>1 DEF TypeOK
      <3>4. Plain(p)
        BY <2>1, <2>3, <3>2, <3>3 DEF Plain, Alive, WatchPcs, ExitPcs
      <3>5. QED
        BY <3>3, <3>4, SameCalm
    <2>4. CASE ~(proc[p].pc = "user" /\ proc[p].killed)
      <3> DEFINE t == [proc[p] EXCEPT !.yl = IF timer THEN "lock" ELSE @]
      <3>1. proc' = [proc EXCEPT ![p] = t]
        BY <2>p, <2>1, <2>2, <2>4 DEF EndTrap, TypeOK
      <3>2. /\ t.parent = proc[p].parent /\ t.chan = proc[p].chan /\ t.left = proc[p].left /\ t.disk = proc[p].disk
            /\ t.pc = proc[p].pc /\ t.loc = proc[p].loc /\ t.state = proc[p].state
        BY <2>2 DEF Thread
      <3> HIDE DEF t
      <3>3. proc'[p] = t /\ \A q \in Procs : q # p => proc'[q] = proc[q]
        BY <2>1, <2>2, <3>1 DEF TypeOK
      <3>4. Calm(p)
        BY <3>2, <3>3 DEF Calm, Alive
      <3>5. QED
        BY <3>3, <3>4, SameCalm
    <2>5. QED
      BY <2>3, <2>4
  <1>3. QED
    BY <1>1, <1>2

\* A timer interrupt that only preempts.
LEMMA PreemptWake ==
  ASSUME ProcInv, ProcInv', WakeInv, NEW c \in Cpus, Preempt(c)
  PROVE  WakeInv'
  <1>1. Interruptible(c) /\ EndTrap(c, TRUE) /\ cpu' = cpu
    BY DEF Preempt
  <1>2. \A q \in Procs : Calm(q) \/ Plain(q)
    BY <1>1, InterruptibleIs, EndTrapCalm
  <1>3. QED
    BY <1>1, <1>2, CalmStep

\* An interrupt ends when its wakeup() has looked at every process.
LEMMA IntrDoneWake ==
  ASSUME ProcInv, ProcInv', WakeInv, NEW c \in Cpus, IntrDone(c)
  PROVE  WakeInv'
  <1>1. /\ TypeOK /\ CpuOK(c) /\ cpu[c] \in Cpu /\ cpu[c].intr # "none" /\ WakeDone(cpu[c])
        /\ EndTrap(c, cpu[c].intr = "clock")
    BY FieldTypes DEF ProcInv, IntrDone
  <1>2. /\ cpu[c].sched \in {"loop", "run"}
        /\ cpu[c].sched = "run" => proc[cpu[c].proc].yl = "none" /\ proc[cpu[c].proc].pc \in FreePcs
    BY <1>1 DEF CpuOK
  <1>3. cpu[c].sched = "run" => cpu[c].proc \in Procs /\ proc[cpu[c].proc].state = "RUNNING"
    BY <1>1, <1>2 DEF CpuOK, Cpu
  <1>4. \A q \in Procs : Calm(q) \/ Plain(q)
    BY <1>1, <1>2, <1>3, EndTrapCalm
  <1> DEFINE s == WakeEnd(cpu[c])
             r == [s EXCEPT !.intr = "none"]
  <1>5. s \in Cpu /\ s.wk = "none"
    BY <1>1, WakeEndIs
  <1>6. cpu' = [cpu EXCEPT ![c] = r]
    BY <1>1 DEF IntrDone, TypeOK
  <1> HIDE DEF s
  <1>7. r.wk = "none"
    BY <1>5 DEF Cpu
  <1> HIDE DEF r
  <1>8. \A d \in Cpus : cpu'[d] = cpu[d] \/ (NoIntr(d) /\ NoWake(d) /\ NoWake(d)')
    BY <1>1, <1>6, <1>7, CpuCalm
  <1>9. QED
    BY <1>4, <1>8, CalmStep

-----------------------------------------------------------------------------
(* sleep() loops, wait() and the start of exit()                           *)

\* Thread p runs on in its own code, and what it knows where it gets is so.
Onward(p) ==
  /\ \A q \in Procs : q # p => proc'[q] = proc[q]
  /\ proc'[p].parent = proc[p].parent /\ proc'[p].state = proc[p].state
  /\ proc[p].pc \notin ExitPcs /\ proc'[p].pc \notin {"exZombie", "fkReady"}
  /\ proc'[p].pc = "slSleep" => proc'[p].left > 0
  /\ proc'[p].pc = "dkSleep" => proc'[p].disk
  /\ proc'[p].pc = "wtScan" =>
       \A r \in Procs : proc'[r].parent = p /\ proc'[r].state = "ZOMBIE" => r >= proc'[p].loc
  /\ proc'[p].pc = "wtSleep" => ~HasZombie(p)'
  /\ proc'[p].pc = "exReparent" => p # InitProc /\ \A r \in Procs : r >= proc'[p].loc

\* Such a move keeps the invariant.
LEMMA OnwardStep ==
  ASSUME ProcInv, ProcInv', WakeInv, NEW p \in Procs, Onward(p), proc[p].state = "RUNNING", cpu' = cpu
  PROVE  WakeInv'
  <1>1. FamilyCalm(p)
    BY DEF Onward, FamilyCalm, Alive, ExitPcs
  <1>2. WaitCalm(p)
    BY DEF Onward, WaitCalm, Asleep, ExitPcs
  <1>3. SleeperOK(p)'
    BY DEF Onward, SleeperOK, ChanOK, TimeOK, DiskOK, Asleep
  <1>4. \A q \in Procs : q # p => proc'[q] = proc[q]
    BY DEF Onward
  <1>5. QED
    BY <1>1, <1>2, <1>3, <1>4, OneStep

\* The test of a sleep loop.
LEMMA TestWake ==
  ASSUME ProcInv, ProcInv', WakeInv, NEW c \in Cpus, NEW p \in Procs, InKernel(c, p), proc[p].pc \notin ExitPcs,
         NEW lk, NEW r, NEW l \in {"slSleep", "dkSleep"}, NEW t \in Thread,
         t.parent = proc[p].parent, t.state = proc[p].state,
         ~r => (l = "slSleep" => t.left > 0) /\ (l = "dkSleep" => t.disk),
         Test(c, p, lk, r, l, t)
  PROVE  WakeInv'
  <1>0. proc \in [Procs -> Thread] /\ proc[p].state = "RUNNING" /\ cpu' = cpu
    BY InKernelRuns DEF ProcInv, TypeOK, Test
  <1> SUFFICES Onward(p)
    BY <1>0, OnwardStep
  <1>1. CASE r
    <2>1. PICK u : u = Done(t)
      OBVIOUS
    <2>2. proc' = [proc EXCEPT ![p] = u]
      BY <1>1, <2>1 DEF Test
    <2>3. u.pc = "sysret" /\ u.parent = t.parent /\ u.state = t.state
      BY <2>1, DoneIs
    <2>4. proc'[p] = u /\ \A q \in Procs : q # p => proc'[q] = proc[q]
      BY <1>0, <2>2
    <2>5. QED
      BY <2>3, <2>4 DEF Onward
  <1>2. CASE ~r
    <2>1. PICK u : u = [t EXCEPT !.pc = l]
      OBVIOUS
    <2>2. proc' = [proc EXCEPT ![p] = u]
      BY <1>2, <2>1 DEF Test
    <2>3. u.pc = l /\ u.parent = t.parent /\ u.state = t.state /\ u.left = t.left /\ u.disk = t.disk
      BY <2>1 DEF Thread
    <2>4. proc'[p] = u /\ \A q \in Procs : q # p => proc'[q] = proc[q]
      BY <1>0, <2>2
    <2>5. QED
      BY <1>2, <2>3, <2>4 DEF Onward
  <1>3. QED
    BY <1>1, <1>2

\* sys_sleep() goes on to sleep() only with ticks left.
LEMMA SleepTestWake ==
  ASSUME ProcInv, ProcInv', WakeInv, NEW c \in Cpus, NEW p \in Procs, InKernel(c, p), proc[p].pc \notin ExitPcs,
         NEW n \in 0 .. TickMod - 1, SleepTest(c, p, n)
  PROVE  WakeInv'
  <1>0. proc[p] \in Thread /\ 0 \in 0 .. TickMod - 1
    BY SMT, ProcAssumption, FieldTypes DEF ProcInv
  <1>1. PICK m \in 0 .. TickMod - 1 : m = IF proc[p].killed THEN 0 ELSE n
    BY <1>0
  <1>2. PICK t : t = [proc[p] EXCEPT !.left = m]
    OBVIOUS
  <1>3. PICK r : r = (n = 0 \/ proc[p].killed)
    OBVIOUS
  <1>4. Test(c, p, TicksLock, r, "slSleep", t)
    BY <1>1, <1>2, <1>3 DEF SleepTest, Test
  <1>5. t \in Thread /\ t.left = m /\ t.parent = proc[p].parent /\ t.state = proc[p].state
    BY <1>0, <1>2 DEF Thread
  <1>6. ~r => m > 0
    <2>1. ~r => n # 0 /\ m = n
      BY <1>1, <1>3
    <2>2. QED
      BY SMT, <2>1
  <1>7. "slSleep" \in {"slSleep", "dkSleep"} /\ "slSleep" # "dkSleep"
    OBVIOUS
  <1>8. QED
    BY <1>4, <1>5, <1>6, <1>7, TestWake

\* sys_sleep() computes or re-reads what is left.
LEMMA SleepCallWake ==
  ASSUME ProcInv, ProcInv', WakeInv, NEW c \in Cpus, NEW p \in Procs, SleepStart(c, p) \/ SleepAgain(c, p)
  PROVE  WakeInv'
  <1>0. InKernel(c, p) /\ proc[p].pc \notin ExitPcs /\ proc[p].left \in 0 .. TickMod - 1
    <2>1. proc[p] \in Thread
      BY FieldTypes DEF ProcInv
    <2>2. proc[p].left \in 0 .. TickMod - 1
      BY <2>1 DEF Thread
    <2>3. QED
      BY <2>2 DEF SleepStart, SleepAgain, At, ExitPcs
  <1>1. CASE SleepStart(c, p)
    <2>1. PICK n \in SleepArgs : SleepTest(c, p, n % TickMod)
      BY <1>1 DEF SleepStart
    <2>2. PICK m : m = n % TickMod
      OBVIOUS
    <2>3. m \in 0 .. TickMod - 1
      BY SMT, <2>2, ProcAssumption
    <2>4. QED
      BY <1>0, <2>1, <2>2, <2>3, SleepTestWake
  <1>2. CASE SleepAgain(c, p)
    <2>1. SleepTest(c, p, proc[p].left)
      BY <1>2 DEF SleepAgain
    <2>2. QED
      BY <1>0, <2>1, SleepTestWake
  <1>3. QED
    BY <1>1, <1>2

\* virtio_disk_rw() goes on to sleep() only while its request is outstanding.
LEMMA DiskCallWake ==
  ASSUME ProcInv, ProcInv', WakeInv, NEW c \in Cpus, NEW p \in Procs, DiskStart(c, p) \/ DiskAgain(c, p)
  PROVE  WakeInv'
  <1>0. InKernel(c, p) /\ proc[p].pc \notin ExitPcs /\ proc[p] \in Thread
    BY FieldTypes DEF ProcInv, DiskStart, DiskAgain, At, ExitPcs
  <1>7. "dkSleep" \in {"slSleep", "dkSleep"} /\ "slSleep" # "dkSleep"
    OBVIOUS
  <1>1. CASE DiskStart(c, p)
    <2>1. PICK t : t = [proc[p] EXCEPT !.disk = TRUE]
      OBVIOUS
    <2>2. t \in Thread /\ t.disk /\ t.parent = proc[p].parent /\ t.state = proc[p].state
      BY <1>0, <2>1 DEF Thread
    <2>3. Test(c, p, DiskLock, FALSE, "dkSleep", t)
      BY <1>1, <2>1 DEF DiskStart
    <2>4. QED
      BY <1>0, <1>7, <2>2, <2>3, TestWake
  <1>2. CASE DiskAgain(c, p)
    <2>1. PICK r : r = ~proc[p].disk
      OBVIOUS
    <2>2. ~r => proc[p].disk
      BY <2>1
    <2>3. Test(c, p, DiskLock, r, "dkSleep", proc[p])
      BY <1>2, <2>1 DEF DiskAgain, Test
    <2>4. QED
      BY <1>0, <1>7, <2>2, <2>3, TestWake
  <1>3. QED
    BY <1>1, <1>2

\* wait() and exit() begin, and wait() goes from child to child.
LEMMA WaitEnterWake ==
  ASSUME ProcInv, ProcInv', WakeInv, NEW c \in Cpus, NEW p \in Procs, WaitEnter(c, p) \/ ExitStart(c, p)
  PROVE  WakeInv'
  <1>0. /\ proc \in [Procs -> Thread] /\ proc[p] \in Thread /\ InKernel(c, p) /\ proc[p].pc \notin ExitPcs /\ cpu' = cpu
    BY FieldTypes DEF ProcInv, TypeOK, WaitEnter, ExitStart, At, ExitPcs
  <1>1. \A r \in Procs : r >= 0
    BY SMT DEF Procs
  <1>2. PICK l : /\ proc' = [proc EXCEPT ![p].pc = l, ![p].loc = 0]
                 /\ l = "wtScan" \/ (l = "exReparent" /\ p # InitProc)
    BY DEF WaitEnter, ExitStart
  <1>3. PICK t : t = [proc[p] EXCEPT !.pc = l, !.loc = 0]
    OBVIOUS
  <1>4. proc'[p] = t /\ \A q \in Procs : q # p => proc'[q] = proc[q]
    BY <1>0, <1>2, <1>3
  <1>5. t.pc = l /\ t.loc = 0 /\ t.parent = proc[p].parent /\ t.state = proc[p].state
    BY <1>0, <1>3 DEF Thread
  <1>6. Onward(p)
    BY <1>0, <1>1, <1>2, <1>4, <1>5 DEF Onward
  <1>7. QED
    BY <1>0, <1>6, InKernelRuns, OnwardStep

\* A zombie child that a wait() has not seen lies ahead.
LEMMA ZombieAhead ==
  ASSUME WakeInv, NEW p \in Procs, proc[p].pc = "wtScan", NEW r \in Procs,
         proc[r].parent = p, proc[r].state = "ZOMBIE"
  PROVE  r \in KidsFrom(p, proc[p].loc)
  <1>1. r >= proc[p].loc
    BY DEF WakeInv, WaitOK
  <1>2. QED
    BY <1>1 DEF KidsFrom, Children

\* wait() goes past a child that is not a zombie.
LEMMA WaitPassWake ==
  ASSUME ProcInv, ProcInv', WakeInv, NEW c \in Cpus, NEW p \in Procs, NEW np \in Procs, WaitPass(c, p, np)
  PROVE  WakeInv'
  <1>0. /\ proc \in [Procs -> Thread] /\ proc[p] \in Thread /\ InKernel(c, p) /\ cpu' = cpu
        /\ proc[p].pc = "wtScan" /\ proc[np].state # "ZOMBIE"
    BY FieldTypes DEF ProcInv, TypeOK, WaitPass, WaitSees, At
  <1>1. PICK t : t = [proc[p] EXCEPT !.loc = np + 1]
    OBVIOUS
  <1>2. proc'[p] = t /\ \A q \in Procs : q # p => proc'[q] = proc[q]
    BY <1>0, <1>1 DEF WaitPass
  <1>3. t.pc = "wtScan" /\ t.loc = np + 1 /\ t.parent = proc[p].parent /\ t.state = proc[p].state
    BY <1>0, <1>1 DEF Thread
  <1>4. ASSUME NEW r \in Procs, proc'[r].parent = p, proc'[r].state = "ZOMBIE" PROVE r >= np + 1
    <2>1. proc[r].parent = p /\ proc[r].state = "ZOMBIE"
      BY <1>2, <1>3, <1>4
    <2>2. r \in KidsFrom(p, proc[p].loc) /\ r # np
      BY <1>0, <2>1, ZombieAhead
    <2>3. np <= r
      BY <2>2 DEF WaitPass, WaitSees, WaitNext, First
    <2>4. QED
      BY SMT, <2>2, <2>3 DEF Procs
  <1>5. Onward(p)
    BY <1>0, <1>2, <1>3, <1>4 DEF Onward, ExitPcs
  <1>6. QED
    BY <1>0, <1>5, InKernelRuns, OnwardStep

\* wait() goes on to sleep() only when no child is a zombie.
LEMMA WaitDecideWake ==
  ASSUME ProcInv, ProcInv', WakeInv, NEW c \in Cpus, NEW p \in Procs, WaitDecide(c, p)
  PROVE  WakeInv'
  <1>0. /\ proc \in [Procs -> Thread] /\ proc[p] \in Thread /\ InKernel(c, p) /\ cpu' = cpu
        /\ proc[p].pc = "wtScan" /\ KidsFrom(p, proc[p].loc) = {}
    BY FieldTypes DEF ProcInv, TypeOK, WaitDecide, At
  <1>1. PICK t : /\ proc' = [proc EXCEPT ![p] = t]
                 /\ t = Done(proc[p]) \/ t = [proc[p] EXCEPT !.pc = "wtSleep"]
    BY <1>0 DEF WaitDecide
  <1>2. t.pc \in {"sysret", "wtSleep"} /\ t.parent = proc[p].parent /\ t.state = proc[p].state
    <2>1. CASE t = Done(proc[p])
      BY <1>0, <2>1, DoneIs
    <2>2. CASE t = [proc[p] EXCEPT !.pc = "wtSleep"]
      BY <1>0, <2>2 DEF Thread
    <2>3. QED
      BY <1>1, <2>1, <2>2
  <1>3. proc'[p] = t /\ \A q \in Procs : q # p => proc'[q] = proc[q]
    BY <1>0, <1>1
  <1>4. ~HasZombie(p)'
    <2>1. SUFFICES ASSUME NEW r \in Procs, proc'[r].parent = p, proc'[r].state = "ZOMBIE" PROVE FALSE
      BY DEF HasZombie
    <2>2. proc[r].parent = p /\ proc[r].state = "ZOMBIE"
      BY <1>2, <1>3, <2>1
    <2>3. QED
      BY <1>0, <2>2, ZombieAhead
  <1>5. Onward(p)
    BY <1>0, <1>2, <1>3, <1>4 DEF Onward, ExitPcs
  <1>6. QED
    BY <1>0, <1>5, InKernelRuns, OnwardStep

-----------------------------------------------------------------------------
(* Going to sleep, fork() and wait() on a child                            *)

\* wait_lock: one thread at a time is in the part of wait() or exit() that it guards.
WaitPcs == {"wtScan", "wtFree", "wtSleep", "exReparent", "exZombie"}

\* So two threads there are the same.
LEMMA OneWaiter ==
  ASSUME ProcInv, NEW p \in Procs, NEW q \in Procs, proc[p].pc \in WaitPcs, proc[q].pc \in WaitPcs
  PROVE  p = q
  <1>1. ASSUME NEW r \in Procs, proc[r].pc \in WaitPcs PROVE \E d \in Cpus : cpu[d].proc = r /\ lock[WaitLock] = d
    <2>1. proc[r].pc \in LockPcs
      BY <1>1 DEF WaitPcs, LockPcs
    <2>2. proc[r].yl = "none"
      BY <2>1, LockPcRuns
    <2>3. WaitLock \in Kept(r)
      BY <1>1, <2>2 DEF Kept, WaitPcs
    <2>4. QED
      BY <2>1, <2>3, KeptHeld, Names
  <1>2. QED
    BY <1>1

\* A thread goes to sleep.
LEMMA SleepWake ==
  ASSUME ProcInv, ProcInv', WakeInv, NEW c \in Cpus, NEW p \in Procs, NEW l, At(c, p, l), l \notin ExitPcs,
         NEW ch, NEW lk, NEW a, Sleep(c, p, ch, lk, a),
         \/ a = "slAsleep" /\ ch = TickChan /\ proc[p].left > 0
         \/ a = "dkAsleep" /\ ch = BufChan(p) /\ proc[p].disk
         \/ a = "wtAsleep" /\ ch = p /\ ~HasZombie(p) /\ \A q \in Procs : proc[q].pc # "exZombie"
  PROVE  WakeInv'
  <1>0. proc \in [Procs -> Thread] /\ proc[p] \in Thread /\ cpu \in [Cpus -> Cpu] /\ cpu[c] \in Cpu
    BY FieldTypes DEF ProcInv, TypeOK
  <1>1. proc[p].state = "RUNNING" /\ cpu[c].intr = "none" /\ cpu[c].wk = "none" /\ proc[p].pc = l
    BY InKernelRuns DEF At, InKernel
  <1>2. PICK t : t = [proc[p] EXCEPT !.chan = ch, !.state = "SLEEPING", !.pc = a]
    OBVIOUS
  <1>3. proc'[p] = t /\ \A q \in Procs : q # p => proc'[q] = proc[q]
    BY <1>0, <1>2 DEF Sleep
  <1>4. /\ t.chan = ch /\ t.state = "SLEEPING" /\ t.pc = a /\ t.parent = proc[p].parent
        /\ t.left = proc[p].left /\ t.disk = proc[p].disk
    BY <1>0, <1>2 DEF Thread
  <1>5. cpu'[c].wk = "none" /\ \A d \in Cpus : d # c => cpu'[d] = cpu[d]
    BY <1>0, <1>1 DEF Sleep, Cpu
  <1>6. \A d \in Cpus : cpu'[d] = cpu[d] \/ (NoIntr(d) /\ NoWake(d) /\ NoWake(d)')
    BY <1>1, <1>5 DEF NoIntr, NoWake
  <1>7. FamilyCalm(p)
    BY <1>1, <1>3, <1>4 DEF FamilyCalm, Alive, ExitPcs
  <1>8. SleeperOK(p)'
    <2>1. ChanOK(p)'
      BY SMT, <1>3, <1>4 DEF ChanOK, TickChan, BufChan
    <2>2. TimeOK(p)' /\ DiskOK(p)'
      BY <1>3, <1>4 DEF TimeOK, DiskOK, Asleep
    <2>3. QED
      BY <2>1, <2>2 DEF SleeperOK
  <1>9. WaitCalm(p)
    <2>1. ASSUME a = "wtAsleep" PROVE ~HasZombie(p)' /\ \A r \in Procs : proc'[r].pc # "exZombie"
      <3>1. ~HasZombie(p) /\ \A q \in Procs : proc[q].pc # "exZombie"
        BY <2>1
      <3>2. \A q \in Procs : proc'[q].state = "ZOMBIE" => proc'[q] = proc[q]
        BY <1>3, <1>4
      <3>3. ~HasZombie(p)'
        BY <3>1, <3>2 DEF HasZombie
      <3>4. QED
        BY <1>3, <1>4, <2>1, <3>1, <3>3
    <2>2. QED
      BY <1>1, <1>3, <1>4, <2>1 DEF WaitCalm, Asleep, ExitPcs
  <1>10. QED
    BY <1>3, <1>6, <1>7, <1>8, <1>9, OneStep

\* The three callers of sleep().
LEMMA GoesToSleepWake ==
  ASSUME ProcInv, ProcInv', WakeInv, NEW c \in Cpus, NEW p \in Procs,
         SleepWait(c, p) \/ DiskWait(c, p) \/ WaitSleep(c, p)
  PROVE  WakeInv'
  <1>0. TimeOK(p) /\ DiskOK(p) /\ WaitOK
    BY DEF WakeInv
  <1>1. CASE SleepWait(c, p)
    <2>1. At(c, p, "slSleep") /\ Sleep(c, p, TickChan, TicksLock, "slAsleep") /\ proc[p].left > 0
      BY <1>0, <1>1 DEF SleepWait, TimeOK, At
    <2>2. "slSleep" \notin ExitPcs
      BY DEF ExitPcs
    <2>3. QED
      BY <2>1, <2>2, SleepWake
  <1>2. CASE DiskWait(c, p)
    <2>1. At(c, p, "dkSleep") /\ Sleep(c, p, BufChan(p), DiskLock, "dkAsleep") /\ proc[p].disk
      BY <1>0, <1>2 DEF DiskWait, DiskOK, At
    <2>2. "dkSleep" \notin ExitPcs
      BY DEF ExitPcs
    <2>3. QED
      BY <2>1, <2>2, SleepWake
  <1>3. CASE WaitSleep(c, p)
    <2>1. At(c, p, "wtSleep") /\ Sleep(c, p, p, WaitLock, "wtAsleep") /\ proc[p].pc = "wtSleep"
      BY <1>3 DEF WaitSleep, At
    <2>2. "wtSleep" \notin ExitPcs
      BY DEF ExitPcs
    <2>3. ~HasZombie(p)
      BY <1>0, <2>1 DEF WaitOK, HasZombie
    <2>4. \A q \in Procs : proc[q].pc # "exZombie"
      BY <2>1, OneWaiter DEF WaitPcs
    <2>5. QED
      BY <2>1, <2>2, <2>3, <2>4, SleepWake
  <1>4. QED
    BY <1>1, <1>2, <1>3

\* fork() gives the new process its parent, and makes it runnable.
LEMMA ForkParentWake ==
  ASSUME ProcInv, ProcInv', WakeInv, NEW c \in Cpus, NEW p \in Procs, ForkParent(c, p)
  PROVE  WakeInv'
  <1>n. PICK np : np = proc[p].loc
    OBVIOUS
  <1>t. PICK t, u : t = [proc[p] EXCEPT !.pc = "fkReady"] /\ u = [proc[np] EXCEPT !.parent = p]
    OBVIOUS
  <1>1. InKernel(c, p) /\ proc[p].pc = "fkParent" /\ WorkOK(p) /\ cpu' = cpu /\ proc \in [Procs -> Thread]
    BY DEF ProcInv, TypeOK, ForkParent, At
  <1>2. np \in Procs /\ proc[np].state = "USED" /\ proc[p].state = "RUNNING" /\ np # p
    BY <1>n, <1>1, InKernelRuns DEF WorkOK
  <1>3. proc[np] \in Thread /\ proc[p] \in Thread /\ proc[np].pc = "forkret" /\ p # Nil
    BY <1>1, <1>2, NoNames DEF ProcInv, ThreadOK
  <1>4. proc'[p] = t /\ proc'[np] = u /\ \A q \in Procs : q \notin {p, np} => proc'[q] = proc[q]
    BY <1>n, <1>t, <1>1, <1>2 DEF ForkParent
  <1>5. t.parent = proc[p].parent /\ t.state = "RUNNING" /\ t.pc = "fkReady" /\ t.loc = np
    BY <1>n, <1>t, <1>2, <1>3 DEF Thread
  <1>6. u.parent = p /\ u.state = "USED" /\ u.pc = "forkret"
    BY <1>t, <1>2, <1>3 DEF Thread
  <1>7. FamilyCalm(p) /\ WaitCalm(p) /\ SleepCalm(p)
    <2>1. FamilyCalm(p)
      BY <1>2, <1>3, <1>4, <1>5, <1>6 DEF FamilyCalm, Alive, ExitPcs
    <2>2. WaitCalm(p)
      BY <1>1, <1>2, <1>4, <1>5 DEF WaitCalm, Asleep
    <2>3. SleepCalm(p)
      BY <1>4, <1>5 DEF SleepCalm, ChanCalm, TimeCalm, DiskCalm, Rests, Awake
    <2>4. QED
      BY <2>1, <2>2, <2>3
  <1>8. FamilyCalm(np) /\ WaitCalm(np) /\ SleepCalm(np)
    <2>1. Adopted(np)
      BY <1>4, <1>5, <1>6 DEF Adopted, Alive, ExitPcs
    <2>2. FamilyCalm(np)
      BY <1>2, <1>4, <1>6, <2>1 DEF FamilyCalm, Alive, ExitPcs
    <2>3. WaitCalm(np)
      BY <1>3, <1>4, <1>6 DEF WaitCalm, Asleep
    <2>4. SleepCalm(np)
      BY <1>4, <1>6 DEF SleepCalm, ChanCalm, TimeCalm, DiskCalm, Rests, Awake
    <2>5. QED
      BY <2>2, <2>3, <2>4
  <1>9. \A q \in Procs : FamilyCalm(q) /\ WaitCalm(q) /\ (SleepCalm(q) \/ SleeperOK(q)')
    BY <1>4, <1>7, <1>8, SameCalm, CalmParts
  <1>10. \A d \in Cpus : Carries(d) \/ (NoIntr(d) /\ NoWake(d) /\ NoWake(d)')
    BY <1>1, SameCarries
  <1>11. QED
    BY <1>9, <1>10, PartStep

\* The new process, which has its parent by now, becomes runnable.
LEMMA ForkReadyWake ==
  ASSUME ~BLNCFLG, ProcInv, ProcInv', WakeInv, NEW c \in Cpus, NEW p \in Procs, ForkReady(c, p)
  PROVE  WakeInv'
  <1>n. PICK np : np = proc[p].loc
    OBVIOUS
  <1>t. PICK t, u : t = [proc[p] EXCEPT !.pc = "fkAdmit"] /\ u = [proc[np] EXCEPT !.state = "RUNNABLE"]
    OBVIOUS
  <1>1. InKernel(c, p) /\ proc[p].pc = "fkReady" /\ WorkOK(p) /\ cpu' = cpu /\ proc \in [Procs -> Thread]
    BY DEF ProcInv, TypeOK, ForkReady, At, Counted
  <1>2. np \in Procs /\ proc[np].state = "USED" /\ proc[p].state = "RUNNING" /\ np # p /\ proc[np].parent # Nil
    BY <1>n, <1>1, InKernelRuns DEF WorkOK, WakeInv, FamilyOK
  <1>3. proc[np] \in Thread /\ proc[p] \in Thread /\ proc[np].pc = "forkret"
    BY <1>1, <1>2 DEF ProcInv, ThreadOK
  <1>4. proc'[p] = t /\ proc'[np] = u /\ \A q \in Procs : q \notin {p, np} => proc'[q] = proc[q]
    BY <1>n, <1>t, <1>1, <1>2 DEF ForkReady, Balanced
  <1>5. t.parent = proc[p].parent /\ t.state = "RUNNING" /\ t.pc = "fkAdmit"
    BY <1>t, <1>2, <1>3 DEF Thread
  <1>6. u.parent = proc[np].parent /\ u.state = "RUNNABLE" /\ u.pc = "forkret"
    BY <1>t, <1>2, <1>3 DEF Thread
  <1>7. Plain(p)
    BY <1>1, <1>2, <1>4, <1>5 DEF Plain, Alive, WatchPcs, ExitPcs
  <1>8. FamilyCalm(np) /\ WaitCalm(np) /\ SleepCalm(np)
    <2>2. FamilyCalm(np)
      BY <1>2, <1>4, <1>6 DEF FamilyCalm, Alive, ExitPcs
    <2>3. WaitCalm(np)
      BY <1>3, <1>4, <1>6 DEF WaitCalm, Asleep
    <2>4. SleepCalm(np)
      BY <1>4, <1>6 DEF SleepCalm, ChanCalm, TimeCalm, DiskCalm, Rests, Awake
    <2>5. QED
      BY <2>2, <2>3, <2>4
  <1>9. \A q \in Procs : FamilyCalm(q) /\ WaitCalm(q) /\ (SleepCalm(q) \/ SleeperOK(q)')
    BY <1>4, <1>7, <1>8, SameCalm, CalmParts
  <1>10. \A d \in Cpus : Carries(d) \/ (NoIntr(d) /\ NoWake(d) /\ NoWake(d)')
    BY <1>1, SameCarries
  <1>11. QED
    BY <1>9, <1>10, PartStep

\* wait() frees a zombie.
LEMMA WaitReapWake ==
  ASSUME ProcInv, ProcInv', WakeInv, NEW c \in Cpus, NEW p \in Procs, NEW np \in Procs, WaitReap(c, p, np)
  PROVE  WakeInv'
  <1>t. PICK t, u : /\ t = [proc[p] EXCEPT !.pc = "wtFree", !.loc = np]
                    /\ u = [proc[np] EXCEPT !.pid = 0, !.parent = Nil, !.chan = Nil, !.killed = FALSE, !.state = "UNUSED"]
    OBVIOUS
  <1>1. /\ InKernel(c, p) /\ proc[p].pc = "wtScan" /\ cpu' = cpu /\ proc \in [Procs -> Thread]
        /\ proc[np].state = "ZOMBIE"
    BY DEF ProcInv, TypeOK, WaitReap, WaitSees, At
  <1>2. proc[p].state = "RUNNING" /\ np # p
    BY <1>1, InKernelRuns
  <1>3. proc[np] \in Thread /\ proc[p] \in Thread /\ proc[np].pc = "none"
    BY <1>1, <1>2 DEF ProcInv, ThreadOK
  <1>4. proc'[p] = t /\ proc'[np] = u /\ \A q \in Procs : q \notin {p, np} => proc'[q] = proc[q]
    BY <1>t, <1>1, <1>2 DEF WaitReap
  <1>5. t.parent = proc[p].parent /\ t.state = "RUNNING" /\ t.pc = "wtFree"
    BY <1>t, <1>2, <1>3 DEF Thread
  <1>6. u.parent = Nil /\ u.state = "UNUSED" /\ u.pc = "none"
    BY <1>t, <1>3 DEF Thread
  <1>7. Plain(p)
    BY <1>1, <1>2, <1>4, <1>5 DEF Plain, Alive, WatchPcs, ExitPcs
  <1>8. FamilyCalm(np) /\ WaitCalm(np) /\ SleepCalm(np)
    <2>1. Freed(np)
      BY <1>4, <1>6 DEF Freed
    <2>2. FamilyCalm(np)
      BY <1>1, <1>4, <1>6, <2>1 DEF FamilyCalm, Alive, ExitPcs
    <2>3. WaitCalm(np)
      BY <1>3, <1>4, <1>6 DEF WaitCalm, Asleep
    <2>4. SleepCalm(np)
      BY <1>4, <1>6 DEF SleepCalm, ChanCalm, TimeCalm, DiskCalm, Rests, Awake
    <2>5. QED
      BY <2>2, <2>3, <2>4
  <1>9. \A q \in Procs : FamilyCalm(q) /\ WaitCalm(q) /\ (SleepCalm(q) \/ SleeperOK(q)')
    BY <1>4, <1>7, <1>8, SameCalm, CalmParts
  <1>10. \A d \in Cpus : Carries(d) \/ (NoIntr(d) /\ NoWake(d) /\ NoWake(d)')
    BY <1>1, SameCarries
  <1>11. QED
    BY <1>9, <1>10, PartStep

-----------------------------------------------------------------------------
(* wakeup() and the interrupts that call it                                *)

\* The process that wakeup() skips, the one that calls it or that it interrupts, does not sleep.
LEMMA SkipsAwake ==
  ASSUME ProcInv, NEW c \in Cpus, cpu[c].wk # "none", NEW q \in Procs, proc[q].state = "SLEEPING"
  PROVE  cpu[c].proc # q
  <1>1. CpuOK(c) /\ q # Nil
    BY NoNames DEF ProcInv
  <1>2. QED
    BY <1>1 DEF CpuOK

\* A turn of wakeup() that leaves its process asleep on no account of this channel.
LEMMA NextCarries ==
  ASSUME ProcInv, NEW c \in Cpus, cpu[c].wk # "none", cpu[c].wi < NPROC, proc' = proc,
         cpu' = [cpu EXCEPT ![c] = WakeNext(@)], NEW i \in Procs, i = cpu[c].wi,
         ~(proc[i].state = "SLEEPING" /\ proc[i].chan = cpu[c].wchan)
  PROVE  Carries(c)
  <1>0. cpu[c] \in Cpu /\ cpu \in [Cpus -> Cpu]
    BY FieldTypes DEF ProcInv, TypeOK
  <1>1. PICK s : s = WakeNext(cpu[c])
    OBVIOUS
  <1>2. /\ s.wk = "scan" /\ s.wchan = cpu[c].wchan /\ s.wi = WakeFrom(cpu[c], i + 1)
        /\ s.proc = cpu[c].proc /\ s.sched = cpu[c].sched /\ s.intr = cpu[c].intr
    BY <1>0, <1>1, WakeNextIs
  <1>3. cpu'[c] = s
    BY <1>0, <1>1
  <1>4. ASSUME NEW q \in Procs, proc'[q].state = "SLEEPING", proc'[q].chan = cpu[c].wchan, Coming(c, q, cpu[c].wchan)
        PROVE  s.wi <= q
    <2>1. q # i /\ i <= q /\ cpu[c].proc # q
      BY <1>4, SkipsAwake DEF Coming
    <2>2. QED
      BY SMT, <1>2, <2>1 DEF WakeFrom, Procs
  <1>5. QED
    BY <1>2, <1>3, <1>4 DEF Carries

\* The loop of wakeup() leaves no sleeper of its channel behind.
LEMMA WakePassWake ==
  ASSUME ProcInv, ProcInv', WakeInv, NEW c \in Cpus, WakePass(c) \/ WakeAdd(c)
  PROVE  WakeInv'
  <1>1. PICK i : i = cpu[c].wi
    OBVIOUS
  <1>2. i \in 0 .. NPROC + 1 /\ CpuOK(c) /\ cpu \in [Cpus -> Cpu]
    BY <1>1, FieldTypes DEF ProcInv, TypeOK
  <1>3. cpu[c].wk # "none" /\ proc' = proc /\ cpu' = [cpu EXCEPT ![c] = WakeNext(@)]
    BY DEF WakePass, WakeAdd
  <1>4. i \in Procs /\ ~(proc[i].state = "SLEEPING" /\ proc[i].chan = cpu[c].wchan)
    <2>1. CASE WakePass(c)
      <3>1. i < NPROC
        BY <1>1, <2>1 DEF WakePass
      <3>2. i \in Procs
        BY SMT, <1>2, <3>1, ProcAssumption DEF Procs
      <3>3. QED
        BY <1>1, <2>1, <3>2 DEF WakePass
    <2>2. CASE WakeAdd(c)
      BY <1>1, <1>2, <2>2 DEF WakeAdd, CpuOK
    <2>3. QED
      BY <2>1, <2>2
  <1>5. cpu[c].wi < NPROC
    BY SMT, <1>1, <1>4, ProcAssumption DEF Procs
  <1>6. Carries(c)
    BY <1>1, <1>3, <1>4, <1>5, NextCarries
  <1>7. \A d \in Cpus : d # c => cpu'[d] = cpu[d]
    BY <1>2, <1>3
  <1>8. \A d \in Cpus : Carries(d) \/ (NoIntr(d) /\ NoWake(d) /\ NoWake(d)')
    BY <1>6, <1>7, SameCarries
  <1>9. \A q \in Procs : FamilyCalm(q) /\ WaitCalm(q) /\ (SleepCalm(q) \/ SleeperOK(q)')
    BY <1>3, SameCalm, CalmParts
  <1>10. QED
    BY <1>8, <1>9, PartStep

\* wakeup() makes a sleeper of its channel runnable.
LEMMA WakeTakeWake ==
  ASSUME ~BLNCFLG, ProcInv, ProcInv', WakeInv, NEW c \in Cpus, WakeTake(c)
  PROVE  WakeInv'
  <1>1. PICK i : i = cpu[c].wi
    OBVIOUS
  <1>2. /\ i \in 0 .. NPROC + 1 /\ cpu \in [Cpus -> Cpu] /\ cpu[c] \in Cpu /\ proc \in [Procs -> Thread]
        /\ i < NPROC /\ cpu[c].wk = "scan" /\ proc[i].state = "SLEEPING"
        /\ proc' = [proc EXCEPT ![i].state = "RUNNABLE"] /\ cpu' = [cpu EXCEPT ![c].wk = "add"]
    BY <1>1, FieldTypes DEF ProcInv, TypeOK, WakeTake, Balanced, Counted
  <1>3. i \in Procs
    BY SMT, <1>2, ProcAssumption DEF Procs
  <1>4. proc[i] \in Thread /\ proc[i].pc \in AsleepPcs
    BY <1>2, <1>3 DEF ProcInv, ThreadOK
  <1>5. PICK t, r : t = [proc[i] EXCEPT !.state = "RUNNABLE"] /\ r = [cpu[c] EXCEPT !.wk = "add"]
    OBVIOUS
  <1>6. proc'[i] = t /\ \A q \in Procs : q # i => proc'[q] = proc[q]
    BY <1>2, <1>3, <1>5
  <1>7. cpu'[c] = r /\ \A d \in Cpus : d # c => cpu'[d] = cpu[d]
    BY <1>2, <1>5
  <1>8. t.state = "RUNNABLE" /\ t.pc = proc[i].pc /\ t.parent = proc[i].parent
    BY <1>4, <1>5 DEF Thread
  <1>9. /\ r.wk = "add" /\ r.wi = cpu[c].wi /\ r.wchan = cpu[c].wchan /\ r.intr = cpu[c].intr
        /\ r.proc = cpu[c].proc /\ r.sched = cpu[c].sched
    BY <1>2, <1>5 DEF Cpu
  <1>10. Plain(i)
    BY <1>2, <1>4, <1>6, <1>8 DEF Plain, Alive, WatchPcs, ExitPcs, AsleepPcs
  <1>11. Carries(c)
    BY <1>7, <1>9 DEF Carries, Coming
  <1>12. \A d \in Cpus : Carries(d) \/ (NoIntr(d) /\ NoWake(d) /\ NoWake(d)')
    BY <1>7, <1>11, SameCarries
  <1>13. \A q \in Procs : FamilyCalm(q) /\ WaitCalm(q) /\ (SleepCalm(q) \/ SleeperOK(q)')
    BY <1>6, <1>10, SameCalm, CalmParts
  <1>14. QED
    BY <1>12, <1>13, PartStep

\* An interrupt begins its wakeup(): every sleeper of the channel lies ahead.
LEMMA IntrComing ==
  ASSUME ProcInv, NEW c \in Cpus, Interruptible(c), NEW ch \in Chans \cup {Nil}, NEW i \in {"clock", "disk"},
         cpu' = [cpu EXCEPT ![c] = [WakeBegin(@, ch) EXCEPT !.intr = i]]
  PROVE  /\ cpu'[c].intr = i
         /\ \A q \in Procs : proc[q].state = "SLEEPING" => Coming(c, q, ch)'
         /\ \A d \in Cpus : cpu'[d] = cpu[d] \/ (NoIntr(d) /\ NoWake(d) /\ NoWake(d)')
  <1>0. cpu \in [Cpus -> Cpu] /\ cpu[c] \in Cpu
    BY FieldTypes DEF ProcInv, TypeOK
  <1>1. PICK s : s = WakeBegin(cpu[c], ch)
    OBVIOUS
  <1>2. s \in Cpu /\ s.wk = "scan" /\ s.wchan = ch /\ s.wi = WakeFrom(cpu[c], 0)
    BY <1>0, <1>1, WakeBeginIs
  <1>3. PICK r : r = [s EXCEPT !.intr = i]
    OBVIOUS
  <1>4. r.wk = s.wk /\ r.wchan = s.wchan /\ r.wi = s.wi /\ r.intr = i
    BY <1>2, <1>3 DEF Cpu
  <1>5. cpu'[c] = r /\ \A d \in Cpus : d # c => cpu'[d] = cpu[d]
    BY <1>0, <1>1, <1>3
  <1>6. cpu[c].intr = "none" /\ cpu[c].wk = "none" /\ i # "none"
    BY InterruptibleIs
  <1>7. ASSUME NEW q \in Procs, proc[q].state = "SLEEPING" PROVE Coming(c, q, ch)'
    <2>1. cpu[c].proc # q
      <3>1. cpu[c].sched = "loop" \/ proc[cpu[c].proc].state = "RUNNING"
        BY InterruptibleIs
      <3>2. QED
        BY <1>7, <3>1, InterruptibleIs, NoNames
    <2>2. WakeFrom(cpu[c], 0) <= q
      BY SMT, <2>1 DEF WakeFrom, Procs
    <2>3. QED
      BY <1>2, <1>4, <1>5, <2>2 DEF Coming
  <1>8. QED
    BY <1>4, <1>5, <1>6, <1>7 DEF NoIntr, NoWake

\* While the lock of an interrupt handler is free, no thread is between its test and its sleep().
LEMMA NoneBetween ==
  ASSUME ProcInv, NEW q \in Procs
  PROVE  /\ Free(TicksLock) => proc[q].pc # "slSleep"
         /\ Free(DiskLock) => proc[q].pc # "dkSleep"
  <1>1. ASSUME proc[q].pc \in {"slSleep", "dkSleep"}
        PROVE  \E k \in {TicksLock, DiskLock} : /\ proc[q].pc = "slSleep" => k = TicksLock
                                                /\ proc[q].pc = "dkSleep" => k = DiskLock
                                                /\ ~Free(k)
    <2>1. proc[q].pc \in LockPcs
      BY <1>1 DEF LockPcs
    <2>2. proc[q].yl = "none"
      BY <2>1, LockPcRuns
    <2>3. PICK k \in {TicksLock, DiskLock} : /\ proc[q].pc = "slSleep" => k = TicksLock
                                             /\ proc[q].pc = "dkSleep" => k = DiskLock
                                             /\ k \in Kept(q)
      BY <1>1, <2>2 DEF Kept
    <2>4. k \in LockNames
      BY Names
    <2>5. PICK d \in Cpus : lock[k] = d
      BY <2>1, <2>3, <2>4, KeptHeld
    <2>6. QED
      BY <2>3, <2>5, NoNames DEF Free
  <1>2. QED
    BY <1>1

\* clockintr(): whoever has no tick left is woken.
LEMMA ClockIntrWake ==
  ASSUME ProcInv, ProcInv', WakeInv, NEW c \in Cpus, ClockIntr(c)
  PROVE  WakeInv'
  <1>0. proc \in [Procs -> Thread] /\ Free(TicksLock) /\ Interruptible(c) /\ TickChan \in Chans \cup {Nil}
    <2>1. TickChan \in Chans
      BY SMT, ProcAssumption DEF TickChan, Chans
    <2>2. QED
      BY <2>1 DEF ProcInv, TypeOK, ClockIntr, Acquire
  <1>1. ASSUME NEW q \in Procs
        PROVE  /\ proc'[q].parent = proc[q].parent /\ proc'[q].chan = proc[q].chan /\ proc'[q].disk = proc[q].disk
               /\ proc'[q].pc = proc[q].pc /\ proc'[q].loc = proc[q].loc /\ proc'[q].state = proc[q].state
    <2>1. PICK n : proc'[q] = [proc[q] EXCEPT !.left = n]
      BY DEF ClockIntr
    <2>2. proc[q] \in Thread
      BY <1>0
    <2>3. QED
      BY <2>1, <2>2 DEF Thread
  <1>2. cpu' = [cpu EXCEPT ![c] = [WakeBegin(@, TickChan) EXCEPT !.intr = "clock"]]
    BY DEF ClockIntr
  <1>3. "clock" \in {"clock", "disk"}
    OBVIOUS
  <1>4. /\ cpu'[c].intr = "clock"
        /\ \A q \in Procs : proc[q].state = "SLEEPING" => Coming(c, q, TickChan)'
        /\ \A d \in Cpus : cpu'[d] = cpu[d] \/ (NoIntr(d) /\ NoWake(d) /\ NoWake(d)')
    BY <1>0, <1>2, <1>3, IntrComing
  <1>5. \A d \in Cpus : Carries(d) \/ (NoIntr(d) /\ NoWake(d) /\ NoWake(d)')
    BY <1>4, SameCarries
  <1>6. ASSUME NEW q \in Procs PROVE FamilyCalm(q) /\ WaitCalm(q) /\ SleeperOK(q)'
    <2>1. FamilyCalm(q)
      BY <1>1 DEF FamilyCalm, Alive
    <2>2. WaitCalm(q)
      BY <1>1 DEF WaitCalm, Asleep
    <2>3. ChanOK(q) /\ DiskOK(q) /\ ChanCalm(q) /\ DiskCalm(q)
      BY <1>1 DEF WakeInv, ChanCalm, DiskCalm, Rests
    <2>4. ChanOK(q)'
      BY <2>3, ChanPart
    <2>5. DiskOK(q)'
      BY <1>5, <2>3, <2>4, DiskPart
    <2>6. TimeOK(q)'
      <3>1. proc'[q].pc # "slSleep"
        BY <1>0, <1>1, NoneBetween
      <3>2. Asleep(q, "slAsleep")' => Coming(c, q, TickChan)'
        BY <1>1, <1>4 DEF Asleep
      <3>3. QED
        BY <1>4, <3>1, <3>2 DEF TimeOK, TickChan
    <2>7. QED
      BY <2>1, <2>2, <2>4, <2>5, <2>6 DEF SleeperOK
  <1>7. \A q \in Procs : FamilyCalm(q) /\ WaitCalm(q) /\ (SleepCalm(q) \/ SleeperOK(q)')
    BY <1>6
  <1>8. QED
    BY <1>5, <1>7, PartStep

\* virtio_disk_intr(): whoever waits for this request is woken.
LEMMA DiskIntrWake ==
  ASSUME ProcInv, ProcInv', WakeInv, NEW c \in Cpus, NEW p \in Procs, DiskIntr(c, p)
  PROVE  WakeInv'
  <1>0. proc \in [Procs -> Thread] /\ proc[p] \in Thread /\ Free(DiskLock) /\ Interruptible(c) /\ BufChan(p) \in Chans \cup {Nil}
    <2>1. BufChan(p) \in Chans
      BY SMT, ProcAssumption DEF BufChan, Chans, Procs
    <2>2. QED
      BY <2>1, FieldTypes DEF ProcInv, TypeOK, DiskIntr, Acquire
  <1>1. PICK t : t = [proc[p] EXCEPT !.disk = FALSE]
    OBVIOUS
  <1>2. proc'[p] = t /\ \A q \in Procs : q # p => proc'[q] = proc[q]
    BY <1>0, <1>1 DEF DiskIntr
  <1>3. /\ t.parent = proc[p].parent /\ t.chan = proc[p].chan /\ t.left = proc[p].left
        /\ t.pc = proc[p].pc /\ t.loc = proc[p].loc /\ t.state = proc[p].state
    BY <1>0, <1>1 DEF Thread
  <1>4. cpu' = [cpu EXCEPT ![c] = [WakeBegin(@, BufChan(p)) EXCEPT !.intr = "disk"]]
    BY DEF DiskIntr
  <1>5. "disk" \in {"clock", "disk"}
    OBVIOUS
  <1>6. /\ cpu'[c].intr = "disk"
        /\ \A q \in Procs : proc[q].state = "SLEEPING" => Coming(c, q, BufChan(p))'
        /\ \A d \in Cpus : cpu'[d] = cpu[d] \/ (NoIntr(d) /\ NoWake(d) /\ NoWake(d)')
    BY <1>0, <1>4, <1>5, IntrComing
  <1>7. \A d \in Cpus : Carries(d) \/ (NoIntr(d) /\ NoWake(d) /\ NoWake(d)')
    BY <1>6, SameCarries
  <1>8. FamilyCalm(p) /\ WaitCalm(p)
    <2>1. FamilyCalm(p)
      BY <1>2, <1>3 DEF FamilyCalm, Alive
    <2>2. WaitCalm(p)
      BY <1>2, <1>3 DEF WaitCalm, Asleep
    <2>3. QED
      BY <2>1, <2>2
  <1>9. SleeperOK(p)'
    <2>3. ChanOK(p) /\ TimeOK(p) /\ ChanCalm(p) /\ TimeCalm(p)
      BY <1>2, <1>3 DEF WakeInv, ChanCalm, TimeCalm, Rests
    <2>4. ChanOK(p)'
      BY <2>3, ChanPart
    <2>5. TimeOK(p)'
      BY <1>7, <2>3, <2>4, TimePart
    <2>6. DiskOK(p)'
      <3>1. proc'[p].pc # "dkSleep"
        BY <1>0, <1>2, <1>3, NoneBetween
      <3>2. Asleep(p, "dkAsleep")' => Coming(c, p, BufChan(p))'
        BY <1>2, <1>3, <1>6 DEF Asleep
      <3>3. QED
        BY <1>6, <3>1, <3>2 DEF DiskOK
    <2>7. QED
      BY <2>4, <2>5, <2>6 DEF SleeperOK
  <1>10. QED
    BY <1>2, <1>6, <1>8, <1>9, OneStep

-----------------------------------------------------------------------------
(* exit(), with reparent()                                                 *)

\* Thread p, which exits, holds wait_lock: no other is in wait() or exit().
LEMMA Exiting ==
  ASSUME ProcInv, WakeInv, NEW c \in Cpus, NEW p \in Procs, InKernel(c, p), proc[p].pc \in ExitPcs
  PROVE  /\ p # InitProc /\ proc[p].parent \in Procs /\ proc[p].state = "RUNNING"
         /\ cpu[c].proc = p /\ cpu[c].sched = "run" /\ cpu[c].intr = "none"
         /\ \A q \in Procs : q # p => proc[q].pc \notin WaitPcs
         /\ \A d \in Cpus : cpu[d].proc = p => d = c
  <1>1. proc[p].state = "RUNNING" /\ proc[p] \in Thread /\ p # Nil
    BY InKernelRuns, FieldTypes, NoNames DEF ProcInv
  <1>2. p # InitProc
    BY DEF WakeInv, FamilyOK, ExitPcs
  <1>3. proc[p].parent \in Procs
    <2>1. proc[p].parent # Nil
      BY <1>1, <1>2 DEF WakeInv, FamilyOK, Alive
    <2>2. QED
      BY <1>1, <2>1 DEF Thread
  <1>4. \A q \in Procs : q # p => proc[q].pc \notin WaitPcs
    BY OneWaiter DEF WaitPcs, ExitPcs
  <1>5. QED
    BY <1>1, <1>2, <1>3, <1>4 DEF InKernel, ProcInv, OneCpu

\* exit() calls wakeup() on channel ch, which has every sleeper ahead of it.
LEMMA ExitComing ==
  ASSUME ProcInv, NEW c \in Cpus, cpu[c].proc # InitProc, cpu[c].intr = "none",
         NEW ch \in Procs, cpu' = [cpu EXCEPT ![c] = WakeBegin(@, ch)]
  PROVE  /\ cpu'[c].wchan = ch /\ cpu'[c].intr = "none" /\ cpu'[c].proc = cpu[c].proc /\ Coming(c, ch, ch)'
         /\ \A d \in Cpus : d # c => cpu'[d] = cpu[d]
         /\ \A d \in Cpus : Carries(d) \/ NoIntr(d)
  <1>0. cpu \in [Cpus -> Cpu] /\ cpu[c] \in Cpu
    BY FieldTypes DEF ProcInv, TypeOK
  <1>1. PICK s : s = WakeBegin(cpu[c], ch)
    OBVIOUS
  <1>2. ch \in Chans \cup {Nil}
    BY SMT, ProcAssumption DEF Procs, Chans
  <1>3. s.wk = "scan" /\ s.wchan = ch /\ s.wi = WakeFrom(cpu[c], 0) /\ s.intr = "none" /\ s.proc = cpu[c].proc
    BY <1>0, <1>1, <1>2, WakeBeginIs
  <1>4. cpu'[c] = s /\ \A d \in Cpus : d # c => cpu'[d] = cpu[d]
    BY <1>0, <1>1
  <1>5. WakeFrom(cpu[c], 0) <= ch
    BY SMT DEF WakeFrom, Procs, InitProc
  <1>6. Coming(c, ch, ch)'
    BY <1>3, <1>4, <1>5 DEF Coming
  <1>7. QED
    BY <1>3, <1>4, <1>6, SameCarries DEF NoIntr

\* A wakeup() that is over, or none, has no sleeper ahead of it.
LEMMA OverComing ==
  ASSUME ProcInv, NEW c \in Cpus, cpu[c].wk = "none" \/ WakeDone(cpu[c]), NEW q \in Procs, NEW ch
  PROVE  ~Coming(c, q, ch)
  <1>1. cpu[c].wi \in 0 .. NPROC + 1
    BY FieldTypes DEF ProcInv
  <1>2. QED
    BY SMT, <1>1, ProcAssumption DEF Coming, WakeDone, Procs

\* One turn of reparent(): a child goes to init.
LEMMA HandOverWake ==
  ASSUME ProcInv, ProcInv', WakeInv, NEW c \in Cpus, NEW p \in Procs, InKernel(c, p), proc[p].pc = "exReparent",
         NEW k \in Procs, First(k, KidsFrom(p, proc[p].loc)),
         proc' = [proc EXCEPT ![k].parent = InitProc, ![p].loc = k + 1],
         cpu' = [cpu EXCEPT ![c] = WakeBegin(@, InitProc)]
  PROVE  WakeInv'
  <1>0. /\ p # InitProc /\ proc[p].state = "RUNNING" /\ cpu[c].proc = p /\ cpu[c].intr = "none"
        /\ \A q \in Procs : q # p => proc[q].pc \notin WaitPcs
    <2>1. proc[p].pc \in ExitPcs
      BY DEF ExitPcs
    <2>2. /\ p # InitProc /\ proc[p].parent \in Procs /\ proc[p].state = "RUNNING"
          /\ cpu[c].proc = p /\ cpu[c].sched = "run" /\ cpu[c].intr = "none"
          /\ \A q \in Procs : q # p => proc[q].pc \notin WaitPcs
          /\ \A d \in Cpus : cpu[d].proc = p => d = c
      BY <2>1, Exiting
    <2>3. QED
      BY <2>2
  <1>1. InitProc \in Procs /\ FamilyOK /\ WaitOK /\ proc \in [Procs -> Thread]
    BY SMT, ProcAssumption DEF InitProc, Procs, WakeInv, ProcInv, TypeOK
  <1>2. ASSUME NEW q \in Procs
        PROVE  /\ proc'[q].chan = proc[q].chan /\ proc'[q].left = proc[q].left /\ proc'[q].disk = proc[q].disk
               /\ proc'[q].pc = proc[q].pc /\ proc'[q].state = proc[q].state
               /\ q # p => proc'[q].loc = proc[q].loc
               /\ q # k => proc'[q].parent = proc[q].parent
               /\ q = k => proc'[q].parent = InitProc
               /\ q = p => proc'[q].loc = k + 1
    <2>1. PICK f : f = [proc EXCEPT ![k] = [proc[k] EXCEPT !.parent = InitProc]]
      OBVIOUS
    <2>2. proc' = [f EXCEPT ![p] = [f[p] EXCEPT !.loc = k + 1]]
      BY <1>1, <2>1
    <2>3. f \in [Procs -> Thread]
      <3>1. [proc[k] EXCEPT !.parent = InitProc] \in Thread
        <4>1. proc[k] \in Thread /\ InitProc \in Procs \cup {Nil}
          BY <1>1
        <4>2. QED
          BY <4>1 DEF Thread
      <3>2. QED
        BY <1>1, <2>1, <3>1
    <2>4. /\ f[q].chan = proc[q].chan /\ f[q].left = proc[q].left /\ f[q].disk = proc[q].disk
          /\ f[q].pc = proc[q].pc /\ f[q].state = proc[q].state /\ f[q].loc = proc[q].loc
          /\ q # k => f[q].parent = proc[q].parent
          /\ q = k => f[q].parent = InitProc
      <3>1. CASE q = k
        <4>1. f[q] = [proc[q] EXCEPT !.parent = InitProc] /\ proc[q] \in Thread
          BY <1>1, <2>1, <3>1
        <4>2. QED
          BY <3>1, <4>1 DEF Thread
      <3>2. CASE q # k
        BY <1>1, <2>1, <3>2
      <3>3. QED
        BY <3>1, <3>2
    <2>5. /\ proc'[q].chan = f[q].chan /\ proc'[q].left = f[q].left /\ proc'[q].disk = f[q].disk
          /\ proc'[q].pc = f[q].pc /\ proc'[q].state = f[q].state /\ proc'[q].parent = f[q].parent
          /\ q # p => proc'[q].loc = f[q].loc
          /\ q = p => proc'[q].loc = k + 1
      <3>1. CASE q = p
        <4>1. PICK n, t : n = k + 1 /\ t = [f[q] EXCEPT !.loc = n]
          OBVIOUS
        <4>2. proc'[q] = t /\ f[q] \in Thread
          BY <2>2, <2>3, <3>1, <4>1
        <4>3. /\ t.chan = f[q].chan /\ t.left = f[q].left /\ t.disk = f[q].disk /\ t.loc = n
              /\ t.pc = f[q].pc /\ t.state = f[q].state /\ t.parent = f[q].parent
          BY <4>1, <4>2 DEF Thread
        <4>4. QED
          BY <3>1, <4>1, <4>2, <4>3
      <3>2. CASE q # p
        BY <2>2, <2>3, <3>2
      <3>3. QED
        BY <3>1, <3>2
    <2>6. QED
      BY <2>4, <2>5
  <1>3. /\ cpu'[c].wchan = InitProc /\ cpu'[c].intr = "none" /\ cpu'[c].proc = p /\ Coming(c, InitProc, InitProc)'
        /\ \A d \in Cpus : d # c => cpu'[d] = cpu[d]
        /\ \A d \in Cpus : Carries(d) \/ NoIntr(d)
    <2>1. cpu[c].proc # InitProc /\ cpu[c].intr = "none" /\ InitProc \in Procs
      BY <1>0, <1>1
    <2>2. PICK ch \in Procs : ch = InitProc /\ cpu' = [cpu EXCEPT ![c] = WakeBegin(@, ch)]
      BY <2>1
    <2>3. /\ cpu'[c].wchan = ch /\ cpu'[c].intr = "none" /\ cpu'[c].proc = cpu[c].proc /\ Coming(c, ch, ch)'
          /\ \A d \in Cpus : d # c => cpu'[d] = cpu[d]
          /\ \A d \in Cpus : Carries(d) \/ NoIntr(d)
      BY <2>1, <2>2, ExitComing
    <2>4. QED
      BY <1>0, <2>2, <2>3 DEF Coming, InitProc
  <1>4. FamilyOK'
    <2>1. Adopted(k)
      <3>1. Alive(InitProc)' /\ proc'[InitProc].pc \notin ExitPcs
        BY <1>1, <1>2 DEF FamilyOK, Alive, ExitPcs, InitProc
      <3>2. QED
        BY <1>1, <1>2, <3>1 DEF Adopted
    <2>2. \A r \in Procs : proc'[r].parent = p => r >= k + 1
      <3>1. SUFFICES ASSUME NEW r \in Procs, proc'[r].parent = p PROVE r >= k + 1
        OBVIOUS
      <3>2. r # k /\ proc[r].parent = p
        BY <1>0, <1>2, <3>1
      <3>3. r \in KidsFrom(p, proc[p].loc)
        BY <1>1, <3>2 DEF FamilyOK, KidsFrom, Children
      <3>4. k <= r
        BY <3>3 DEF First
      <3>5. QED
        BY SMT, <3>2, <3>4 DEF Procs
    <2>3. ASSUME NEW q \in Procs PROVE FamilyCalm(q)
      <3>1. Alive(q) => Alive(q)'
        BY <1>2 DEF Alive
      <3>2. proc'[q].parent = proc[q].parent \/ Adopted(q)
        BY <1>2, <2>1
      <3>3. Alive(q)' => Alive(q)
        BY <1>2 DEF Alive
      <3>4. proc'[q].pc = "fkReady" => proc[q].pc = "fkReady" /\ proc'[q].loc = proc[q].loc
        BY <1>2
      <3>5. q = p => \A r \in Procs : proc'[r].parent = q => proc'[q].pc = "exReparent" /\ r >= proc'[q].loc
        BY <1>2, <2>2
      <3>6. proc'[q].state = proc[q].state /\ proc'[q].pc = proc[q].pc /\ (q # p => proc'[q].loc = proc[q].loc)
        BY <1>2
      <3>7. QED
        BY <1>0, <3>1, <3>2, <3>3, <3>4, <3>5, <3>6 DEF FamilyCalm
    <2>4. QED
      BY <1>1, <2>3, FamilyPart
  <1>5. \A q \in Procs : SleeperOK(q)'
    <2>1. \A q \in Procs : SleepCalm(q) \/ SleeperOK(q)'
      BY <1>2 DEF SleepCalm, ChanCalm, TimeCalm, DiskCalm, Rests
    <2>2. \A q \in Procs : SleeperOK(q)
      BY DEF WakeInv, SleeperOK
    <2>3. QED
      BY <1>3, <2>1, <2>2, SleepPart
  <1>6. WaitOK'
    <2>1. \A q \in Procs : proc'[q].pc \notin {"wtScan", "wtSleep", "exZombie"}
      <3>1. \A q \in Procs : proc'[q].pc = proc[q].pc
        BY <1>2
      <3>2. \A q \in Procs : proc[q].pc \notin {"wtScan", "wtSleep", "exZombie"}
        BY <1>0 DEF WaitPcs
      <3>3. QED
        BY <3>1, <3>2
    <2>2. ASSUME NEW q \in Procs, Asleep(q, "wtAsleep")', HasZombie(q)', q # InitProc PROVE FALSE
      <3>1. Asleep(q, "wtAsleep")
        BY <1>2, <2>2 DEF Asleep
      <3>2. HasZombie(q)
        BY <1>2, <2>2 DEF HasZombie
      <3>3. QED
        BY <1>1, <2>2, <3>1, <3>2 DEF WaitOK
    <2>3. Coming(c, InitProc, InitProc)' /\ cpu'[c].intr = "none" /\ proc'[cpu'[c].proc].pc = "exReparent"
      BY <1>2, <1>3
    <2>4. ASSUME NEW d \in Cpus, cpu'[d].sched = "run" PROVE cpu'[d].proc \in Procs
      <3>1. cpu' \in [Cpus -> Cpu] /\ CpuOK(d)'
        BY DEF ProcInv, TypeOK
      <3>2. cpu'[d].proc \in Procs \cup {Nil}
        BY <3>1 DEF Cpu
      <3>3. cpu'[d].proc # Nil
        BY <2>4, <3>1 DEF CpuOK
      <3>4. QED
        BY <3>2, <3>3
    <2>5. ASSUME NEW q \in Procs, Asleep(q, "wtAsleep")', HasZombie(q)'
          PROVE  /\ q = InitProc
                 /\ \E d \in Cpus : Coming(d, q, q)' /\ cpu'[d].intr = "none" /\ proc'[cpu'[d].proc].pc = "exReparent"
      BY <2>2, <2>3, <2>5 DEF InitProc
    <2>6. QED
      BY <2>1, <2>4, <2>5 DEF WaitOK, InitProc
  <1>7. QED
    BY <1>4, <1>5, <1>6 DEF WakeInv, SleeperOK

\* The last turn of reparent(), with no child left: exit() wakes the parent.
LEMMA NoKidsWake ==
  ASSUME ProcInv, ProcInv', WakeInv, NEW c \in Cpus, NEW p \in Procs, InKernel(c, p), proc[p].pc = "exReparent",
         cpu[c].wk = "none" \/ WakeDone(cpu[c]), KidsFrom(p, proc[p].loc) = {},
         proc' = [proc EXCEPT ![p].pc = "exZombie"],
         cpu' = [cpu EXCEPT ![c] = WakeBegin(@, proc[p].parent)]
  PROVE  WakeInv'
  <1>w. PICK w : w = proc[p].parent
    OBVIOUS
  <1>0. /\ p # InitProc /\ proc[p].state = "RUNNING" /\ cpu[c].proc = p /\ cpu[c].intr = "none" /\ w \in Procs
        /\ \A q \in Procs : q # p => proc[q].pc \notin WaitPcs
        /\ \A d \in Cpus : cpu[d].proc = p => d = c
    <2>1. proc[p].pc \in ExitPcs
      BY DEF ExitPcs
    <2>2. /\ p # InitProc /\ proc[p].parent \in Procs /\ proc[p].state = "RUNNING"
          /\ cpu[c].proc = p /\ cpu[c].sched = "run" /\ cpu[c].intr = "none"
          /\ \A q \in Procs : q # p => proc[q].pc \notin WaitPcs
          /\ \A d \in Cpus : cpu[d].proc = p => d = c
      BY <2>1, Exiting
    <2>3. QED
      BY <1>w, <2>2
  <1>1. FamilyOK /\ WaitOK /\ proc \in [Procs -> Thread] /\ proc[p] \in Thread
    BY FieldTypes DEF WakeInv, ProcInv, TypeOK
  <1>2. PICK t : t = [proc[p] EXCEPT !.pc = "exZombie"]
    OBVIOUS
  <1>3. proc'[p] = t /\ \A q \in Procs : q # p => proc'[q] = proc[q]
    BY <1>1, <1>2
  <1>4. t.pc = "exZombie" /\ t.state = "RUNNING" /\ t.parent = w
    BY <1>w, <1>0, <1>1, <1>2 DEF Thread
  <1>5. cpu' = [cpu EXCEPT ![c] = WakeBegin(@, w)]
    BY <1>w
  <1>6. /\ cpu'[c].wchan = w /\ cpu'[c].intr = "none" /\ cpu'[c].proc = p /\ Coming(c, w, w)'
        /\ \A d \in Cpus : d # c => cpu'[d] = cpu[d]
        /\ \A d \in Cpus : Carries(d) \/ NoIntr(d)
    <2>1. cpu[c].proc # InitProc /\ cpu[c].intr = "none" /\ w \in Procs
      BY <1>0
    <2>2. /\ cpu'[c].wchan = w /\ cpu'[c].intr = "none" /\ cpu'[c].proc = cpu[c].proc /\ Coming(c, w, w)'
          /\ \A d \in Cpus : d # c => cpu'[d] = cpu[d]
          /\ \A d \in Cpus : Carries(d) \/ NoIntr(d)
      BY <1>5, <2>1, ExitComing
    <2>3. QED
      BY <1>0, <2>2
  <1>7. FamilyOK'
    <2>1. \A r \in Procs : proc'[r].parent # p
      <3>1. SUFFICES ASSUME NEW r \in Procs, proc[r].parent = p PROVE FALSE
        BY <1>w, <1>3, <1>4
      <3>2. r \in KidsFrom(p, proc[p].loc)
        BY <1>1, <3>1 DEF FamilyOK, KidsFrom, Children
      <3>3. QED
        BY <3>2
    <2>2. FamilyCalm(p)
      BY <1>w, <1>0, <1>3, <1>4, <2>1 DEF FamilyCalm, Alive
    <2>3. \A q \in Procs : FamilyCalm(q)
      BY <1>3, <2>2, SameCalm, CalmParts
    <2>4. QED
      BY <1>1, <2>3, FamilyPart
  <1>8. \A q \in Procs : SleeperOK(q)'
    <2>1. SleepCalm(p)
      BY <1>3, <1>4 DEF SleepCalm, ChanCalm, TimeCalm, DiskCalm, Awake
    <2>2. \A q \in Procs : SleepCalm(q) \/ SleeperOK(q)'
      BY <1>3, <2>1, SameCalm, CalmParts
    <2>3. \A q \in Procs : SleeperOK(q)
      BY DEF WakeInv, SleeperOK
    <2>4. QED
      BY <1>6, <2>2, <2>3, SleepPart
  <1>9. WaitOK'
    <2>1. \A q \in Procs : proc'[q].pc \notin {"wtScan", "wtSleep"} /\ (q # p => proc'[q].pc # "exZombie")
      BY <1>0, <1>3, <1>4 DEF WaitPcs
    <2>2. ASSUME NEW q \in Procs, Asleep(q, "wtAsleep")', HasZombie(q)' PROVE FALSE
      <3>1. q # p /\ proc'[q] = proc[q]
        BY <1>3, <1>4, <2>2 DEF Asleep
      <3>2. Asleep(q, "wtAsleep")
        BY <2>2, <3>1 DEF Asleep
      <3>3. HasZombie(q)
        BY <1>3, <1>4, <2>2 DEF HasZombie
      <3>4. PICK d \in Cpus : /\ Coming(d, q, q) /\ cpu[d].intr = "none"
                              /\ proc[cpu[d].proc].pc = "exReparent"
        BY <1>1, <3>2, <3>3 DEF WaitOK
      <3>5. cpu[d].proc \in Procs
        <4>1. CpuOK(d) /\ cpu[d].wk # "none" /\ cpu[d].proc \in Procs \cup {Nil}
          BY <3>4, FieldTypes DEF ProcInv, Coming
        <4>2. cpu[d].sched = "run"
          BY <3>4, <4>1 DEF CpuOK
        <4>3. cpu[d].proc # Nil
          BY <4>1, <4>2 DEF CpuOK
        <4>4. QED
          BY <4>1, <4>3
      <3>6. cpu[d].proc = p
        BY <1>0, <3>4, <3>5 DEF WaitPcs
      <3>7. d = c
        BY <1>0, <3>6
      <3>8. QED
        BY <3>4, <3>7, OverComing
    <2>3. ASSUME NEW d \in Cpus, cpu'[d].sched = "run", proc'[cpu'[d].proc].pc = "exZombie"
          PROVE  /\ cpu'[d].wchan = proc'[cpu'[d].proc].parent
                 /\ Asleep(cpu[d].wchan, "wtAsleep")' => Coming(d, cpu[d].wchan, cpu[d].wchan)'
      <3>1. cpu'[d].proc \in Procs
        <4>1. cpu' \in [Cpus -> Cpu] /\ CpuOK(d)'
          BY DEF ProcInv, TypeOK
        <4>2. cpu'[d].proc \in Procs \cup {Nil}
          BY <4>1 DEF Cpu
        <4>3. cpu'[d].proc # Nil
          BY <2>3, <4>1 DEF CpuOK
        <4>4. QED
          BY <4>2, <4>3
      <3>2. cpu'[d].proc = p
        BY <2>1, <2>3, <3>1
      <3>3. d = c
        BY <1>0, <1>6, <3>2
      <3>4. QED
        BY <1>3, <1>4, <1>6, <3>2, <3>3 DEF Coming
    <2>4. QED
      BY <2>1, <2>2, <2>3 DEF WaitOK
  <1>10. QED
    BY <1>7, <1>8, <1>9 DEF WakeInv, SleeperOK

\* Both kinds of turn.
LEMMA ReparentWake ==
  ASSUME ProcInv, ProcInv', WakeInv, NEW c \in Cpus, NEW p \in Procs, Reparent(c, p)
  PROVE  WakeInv'
  <1> DEFINE kids == KidsFrom(p, proc[p].loc)
             Over(k) == /\ First(k, KidsFrom(p, proc[p].loc))
                        /\ proc' = [proc EXCEPT ![k].parent = InitProc, ![p].loc = k + 1]
                        /\ cpu' = [cpu EXCEPT ![c] = WakeBegin(@, InitProc)]
  <1>1. InKernel(c, p) /\ proc[p].pc = "exReparent" /\ (cpu[c].wk = "none" \/ WakeDone(cpu[c]))
    BY DEF Reparent
  <1>2. CASE \E k \in kids : Over(k)
    <2>1. PICK k \in kids : Over(k)
      BY <1>2
    <2>2. k \in Procs
      BY <2>1 DEF KidsFrom, Children
    <2>3. QED
      BY <1>1, <2>1, <2>2, HandOverWake
  <1>3. CASE ~ \E k \in kids : Over(k)
    <2>1. /\ KidsFrom(p, proc[p].loc) = {}
          /\ proc' = [proc EXCEPT ![p].pc = "exZombie"]
          /\ cpu' = [cpu EXCEPT ![c] = WakeBegin(@, proc[p].parent)]
      BY <1>3 DEF Reparent
    <2>2. QED
      BY <1>1, <2>1, NoKidsWake
  <1>4. QED
    BY <1>2, <1>3

\* exit() leaves a zombie, whose parent has been woken.
LEMMA ExitZombieWake ==
  ASSUME ProcInv, ProcInv', WakeInv, NEW c \in Cpus, NEW p \in Procs, ExitZombie(c, p)
  PROVE  WakeInv'
  <1>w. PICK w : w = proc[p].parent
    OBVIOUS
  <1>a. InKernel(c, p) /\ proc[p].pc = "exZombie" /\ WakeDone(cpu[c])
    BY DEF ExitZombie
  <1>0. /\ p # InitProc /\ proc[p].state = "RUNNING" /\ cpu[c].proc = p /\ cpu[c].intr = "none" /\ w \in Procs
        /\ cpu[c].sched = "run" /\ \A q \in Procs : q # p => proc[q].pc \notin WaitPcs
    <2>1. proc[p].pc \in ExitPcs
      BY <1>a DEF ExitPcs
    <2>2. /\ p # InitProc /\ proc[p].parent \in Procs /\ proc[p].state = "RUNNING"
          /\ cpu[c].proc = p /\ cpu[c].sched = "run" /\ cpu[c].intr = "none"
          /\ \A q \in Procs : q # p => proc[q].pc \notin WaitPcs
          /\ \A d \in Cpus : cpu[d].proc = p => d = c
      BY <1>a, <2>1, Exiting
    <2>3. QED
      BY <1>w, <2>2
  <1>1. /\ FamilyOK /\ WaitOK /\ proc \in [Procs -> Thread] /\ proc[p] \in Thread
        /\ cpu \in [Cpus -> Cpu] /\ w # Nil
    BY <1>0, FieldTypes, NoNames DEF WakeInv, ProcInv, TypeOK
  <1>2. PICK t : t = [proc[p] EXCEPT !.state = "ZOMBIE", !.pc = "none", !.loc = Nil]
    OBVIOUS
  <1>3. proc'[p] = t /\ \A q \in Procs : q # p => proc'[q] = proc[q]
    BY <1>1, <1>2 DEF ExitZombie
  <1>4. t.pc = "none" /\ t.state = "ZOMBIE" /\ t.parent = w
    BY <1>w, <1>0, <1>1, <1>2 DEF Thread
  <1>5. \A d \in Cpus : Carries(d) \/ NoIntr(d)
    <2>1. \A d \in Cpus : d # c => cpu'[d] = cpu[d]
      BY <1>1 DEF ExitZombie
    <2>2. QED
      BY <1>0, <2>1, SameCarries DEF NoIntr
  <1>6. FamilyOK'
    <2>1. \A r \in Procs : proc'[r].parent # p
      BY <1>w, <1>a, <1>1, <1>3, <1>4 DEF FamilyOK
    <2>2. FamilyCalm(p)
      BY <1>w, <1>0, <1>1, <1>3, <1>4, <2>1 DEF FamilyCalm, Childless, ExitPcs
    <2>3. \A q \in Procs : FamilyCalm(q)
      BY <1>3, <2>2, SameCalm, CalmParts
    <2>4. QED
      BY <1>1, <2>3, FamilyPart
  <1>7. \A q \in Procs : SleeperOK(q)'
    <2>1. SleepCalm(p)
      BY <1>3, <1>4 DEF SleepCalm, ChanCalm, TimeCalm, DiskCalm, Awake
    <2>2. \A q \in Procs : SleepCalm(q) \/ SleeperOK(q)'
      BY <1>3, <2>1, SameCalm, CalmParts
    <2>3. \A q \in Procs : SleeperOK(q)
      BY DEF WakeInv, SleeperOK
    <2>4. QED
      BY <1>5, <2>2, <2>3, SleepPart
  <1>8. WaitOK'
    <2>1. \A q \in Procs : proc'[q].pc \notin {"wtScan", "wtSleep", "exZombie"}
      BY <1>0, <1>3, <1>4 DEF WaitPcs
    <2>2. ASSUME NEW q \in Procs, Asleep(q, "wtAsleep")', NEW r \in Procs, proc'[r].parent = q, proc'[r].state = "ZOMBIE"
          PROVE  FALSE
      <3>1. q # p /\ Asleep(q, "wtAsleep")
        BY <1>3, <1>4, <2>2 DEF Asleep
      <3>2. CASE r = p
        <4>1. q = w
          BY <1>3, <1>4, <2>2, <3>2
        <4>2. /\ cpu[c].wchan = w
              /\ Asleep(cpu[c].wchan, "wtAsleep") => Coming(c, cpu[c].wchan, cpu[c].wchan)
          BY <1>w, <1>a, <1>0, <1>1 DEF WaitOK
        <4>3. Coming(c, q, q)
          BY <3>1, <4>1, <4>2
        <4>4. QED
          BY <1>a, <4>3, OverComing
      <3>3. CASE r # p
        <4>1. HasZombie(q)
          BY <1>3, <2>2, <3>3 DEF HasZombie
        <4>2. PICK d \in Cpus : /\ Coming(d, q, q) /\ cpu[d].intr = "none"
                                /\ proc[cpu[d].proc].pc = "exReparent"
          BY <1>1, <3>1, <4>1 DEF WaitOK
        <4>3. CpuOK(d) /\ cpu[d].wk # "none" /\ cpu[d].proc \in Procs \cup {Nil}
          BY <4>2, FieldTypes DEF ProcInv, Coming
        <4>4. cpu[d].sched = "run"
          BY <4>2, <4>3 DEF CpuOK
        <4>5. cpu[d].proc \in Procs
          BY <4>3, <4>4 DEF CpuOK
        <4>6. QED
          BY <1>a, <1>0, <4>2, <4>5 DEF WaitPcs
      <3>4. QED
        BY <3>2, <3>3
    <2>3. ASSUME NEW d \in Cpus, cpu'[d].sched = "run" PROVE cpu'[d].proc \in Procs
      <3>1. cpu' \in [Cpus -> Cpu] /\ CpuOK(d)'
        BY DEF ProcInv, TypeOK
      <3>2. cpu'[d].proc \in Procs \cup {Nil}
        BY <3>1 DEF Cpu
      <3>3. cpu'[d].proc # Nil
        BY <2>3, <3>1 DEF CpuOK
      <3>4. QED
        BY <3>2, <3>3
    <2>4. \A q \in Procs : ~(Asleep(q, "wtAsleep")' /\ HasZombie(q)')
      BY <2>2 DEF HasZombie
    <2>5. QED
      BY <2>1, <2>3, <2>4 DEF WaitOK
  <1>9. QED
    BY <1>6, <1>7, <1>8 DEF WakeInv, SleeperOK

-----------------------------------------------------------------------------
(* The invariant                                                           *)

\* At first init alone is alive, and nobody sleeps.
LEMMA InitWake == Init => WakeInv
  <1> SUFFICES ASSUME Init PROVE WakeInv
    OBVIOUS
  <1>0. InitProc \in Procs
    BY SMT, ProcAssumption DEF InitProc, Procs
  <1>1. \A p \in Procs : /\ proc[p].state = IF p = InitProc THEN "RUNNABLE" ELSE "UNUSED"
                         /\ proc[p].pc = IF p = InitProc THEN "forkret" ELSE "none"
                         /\ proc[p].parent = Nil
    BY DEF Init
  <1>2. \A c \in Cpus : cpu[c].sched = "loop"
    BY DEF Init
  <1>3. \A p \in Procs : proc[p].state \in {"RUNNABLE", "UNUSED"} /\ proc[p].pc \in {"forkret", "none"}
    BY <1>1
  <1>4. FamilyOK
    <2>1. Alive(InitProc)
      BY <1>0, <1>1 DEF Alive, InitProc
    <2>2. \A p \in Procs : p # InitProc => ~Alive(p) /\ proc[p].state # "ZOMBIE"
      BY <1>1 DEF Alive
    <2>3. \A p \in Procs : proc[p].parent = Nil /\ p # Nil
      BY <1>1, NoNames
    <2>4. QED
      BY <1>3, <2>1, <2>2, <2>3 DEF FamilyOK
  <1>5. WaitOK
    BY <1>2, <1>3 DEF WaitOK, Asleep
  <1>6. \A p \in Procs : ChanOK(p) /\ TimeOK(p) /\ DiskOK(p)
    BY <1>3 DEF ChanOK, TimeOK, DiskOK, Asleep
  <1>7. QED
    BY <1>4, <1>5, <1>6 DEF WakeInv

\* Every step of a system call keeps the invariant, ...
LEMMA ProcStepWake ==
  ASSUME ~BLNCFLG, ProcInv, ProcInv', WakeInv, NEW c \in Cpus, NEW p \in Procs, ProcStep(c, p)
  PROVE  WakeInv'
  <1>1. Minor(c, p) => WakeInv'
    BY MinorWake
  <1>2. QED
    BY <1>1, ForkLockWake, ForkTakeWake, ForkParentWake, ForkReadyWake, SleepCallWake, DiskCallWake,
       GoesToSleepWake, WaitEnterWake, WaitDecideWake, WaitPassWake, WaitReapWake, ReparentWake, ExitZombieWake,
       KillMarkWake, KillWakeWake DEF ProcStep, Minor

\* ... and so does every other step.
LEMMA NextWake ==
  ASSUME ~BLNCFLG, ProcInv, ProcInv', WakeInv, [Next]_vars
  PROVE  WakeInv'
  <1>1. CASE UNCHANGED vars
    <2>1. proc' = proc /\ cpu' = cpu
      BY <1>1 DEF vars
    <2>2. QED
      BY <2>1, SameCalm, CalmStep
  <1>2. CASE Next
    <2>1. PICK c \in Cpus : \/ CpuStep(c)
                            \/ ClockIntr(c) \/ Preempt(c)
                            \/ \E p \in Procs : DiskIntr(c, p)
                            \/ \E p \in Procs, call \in Calls : Syscall(c, p, call)
      BY <1>2 DEF Next
    <2>2. CASE CpuStep(c)
      BY <2>2, SchedPeekWake, SchedLockWake, SchedSwitchWake, WakePassWake, WakeTakeWake, IntrDoneWake,
         YieldWake, ProcStepWake DEF CpuStep, SchedStep
    <2>3. ASSUME NEW p \in Procs, NEW call \in Calls, Syscall(c, p, call) PROVE WakeInv'
      <3>1. Minor(c, p)
        BY <2>3 DEF Minor
      <3>2. QED
        BY <3>1, MinorWake
    <2>4. QED
      BY <2>1, <2>2, <2>3, ClockIntrWake, PreemptWake, DiskIntrWake
  <1>3. QED
    BY <1>1, <1>2

\* The parents that the invariant says live are those that ParentsLive is about.
LEMMA ParentsFollow == WakeInv => ParentsLive
  <1> SUFFICES ASSUME WakeInv PROVE ParentsLive
    OBVIOUS
  <1>1. \A q \in Procs : proc[q].parent # Nil => proc[proc[q].parent].state \notin {"UNUSED", "USED", "ZOMBIE"}
    BY DEF WakeInv, FamilyOK, Alive
  <1>2. ASSUME NEW q \in Procs, proc[q].state = "ZOMBIE" PROVE proc[q].parent # Nil
    <2>1. q # InitProc
      BY <1>2 DEF WakeInv, FamilyOK, Alive, InitProc
    <2>2. QED
      BY <1>2, <2>1 DEF WakeInv, FamilyOK
  <1>3. QED
    BY <1>1, <1>2 DEF ParentsLive

\* A wakeup() on its way to a sleeper is one of a CPU that holds the lock of the condition.
LEMMA WakeupsFollow == ProcInv /\ WakeInv => NoLostWakeup
  <1> SUFFICES ASSUME ProcInv, WakeInv, NEW p \in Procs, proc[p].state = "SLEEPING"
               PROVE  /\ proc[p].chan = p /\ Free(WaitLock) => \A q \in Children(p) : proc[q].state # "ZOMBIE"
                      /\ proc[p].chan = TickChan /\ Free(TicksLock) => proc[p].left > 0
                      /\ proc[p].chan = BufChan(p) /\ Free(DiskLock) => proc[p].disk
    BY DEF NoLostWakeup
  <1>1. ChanOK(p) /\ TimeOK(p) /\ DiskOK(p) /\ WaitOK /\ proc[p].pc \in AsleepPcs
    BY DEF WakeInv, ProcInv, ThreadOK
  <1>2. /\ proc[p].chan = p => proc[p].pc = "wtAsleep"
        /\ proc[p].chan = TickChan => proc[p].pc = "slAsleep"
        /\ proc[p].chan = BufChan(p) => proc[p].pc = "dkAsleep"
    BY SMT, <1>1, ProcAssumption DEF ChanOK, AsleepPcs, TickChan, BufChan, Procs
  <1>3. ASSUME NEW c \in Cpus, NEW k \in LockNames, k \in Held(c) PROVE ~Free(k)
    BY <1>3, HeldIs, NoNames DEF Free
  <1>4. \A c \in Cpus : (cpu[c].intr = "clock" => ~Free(TicksLock)) /\ (cpu[c].intr = "disk" => ~Free(DiskLock))
    BY <1>3, Names DEF Held, IntrKept
  <1>5. ASSUME proc[p].chan = p, Free(WaitLock), NEW q \in Children(p), proc[q].state = "ZOMBIE" PROVE FALSE
    <2>1. Asleep(p, "wtAsleep") /\ HasZombie(p)
      BY <1>2, <1>5 DEF Asleep, HasZombie, Children
    <2>2. PICK c \in Cpus : cpu[c].wk # "none" /\ cpu[c].intr = "none" /\ proc[cpu[c].proc].pc = "exReparent"
      BY <1>1, <2>1 DEF WaitOK, Coming
    <2>3. CpuOK(c)
      BY DEF ProcInv
    <2>4. cpu[c].sched = "run" /\ proc[cpu[c].proc].yl # "add"
      BY <2>2, <2>3 DEF CpuOK, FreePcs
    <2>5. WaitLock \in Held(c)
      BY <2>2, <2>4 DEF Held, SchedKept, Kept
    <2>6. QED
      BY <1>3, <1>5, <2>5, Names
  <1>6. ASSUME proc[p].chan = TickChan, Free(TicksLock) PROVE proc[p].left > 0
    BY <1>1, <1>2, <1>4, <1>6 DEF TimeOK, Asleep
  <1>7. ASSUME proc[p].chan = BufChan(p), Free(DiskLock) PROVE proc[p].disk
    BY <1>1, <1>2, <1>4, <1>7 DEF DiskOK, Asleep
  <1>8. QED
    BY <1>5, <1>6, <1>7
=============================================================================
