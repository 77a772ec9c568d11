----------------------------- MODULE ProcSteps ------------------------------
(***************************************************************************)
(* The actions of Proc keep the invariant of module ProcInv.  A step of CPU*)
(* c changes a set X of processes that no other CPU holds or runs; Assemble*)
(* shows that it is enough to look at c and at X.  First the steps of a    *)
(* thread in its own code, then the others that move no process from one   *)
(* list to another: the parts of the system calls between two moves,       *)
(* interrupts, reparent(), and wakeup() over processes that do not sleep on*)
(* its channel.  Then those that do: sleep(), exit(), yield(), scheduler() *)
(* and wakeup().  The moves of fork(), wait() and kill() are in ProcProofs.*)
(***************************************************************************)
EXTENDS ProcInv

-----------------------------------------------------------------------------
(* A step of one CPU                                                       *)

\* Zenon proves the leaves that name no other prover.
USE ZenonT(60)

\* A process that does not run and whose lock c holds or may take is c's to change.
LEMMA OwnLocked ==
  ASSUME ProcInv, NEW c \in Cpus, NEW x \in Procs,
         Free(PLock(x)) \/ lock[PLock(x)] = c, proc[x].state # "RUNNING"
  PROVE  Owned(c, x)
  <1> SUFFICES ASSUME NEW d \in Cpus \ {c} PROVE cpu[d].proc # x /\ lock[PLock(x)] # d
    BY DEF Owned
  <1>1. lock[PLock(x)] # d
    BY NoNames DEF Free
  <1>2. QED
    BY <1>1, CurrentRuns

\* A step leaves the thread of q where it is.
SameThread(q) == /\ proc'[q].state = proc[q].state /\ proc'[q].pc = proc[q].pc
                 /\ proc'[q].yl = proc[q].yl /\ proc'[q].loc = proc[q].loc

\* A step of c changes nothing of the other CPUs, and no threads but those of X, which are
\* c's to change.  What c puts on a list or takes off, before and after, is in X.
StepOf(c, X) ==
  /\ X \subseteq Procs /\ \A x \in X : Owned(c, x)
  /\ \A d \in Cpus : d # c => cpu'[d] = cpu[d]
  /\ \A q \in Procs : q \notin X => SameThread(q)
  /\ cpu[c].proc \in X \cup {Nil} /\ cpu'[c].proc \in X \cup {Nil}
  /\ Adds(c) \subseteq X /\ Adds(c)' \subseteq X /\ Takes(c) \subseteq X /\ Takes(c)' \subseteq X

\* It exchanges the locks in K for those in L.
LockMove(c, K, L) ==
  /\ \A k \in LockNames : lock'[k] = IF k \in L THEN c ELSE IF k \in K THEN NoCpu ELSE lock[k]
  /\ L \subseteq LockNames /\ \A k \in L : k \in K \/ Free(k)

\* It moves no processes on the lists but those of X, and none off a list that another
\* CPU has locked.
ListMove(c, X) ==
  /\ \A q \in Procs, k \in ListNames : q \notin X => (OnList(q, k)' <=> OnList(q, k))
  /\ \A q \in Procs, d \in Cpus : d # c /\ OnList(q, Runnable(d)) => OnList(q, Runnable(d))'
  /\ \A q \in Procs : OnList(q, Unused) => OnList(q, Unused)' \/ lock[Unused] \in {c, NoCpu}

\* A thread that stays where it is keeps the locks it has.
LEMMA SameKept ==
  ASSUME NEW q, SameThread(q)
  PROVE  Kept(q)' = Kept(q)
  BY DEF SameThread, Kept

\* What the other CPUs hold, and what they are about to put on a list or to take off, stays.
LEMMA OthersSame ==
  ASSUME ProcInv, NEW c \in Cpus, NEW X, StepOf(c, X), NEW d \in Cpus, d # c
  PROVE  /\ cpu'[d] = cpu[d] /\ cpu[d].proc \notin X
         /\ cpu[d].proc # Nil => cpu[d].proc \in Procs /\ SameThread(cpu[d].proc)
         /\ Held(d)' = Held(d) /\ Adds(d)' = Adds(d) /\ Takes(d)' = Takes(d)
  <1>1. CpuOK(d) /\ TypeOK /\ cpu'[d] = cpu[d]
    BY DEF ProcInv, StepOf
  <1>2. \A x \in X : cpu[d].proc # x
    BY DEF StepOf, Owned
  <1>3. cpu[d].proc # Nil => cpu[d].proc \in Procs
    BY <1>1, FieldTypes
  <1>4. cpu[d].proc # Nil => SameThread(cpu[d].proc)
    BY <1>2, <1>3 DEF StepOf
  <1>5. CASE cpu[d].sched # "run"
    <2>1. SchedKept(d)' = SchedKept(d)
      BY <1>1, <1>5 DEF SchedKept
    <2>2. IntrKept(d)' = IntrKept(d) /\ WakeKept(d)' = WakeKept(d)
      BY <1>1 DEF IntrKept, WakeKept
    <2>3. Adds(d)' = Adds(d) /\ Takes(d)' = Takes(d)
      BY <1>1, <1>5 DEF Adds, Takes
    <2>4. Held(d)' = Held(d)
      BY <2>1, <2>2 DEF Held
    <2>5. QED
      BY <1>1, <1>2, <1>3, <1>4, <2>3, <2>4
  <1>6. CASE cpu[d].sched = "run"
    <2>1. cpu[d].proc # Nil
      BY <1>1, <1>6 DEF CpuOK
    <2>2. SameThread(cpu[d].proc)
      BY <1>4, <2>1
    <2>3. Kept(cpu[d].proc)' = Kept(cpu[d].proc)
      BY <1>1, <2>2 DEF SameThread, Kept
    <2>4. SchedKept(d)' = SchedKept(d)
      BY <1>1, <1>6, <2>3 DEF SchedKept
    <2>5. IntrKept(d)' = IntrKept(d) /\ WakeKept(d)' = WakeKept(d)
      BY <1>1 DEF IntrKept, WakeKept
    <2>6. Adds(d)' = Adds(d) /\ Takes(d)' = Takes(d)
      BY <1>1, <1>6, <2>2 DEF Adds, Takes, SameThread
    <2>7. Held(d)' = Held(d)
      BY <2>4, <2>5 DEF Held
    <2>8. QED
      BY <1>1, <1>2, <1>3, <1>4, <2>6, <2>7
  <1>7. QED
    BY <1>5, <1>6

\* A step that changes the locks of c as the code of c says keeps every lock accounted for.
LEMMA LocksMove ==
  ASSUME ProcInv, NEW c \in Cpus, NEW X, StepOf(c, X), LockMove(c, Held(c), Held(c)')
  PROVE  LocksOK'
  <1> SUFFICES ASSUME NEW d \in Cpus PROVE (Holds(d) = Held(d))'
    BY DEF LocksOK
  <1>1. \A k \in LockNames : (k \in Held(c) <=> lock[k] = c) /\ (k \in Held(d) <=> lock[k] = d)
    BY HeldIs
  <1>2. CASE d = c
    <2>1. \A k \in LockNames : k \in Held(c)' <=> lock'[k] = c
      BY <1>1, NoNames DEF LockMove
    <2>2. QED
      BY <1>2, <2>1 DEF Holds, LockMove
  <1>3. CASE d # c
    <2>1. Held(d)' = Held(d)
      BY <1>3, OthersSame
    <2>2. \A k \in LockNames : lock'[k] = d <=> lock[k] = d
      BY SMT, <1>1, <1>3, NoNames DEF LockMove, Free
    <2>3. Holds(d)' = Holds(d)
      BY <2>2 DEF Holds
    <2>4. Holds(d) = Held(d)
      BY DEF ProcInv, LocksOK
    <2>5. QED
      BY <2>1, <2>3, <2>4
  <1>4. QED
    BY <1>2, <1>3

\* The other CPUs are as well off as before, ...
LEMMA OthersOK ==
  ASSUME ProcInv, NEW c \in Cpus, NEW X, StepOf(c, X), ListMove(c, X), NEW d \in Cpus, d # c
  PROVE  CpuOK(d)'
  <1> DEFINE p == cpu[d].proc
  <1>1. CpuOK(d) /\ TypeOK
    BY DEF ProcInv
  <1>2. cpu'[d] = cpu[d] /\ (p # Nil => p \in Procs /\ SameThread(p))
    BY OthersSame
  <1>3. cpu[d].wk = "add" => cpu[d].wi \in Procs /\ SameThread(cpu[d].wi)
    <2>1. SUFFICES ASSUME cpu[d].wk = "add" PROVE cpu[d].wi \in Procs /\ SameThread(cpu[d].wi)
      OBVIOUS
    <2>2. cpu[d].wi \in Adds(d)
      BY <2>1 DEF Adds
    <2>3. cpu[d].wi \in Procs /\ lock[PLock(cpu[d].wi)] = d
      BY <2>2, AddsLocked
    <2>4. cpu[d].wi \notin X
      BY <2>3 DEF StepOf, Owned
    <2>5. QED
      BY <2>3, <2>4 DEF StepOf
  <1>4. cpu[d].sched = "lock" => cpu[d].pick \in Procs /\ OnList(cpu[d].pick, Runnable(d))'
    BY <1>1, <1>2 DEF CpuOK, ListMove
  <1>5. p = Nil => CpuOK(d)'
    <2> HAVE p = Nil
    <2>1. cpu[d].sched \in {"loop", "lock"}
      BY <1>1 DEF CpuOK
    <2>2. QED
      BY <1>1, <1>2, <1>3, <1>4, <2>1 DEF CpuOK, SameThread
  <1>6. p # Nil => CpuOK(d)'
    <2> HAVE p # Nil
    <2>1. SameThread(p) /\ cpu[d].sched \notin {"loop", "lock"}
      BY <1>1, <1>2 DEF CpuOK
    <2>2. Ready(p)' <=> Ready(p)
      BY <1>2, <2>1 DEF SameThread, Ready
    <2>3. QED
      BY <1>1, <1>2, <1>3, <2>1, <2>2 DEF CpuOK, SameThread
  <1>7. QED
    BY <1>5, <1>6

\* ... no process is current twice, ...
LEMMA OneCpuKept ==
  ASSUME ProcInv, NEW c \in Cpus, NEW X, StepOf(c, X)
  PROVE  OneCpu'
  <1>1. \A d \in Cpus : d # c => cpu'[d].proc = cpu[d].proc /\ cpu[d].proc \notin X
    BY SMT, OthersSame
  <1>2. cpu'[c].proc \in X \cup {Nil} /\ OneCpu
    BY DEF StepOf, ProcInv
  <1>3. QED
    BY <1>1, <1>2 DEF OneCpu

\* ... and so are the threads that the step does not move.
LEMMA ThreadSame ==
  ASSUME ProcInv, NEW c \in Cpus, NEW X, StepOf(c, X), NEW q \in Procs, q \notin X
  PROVE  ThreadOK(q)'
  <1>1. ThreadOK(q) /\ SameThread(q)
    BY DEF ProcInv, StepOf
  <1>2. \A d \in Cpus : cpu[d].proc = q => cpu'[d].proc = q
    <2> TAKE d \in Cpus
    <2> HAVE cpu[d].proc = q
    <2>1. d # c
      BY NoNames DEF StepOf
    <2>2. QED
      BY <2>1, OthersSame
  <1>3. Ready(q)' <=> Ready(q)
    BY <1>1 DEF SameThread, Ready
  <1>4. QED
    BY <1>1, <1>2, <1>3 DEF ThreadOK, SameThread

\* What a thread outside X knows of its process stays true, ...
LEMMA WorkSame ==
  ASSUME ProcInv, NEW c \in Cpus, NEW X, StepOf(c, X), ListMove(c, X), NEW q \in Procs, q \notin X,
         \A x \in X : proc[q].pc \in {"fkParent", "fkReady"} => proc[q].loc # x
  PROVE  WorkOK(q)'
  <1> DEFINE np == proc[q].loc
  <1>1. WorkOK(q) /\ SameThread(q)
    BY DEF ProcInv, StepOf
  <1>2. ASSUME proc[q].pc \in GripPcs \/ (proc[q].pc \in {"panic", "wild"} /\ np # Nil)
        PROVE  np \in Procs /\ np \notin X
    <2>1. np \in Procs
      BY <1>2, WorkGripped
    <2>2. PICK d \in Cpus : cpu[d].proc = q /\ lock[PLock(np)] = d
      BY SMT, <1>2, WorkGripped
    <2>3. d # c
      BY <2>2, NoNames DEF StepOf
    <2>4. np \notin X
      BY <2>2, <2>3 DEF StepOf, Owned
    <2>5. QED
      BY <2>1, <2>4
  <1>3. ASSUME proc[q].pc \in {"fkParent", "fkReady"}
        PROVE  np \in Procs /\ np \notin X
    BY <1>1, <1>3 DEF WorkOK
  <1>4. ASSUME proc[q].pc = "fkLock"
        PROVE  np \in Procs /\ OnList(np, Unused)'
    <2>1. np \in Procs /\ OnList(np, Unused)
      BY <1>1, <1>4 DEF WorkOK
    <2>2. proc[q].pc \in LockPcs
      BY <1>4 DEF LockPcs
    <2>3. proc[q].yl = "none"
      BY <2>2, LockPcRuns
    <2>4. Unused \in Kept(q)
      BY <1>4, <2>3 DEF Kept
    <2>5. PICK d \in Cpus : cpu[d].proc = q /\ lock[Unused] = d
      BY <2>2, <2>4, KeptHeld, Names
    <2>6. d # c
      BY <2>5, NoNames DEF StepOf
    <2>7. lock[Unused] \notin {c, NoCpu}
      BY <2>5, <2>6, NoNames
    <2>8. QED
      BY <1>1, <2>1, <2>7 DEF ListMove, SameThread
  <1>5. np \in Procs /\ np \notin X => proc'[np].state = proc[np].state
    BY DEF StepOf, SameThread
  <1>6. ASSUME proc[q].pc = "fkTake" PROVE OnList(np, Unused)'
    <2>1. proc[q].pc \in GripPcs
      BY <1>6 DEF GripPcs
    <2>2. np \in Procs /\ np \notin X
      BY <1>2, <2>1
    <2>3. OnList(np, Unused)
      BY <1>1, <1>6 DEF WorkOK
    <2>4. QED
      BY <1>1, <2>2, <2>3, Names DEF ListMove, SameThread
  <1>7. QED
    BY <1>1, <1>2, <1>3, <1>4, <1>5, <1>6 DEF WorkOK, SameThread, GripPcs

\* ... and its process stays where it is.
LEMMA PlaceSame ==
  ASSUME ProcInv, NEW c \in Cpus, NEW X, StepOf(c, X), ListMove(c, X), NEW q \in Procs, q \notin X
  PROVE  Listed(q)'
  <1>1. \A d \in Cpus : (q \in Adds(d)' <=> q \in Adds(d)) /\ (q \in Takes(d)' <=> q \in Takes(d))
    <2> TAKE d \in Cpus
    <2>1. CASE d = c
      BY <2>1 DEF StepOf
    <2>2. CASE d # c
      BY <2>2, OthersSame
    <2>3. QED
      BY <2>1, <2>2
  <1>2. proc'[q].state = proc[q].state
    BY DEF StepOf, SameThread
  <1>3. Place(q)' = Place(q)
    BY <1>1, <1>2 DEF Place
  <1>4. Listed(q)
    BY DEF ProcInv
  <1>5. \A k \in ListNames : OnList(q, k)' <=> OnList(q, k)
    BY DEF ListMove
  <1>6. QED
    BY <1>3, <1>4, <1>5 DEF Listed

\* What remains to be shown of a step: c itself and the threads it moves.
LEMMA Assemble ==
  ASSUME ProcInv, TypeOK', NEW c \in Cpus, NEW X, StepOf(c, X),
         LockMove(c, Held(c), Held(c)'), ListMove(c, X), ListedOnce', CpuOK(c)', ForksApart',
         \A x \in X : ThreadOK(x)' /\ WorkOK(x)' /\ Listed(x)',
         \A q \in Procs, x \in X :
           q \notin X /\ proc[q].pc \in {"fkParent", "fkReady"} => proc[q].loc # x
  PROVE  ProcInv'
  <1>1. LocksOK' /\ OneCpu'
    BY LocksMove, OneCpuKept
  <1>2. \A d \in Cpus : CpuOK(d)'
    BY OthersOK
  <1>3. \A q \in Procs : ThreadOK(q)' /\ WorkOK(q)' /\ Listed(q)'
    <2> TAKE q \in Procs
    <2>1. CASE q \in X
      BY <2>1
    <2>2. CASE q \notin X
      <3>1. ThreadOK(q)' /\ Listed(q)'
        BY <2>2, ThreadSame, PlaceSame
      <3>2. \A x \in X : proc[q].pc \in {"fkParent", "fkReady"} => proc[q].loc # x
        BY <2>2
      <3>3. WorkOK(q)'
        BY <2>2, <3>2, WorkSame
      <3>4. QED
        BY <3>1, <3>3
    <2>3. QED
      BY <2>1, <2>2
  <1>4. QED
    BY <1>1, <1>2, <1>3 DEF ProcInv

-----------------------------------------------------------------------------
(* Joining and leaving a list                                              *)

\* A process that is on no list joins list k.
LEMMA Joins ==
  ASSUME TypeOK, ListedOnce, NEW k \in ListNames, NEW x \in Procs,
         \A m \in ListNames : ~OnList(x, m), Enlist(k, x)
  PROVE  /\ list' \in [ListNames -> Seq(Procs)] /\ ListedOnce'
         /\ \A q \in Procs, m \in ListNames : q # x => (OnList(q, m)' <=> OnList(q, m))
         /\ \A m \in ListNames : OnList(x, m)' <=> m = k
  <1> DEFINE s == list[k]
  <1>1. list \in [ListNames -> Seq(Procs)] /\ s \in Seq(Procs)
    BY DEF TypeOK
  <1>2. list' = [list EXCEPT ![k] = Append(s, x)]
    BY DEF Enlist
  <1>3. list' \in [ListNames -> Seq(Procs)]
    BY SMT, <1>1, <1>2
  <1>4. /\ Len(list'[k]) = Len(s) + 1 /\ list'[k][Len(s) + 1] = x
        /\ \A i \in 1 .. Len(s) : list'[k][i] = s[i]
    BY SMT, <1>1, <1>2
  <1>5. \A m \in ListNames : m # k => list'[m] = list[m]
    BY <1>1, <1>2
  <1>6. 1 .. Len(list'[k]) = (1 .. Len(s)) \cup {Len(s) + 1} /\ Len(s) + 1 \notin 1 .. Len(s)
    <2>1. Len(s) \in Nat
      BY SMT, <1>1
    <2>2. QED
      BY SMT, <1>4, <2>1
  <1>7. ASSUME NEW q \in Procs, NEW m \in ListNames, q # x
        PROVE  OnList(q, m)' <=> OnList(q, m)
    <2>1. CASE m # k
      BY <1>5, <2>1 DEF OnList
    <2>2. CASE m = k
      BY <1>4, <1>6, <1>7, <2>2 DEF OnList
    <2>3. QED
      BY <2>1, <2>2
  <1>8. ASSUME NEW m \in ListNames PROVE OnList(x, m)' <=> m = k
    <2>1. CASE m # k
      BY <1>5, <2>1 DEF OnList
    <2>2. CASE m = k
      BY <1>4, <1>6, <2>2 DEF OnList
    <2>3. QED
      BY <2>1, <2>2
  <1>9. ListedOnce'
    <2> SUFFICES ASSUME NEW q \in Procs, NEW m \in ListNames, NEW n \in ListNames,
                        NEW i \in 1 .. Len(list'[m]), NEW j \in 1 .. Len(list'[n]),
                        list'[m][i] = q, list'[n][j] = q
                 PROVE  m = n /\ i = j
      BY DEF ListedOnce
    <2>1. \A a \in ListNames : \A b \in 1 .. Len(list'[a]) :
            \/ b \in 1 .. Len(list[a]) /\ list'[a][b] = list[a][b]
            \/ a = k /\ b = Len(s) + 1 /\ list'[a][b] = x
      BY <1>4, <1>5, <1>6
    <2>2. \A a \in ListNames : \A b \in 1 .. Len(list[a]) : list[a][b] # x
      BY DEF OnList
    <2>3. CASE i \in 1 .. Len(list[m]) /\ list'[m][i] = list[m][i]
      <3>1. list[m][i] = q /\ q # x
        BY <2>2, <2>3
      <3>2. j \in 1 .. Len(list[n]) /\ list[n][j] = q
        BY <2>1, <3>1
      <3>3. i \in 1 .. Len(list[m]) /\ list[m][i] = q
        BY <2>3, <3>1
      <3> HIDE DEF s
      <3>4. QED
        BY ONLY Zenon, ListedOnce, q \in Procs, m \in ListNames, n \in ListNames, <3>2, <3>3 DEF ListedOnce
    <2>4. CASE m = k /\ i = Len(s) + 1 /\ list'[m][i] = x
      <3>1. ~(j \in 1 .. Len(list[n]) /\ list'[n][j] = list[n][j])
        BY <2>2, <2>4
      <3>2. QED
        BY <2>1, <2>4, <3>1
    <2>5. QED
      BY <2>1, <2>3, <2>4
  <1>10. QED
    BY <1>3, <1>7, <1>8, <1>9

\* A process that is on list k leaves it.
LEMMA Leaves ==
  ASSUME TypeOK, ListedOnce, NEW k \in ListNames, NEW x \in Procs, OnList(x, k), Delist(k, x)
  PROVE  /\ list' \in [ListNames -> Seq(Procs)] /\ ListedOnce'
         /\ \A q \in Procs, m \in ListNames : q # x => (OnList(q, m)' <=> OnList(q, m))
         /\ \A m \in ListNames : ~OnList(x, m)'
  <1> DEFINE s == list[k]
             n == Len(s)
             i == CHOOSE j \in 1 .. Len(s) : s[j] = x
             t == [j \in 1 .. Len(s) - 1 |-> IF j < i THEN s[j] ELSE s[j + 1]]
  <1>1. list \in [ListNames -> Seq(Procs)] /\ s \in Seq(Procs) /\ n \in Nat
    BY SMT DEF TypeOK
  <1>2. i \in 1 .. n /\ s[i] = x
    BY DEF OnList
  <1>3. t \in Seq(Procs) /\ Len(t) = n - 1 /\ \A j \in 1 .. n - 1 : t[j] = IF j < i THEN s[j] ELSE s[j + 1]
    <2>1. n - 1 \in Nat
      BY SMT, <1>1, <1>2
    <2> HIDE DEF i
    <2>2. \A j \in 1 .. n - 1 : (IF j < i THEN s[j] ELSE s[j + 1]) \in Procs
      BY SMT, <1>1, <1>2
    <2>3. QED
      BY SMT, <2>1, <2>2
  <1>4. list' = [list EXCEPT ![k] = t]
    BY DEF Delist, Without
  <1> HIDE DEF i, t
  <1>5. list' \in [ListNames -> Seq(Procs)] /\ list'[k] = t
    BY <1>1, <1>3, <1>4
  <1>6. \A m \in ListNames : m # k => list'[m] = list[m]
    BY <1>1, <1>4
  <1>7. \A m \in ListNames : \A j \in 1 .. Len(list[m]) : list[m][j] = x => m = k /\ j = i
    BY <1>2 DEF ListedOnce
  <1>8. \A j \in 1 .. Len(t) : /\ j < i => j \in 1 .. n /\ t[j] = s[j]
                               /\ ~(j < i) => j + 1 \in 1 .. n /\ t[j] = s[j + 1]
    BY SMT, <1>1, <1>2, <1>3
  <1>9. \A j \in 1 .. n : /\ j < i => j \in 1 .. Len(t) /\ t[j] = s[j]
                          /\ j > i => j - 1 \in 1 .. Len(t) /\ t[j - 1] = s[j]
    BY SMT, <1>1, <1>2, <1>3
  <1>10. \A j \in 1 .. Len(t) : t[j] # x
    BY SMTT(30), <1>1, <1>2, <1>7, <1>8
  <1>11. ASSUME NEW q \in Procs, NEW m \in ListNames, q # x
         PROVE  OnList(q, m)' <=> OnList(q, m)
    <2>1. CASE m # k
      BY <1>6, <2>1 DEF OnList
    <2>2. CASE m = k
      <3>1. ASSUME NEW j \in 1 .. n, s[j] = q PROVE \E h \in 1 .. Len(t) : t[h] = q
        <4>1. j # i /\ j \in Nat /\ i \in Nat
          BY SMT, <1>1, <1>2, <1>11, <3>1
        <4>2. j < i \/ j > i
          BY SMT, <4>1
        <4>3. QED
          BY <1>9, <3>1, <4>2
      <3>2. ASSUME NEW j \in 1 .. Len(t), t[j] = q PROVE \E h \in 1 .. n : s[h] = q
        BY <1>8, <3>2
      <3>3. QED
        BY <1>5, <2>2, <3>1, <3>2 DEF OnList
    <2>3. QED
      BY <2>1, <2>2
  <1>12. ASSUME NEW m \in ListNames PROVE ~OnList(x, m)'
    <2>1. CASE m # k
      BY <1>6, <1>7, <2>1 DEF OnList
    <2>2. CASE m = k
      BY <1>5, <1>10, <2>2 DEF OnList
    <2>3. QED
      BY <2>1, <2>2
  <1>13. ListedOnce'
    <2> SUFFICES ASSUME NEW q \in Procs, NEW m \in ListNames, NEW o \in ListNames,
                        NEW a \in 1 .. Len(list'[m]), NEW b \in 1 .. Len(list'[o]),
                        list'[m][a] = q, list'[o][b] = q
                 PROVE  m = o /\ a = b
      BY DEF ListedOnce
    <2> DEFINE Old(l, j) == IF l = k /\ ~(j < i) THEN j + 1 ELSE j
    <2>1. ASSUME NEW l \in ListNames, NEW j \in 1 .. Len(list'[l])
          PROVE  Old(l, j) \in 1 .. Len(list[l]) /\ list[l][Old(l, j)] = list'[l][j]
      BY <1>5, <1>6, <1>8
    <2>2. Old(m, a) \in 1 .. Len(list[m]) /\ list[m][Old(m, a)] = q
      BY <2>1
    <2>3. Old(o, b) \in 1 .. Len(list[o]) /\ list[o][Old(o, b)] = q
      BY <2>1
    <2> HIDE DEF Old
    <2>4. m = o /\ Old(m, a) = Old(o, b)
      BY SMT, <2>2, <2>3 DEF ListedOnce
    <2>5. QED
      BY SMT, <1>2, <2>4 DEF Old
  <1>14. QED
    BY <1>5, <1>11, <1>12, <1>13

-----------------------------------------------------------------------------
(* Updates of one entry                                                    *)

\* The table after a change of one entry, ...
LEMMA PutProc ==
  ASSUME TypeOK, NEW p \in Procs, NEW t \in Thread, proc' = [proc EXCEPT ![p] = t]
  PROVE  /\ proc' \in [Procs -> Thread] /\ proc'[p] = t
         /\ \A q \in Procs : q # p => proc'[q] = proc[q] /\ SameThread(q)
  BY DEF TypeOK, SameThread

\* ... of two, ...
LEMMA PutProcs ==
  ASSUME TypeOK, NEW p \in Procs, NEW t \in Thread, NEW q \in Procs, NEW u \in Thread, p # q,
         proc' = [proc EXCEPT ![p] = t, ![q] = u]
  PROVE  /\ proc' \in [Procs -> Thread] /\ proc'[p] = t /\ proc'[q] = u
         /\ \A r \in Procs : r \notin {p, q} => proc'[r] = proc[r] /\ SameThread(r)
  BY DEF TypeOK, SameThread

\* ... and the CPUs after a change of one.
LEMMA PutCpu ==
  ASSUME TypeOK, NEW c \in Cpus, NEW r \in Cpu, cpu' = [cpu EXCEPT ![c] = r]
  PROVE  /\ cpu' \in [Cpus -> Cpu] /\ cpu'[c] = r
         /\ \A d \in Cpus : d # c => cpu'[d] = cpu[d]
  BY DEF TypeOK

\* The thread t moves to label l, with loc m.
LEMMA MovePc ==
  ASSUME NEW t \in Thread, NEW l \in Labels
  PROVE  LET u == [t EXCEPT !.pc = l]
         IN  /\ u \in Thread /\ u.pc = l
             /\ u.state = t.state /\ u.yl = t.yl /\ u.loc = t.loc /\ u.chan = t.chan
             /\ u.parent = t.parent /\ u.left = t.left /\ u.disk = t.disk
  BY DEF Thread

-----------------------------------------------------------------------------
(* Steps that move only the current thread, in its own code                *)

Local(c, p) ==
  /\ InKernel(c, p) /\ cpu[c].wk = "none" /\ cpu' = cpu /\ list' = list
  /\ \A q \in Procs : q # p => SameThread(q)
  /\ proc'[p].state = proc[p].state /\ proc'[p].yl = proc[p].yl
  /\ proc[p].pc \notin {"fkAdmit", "wtFree", "klAdd", "exZombie"}
  /\ proc'[p].pc \in FreePcs \cup LockPcs
  /\ proc'[p].pc \notin {"fkAdmit", "wtFree", "klAdd", "exZombie"}
  /\ proc'[p].pc \in {"fkParent", "fkReady"} =>
       proc[p].pc = "fkParent" /\ proc'[p].loc = proc[p].loc

\* A process that runs is not being set up by fork().
LEMMA RunningNotForked ==
  ASSUME ProcInv, NEW x \in Procs, proc[x].state # "USED", NEW q \in Procs,
         proc[q].pc \in {"fkParent", "fkReady"}
  PROVE  proc[q].loc # x
  <1>1. WorkOK(q)
    BY DEF ProcInv
  <1>2. proc[proc[q].loc].state = "USED"
    BY <1>1 DEF WorkOK
  <1>3. QED
    BY <1>2

\* A step of thread p that changes its own place in the code and its locks, and moves no process.
LEMMA LocalStep ==
  ASSUME ProcInv, TypeOK', NEW c \in Cpus, NEW p \in Procs, Local(c, p),
         LockMove(c, Kept(p), Kept(p)'), WorkOK(p)'
  PROVE  ProcInv'
  <1> DEFINE X == {p}
  <1>0. X = {p}
    OBVIOUS
  <1> HIDE DEF X
  <1>1. /\ cpu[c].sched = "run" /\ cpu[c].proc = p /\ cpu[c].intr = "none" /\ cpu[c].wk = "none"
        /\ proc[p].yl = "none" /\ cpu' = cpu /\ list' = list /\ CpuOK(c) /\ InKernel(c, p)
    BY DEF ProcInv, Local, InKernel
  <1>2. /\ proc[p].state = "RUNNING" /\ proc[p].pc \in FreePcs \cup LockPcs /\ Owned(c, p)
        /\ \A d \in Cpus : p \notin Takes(d) /\ p \notin Adds(d)
    BY <1>1, InKernelRuns
  <1>3. /\ proc'[p].state = "RUNNING" /\ proc'[p].yl = "none"
        /\ proc'[p].pc \in FreePcs \cup LockPcs
    BY <1>1, <1>2 DEF Local
  <1>4. Held(c) = Kept(p) /\ Held(c)' = Kept(p)'
    BY <1>1 DEF Held, SchedKept, IntrKept, WakeKept
  <1>5. Adds(c) = {} /\ Adds(c)' = {} /\ Takes(c) = {} /\ Takes(c)' = {}
    BY <1>1, <1>3 DEF Adds, Takes, Local
  <1>6. StepOf(c, X)
    BY <1>0, <1>1, <1>2, <1>5 DEF StepOf, Local
  <1>7. ListMove(c, X) /\ ListedOnce'
    BY SMT, <1>1 DEF ProcInv, ListMove, ListedOnce, OnList
  <1>8. CpuOK(c)'
    <2>1. proc'[p].pc # "exZombie" /\ p # Nil
      BY NoNames DEF Local
    <2>2. QED
      BY <1>1, <1>3, <2>1 DEF CpuOK
  <1>9. ForksApart'
    BY SMT, <1>1 DEF ProcInv, ForksApart, Local, SameThread
  <1>10. ThreadOK(p)'
    BY <1>1, <1>3 DEF ThreadOK
  <1>11. Listed(p)'
    <2>1. \A d \in Cpus : p \notin Takes(d)' /\ p \notin Adds(d)'
      <3> TAKE d \in Cpus
      <3>1. CASE d = c
        BY <1>5, <3>1
      <3>2. CASE d # c
        <4>1. Adds(d)' = Adds(d) /\ Takes(d)' = Takes(d)
          BY <1>6, <3>2, OthersSame
        <4>2. QED
          BY <1>2, <4>1
      <3>3. QED
        BY <3>1, <3>2
    <2>2. Place(p)' = Place(p)
      BY <1>2, <1>3, <2>1 DEF Place
    <2>3. Listed(p)
      BY DEF ProcInv
    <2>4. QED
      BY <1>1, <2>2, <2>3 DEF Listed, OnList
  <1>12. \A q \in Procs, x \in X : q \notin X /\ proc[q].pc \in {"fkParent", "fkReady"} => proc[q].loc # x
    BY <1>0, <1>2, RunningNotForked
  <1>13. \A x \in X : ThreadOK(x)' /\ WorkOK(x)' /\ Listed(x)'
    BY <1>0, <1>10, <1>11
  <1>14. LockMove(c, Held(c), Held(c)')
    BY <1>4
  <1>15. QED
    BY <1>6, <1>7, <1>8, <1>9, <1>12, <1>13, <1>14, Assemble

\* One acquire(), one release(), one lock for another, or none.
LEMMA LockStay ==
  ASSUME ProcInv, NEW c \in Cpus, NEW p, InKernel(c, p), cpu[c].wk = "none", lock' = lock
  PROVE  LockMove(c, Kept(p), Kept(p)) /\ lock' \in [LockNames -> Cpus \cup {NoCpu}]
  <1>1. Held(c) = Kept(p)
    BY DEF InKernel, Held, SchedKept, IntrKept, WakeKept
  <1>2. Holds(c) = Kept(p) /\ TypeOK
    BY <1>1 DEF ProcInv, LocksOK
  <1>3. QED
    BY <1>2 DEF Holds, LockMove, TypeOK

\* acquire() of one lock, ...
LEMMA LockTake ==
  ASSUME TypeOK, NEW c \in Cpus, NEW k \in LockNames, Acquire(c, k)
  PROVE  LockMove(c, {}, {k}) /\ lock' \in [LockNames -> Cpus \cup {NoCpu}]
  BY DEF TypeOK, Acquire, LockMove

\* ... release() of one, ...
LEMMA LockDrop ==
  ASSUME TypeOK, NEW c \in Cpus, NEW k \in LockNames, Release(k)
  PROVE  LockMove(c, {k}, {}) /\ lock' \in [LockNames -> Cpus \cup {NoCpu}]
  BY DEF TypeOK, Release, LockMove

\* ... and both in one step.
LEMMA LockSwap ==
  ASSUME TypeOK, NEW c \in Cpus, NEW k \in LockNames, NEW m \in LockNames, k # m, Free(m),
         lock' = [lock EXCEPT ![m] = c, ![k] = NoCpu]
  PROVE  LockMove(c, {k}, {m}) /\ lock' \in [LockNames -> Cpus \cup {NoCpu}]
  BY DEF TypeOK, LockMove

\* Only the entry of p changes, and p stays in its code.
WorkPcs == {"kill", "fkLock", "fkTake", "fkFail", "fkParent", "fkReady", "fkAdmit", "wtFree", "klAdd",
            "panic", "wild"}

SpecialPcs == {"fkAdmit", "wtFree", "klAdd", "exZombie"}

ForkPcs == {"fkParent", "fkReady"}

\* A step that writes the entry of p only is such a local step.
LEMMA LocalPut ==
  ASSUME ProcInv, NEW c \in Cpus, NEW p \in Procs, NEW l, At(c, p, l), l \notin SpecialPcs,
         NEW t \in Thread, proc' = [proc EXCEPT ![p] = t],
         cpu' = cpu, list' = list, nextpid' = nextpid, lock' \in [LockNames -> Cpus \cup {NoCpu}],
         t.state = proc[p].state, t.yl = proc[p].yl, t.pc \in FreePcs \cup LockPcs,
         t.pc \notin SpecialPcs, t.pc \notin ForkPcs
  PROVE  TypeOK' /\ Local(c, p) /\ proc'[p] = t /\ (t.pc \notin WorkPcs => WorkOK(p)')
  <1>1. TypeOK
    BY DEF ProcInv
  <1>2. /\ proc' \in [Procs -> Thread] /\ proc'[p] = t
        /\ \A q \in Procs : q # p => proc'[q] = proc[q] /\ SameThread(q)
    BY <1>1, PutProc
  <1>3. TypeOK'
    BY <1>1, <1>2 DEF TypeOK
  <1>4. Local(c, p)
    BY <1>2 DEF Local, At, SpecialPcs, ForkPcs
  <1>5. t.pc \notin WorkPcs => WorkOK(p)'
    BY <1>2 DEF WorkOK, WorkPcs
  <1>6. QED
    BY <1>2, <1>3, <1>4, <1>5

\* The next step of a thread that keeps no lock and works on no other process.
CallPcs == {"user", "sysret", "fork", "sleep", "slTest", "disk", "dkTest", "wait", "exit", "setcpu"}

\* A local step that ends with no lock held.
LEMMA ReturnStep ==
  ASSUME ProcInv, NEW c \in Cpus, NEW p \in Procs, NEW l, At(c, p, l), l \notin SpecialPcs,
         NEW t \in Thread, t.state = proc[p].state, t.yl = proc[p].yl, t.pc \in CallPcs,
         proc' = [proc EXCEPT ![p] = t],
         cpu' = cpu, list' = list, nextpid' = nextpid, lock' \in [LockNames -> Cpus \cup {NoCpu}],
         LockMove(c, Kept(p), {})
  PROVE  ProcInv'
  <1>1. /\ t.pc \in FreePcs \cup LockPcs /\ t.pc \notin WorkPcs
        /\ t.pc \notin SpecialPcs /\ t.pc \notin ForkPcs
    BY DEF FreePcs, WorkPcs, SpecialPcs, ForkPcs, CallPcs
  <1>2. TypeOK' /\ Local(c, p) /\ proc'[p] = t /\ WorkOK(p)'
    BY <1>1, LocalPut
  <1>3. proc[p].yl = "none"
    BY DEF At, InKernel
  <1>4. Kept(p)' = {}
    BY <1>2, <1>3 DEF Kept, CallPcs
  <1>5. LockMove(c, Kept(p), Kept(p)')
    BY <1>4
  <1>6. QED
    BY <1>2, <1>5, LocalStep

\* A thread in code without locks keeps none.
LEMMA FreeKeepsNone ==
  ASSUME NEW c, NEW p, NEW l \in FreePcs, At(c, p, l)
  PROVE  Kept(p) = {} /\ proc[p].yl = "none" /\ InKernel(c, p) /\ cpu[c].wk = "none"
  BY DEF FreePcs, At, InKernel, Kept

\* A step of code that holds no lock and takes none.
LEMMA FreeStay ==
  ASSUME ProcInv, NEW c \in Cpus, NEW p, NEW l \in FreePcs, At(c, p, l), lock' = lock
  PROVE  LockMove(c, Kept(p), {}) /\ lock' \in [LockNames -> Cpus \cup {NoCpu}]
  <1>1. Kept(p) = {} /\ InKernel(c, p) /\ cpu[c].wk = "none"
    BY FreeKeepsNone
  <1>2. LockMove(c, Kept(p), Kept(p)) /\ lock' \in [LockNames -> Cpus \cup {NoCpu}]
    BY <1>1, LockStay
  <1>3. QED
    BY <1>1, <1>2

-----------------------------------------------------------------------------
(* The local actions                                                       *)

\* usertrap() keeps the invariant when a system call starts, ...
LEMMA SyscallOK ==
  ASSUME ProcInv, NEW c \in Cpus, NEW p \in Procs, NEW call \in Calls, Syscall(c, p, call)
  PROVE  ProcInv'
  <1> USE DEF At
  <1>1. TypeOK /\ At(c, p, "user") /\ proc[p] \in Thread /\ InKernel(c, p) /\ cpu[c].wk = "none"
    BY FieldTypes DEF ProcInv, Syscall
  <1>2. PICK k \in (IF call = "kill" THEN KillPids ELSE {0}) :
          proc' = [proc EXCEPT ![p].pc = IF proc[p].killed THEN "exit" ELSE call,
                            ![p].loc = 0, ![p].tgt = k]
    BY DEF Syscall
  <1> DEFINE l == IF proc[p].killed THEN "exit" ELSE call
             t == [proc[p] EXCEPT !.pc = l, !.loc = 0, !.tgt = k]
  <1>3. l \in {"fork", "exit", "wait", "kill", "sleep", "disk", "setcpu"}
    BY ProcAssumption
  <1>4. l \in Labels /\ l \in FreePcs
    BY <1>3 DEF Labels, FreePcs
  <1>5. k \in Nat
    BY SMT, <1>2, ProcAssumption
  <1>6. 0 \in Procs /\ 0 \in 0 .. NPROC
    BY SMT, ProcAssumption DEF Procs
  <1>7. proc' = [proc EXCEPT ![p] = t]
    BY <1>1, <1>2 DEF TypeOK
  <1> HIDE DEF l
  <1>8. t \in Thread /\ t.pc = l /\ t.loc = 0 /\ t.state = proc[p].state /\ t.yl = proc[p].yl
    BY <1>1, <1>4, <1>5, <1>6 DEF Thread
  <1>9. cpu' = cpu /\ lock' = lock /\ list' = list /\ nextpid' = nextpid
    BY DEF Syscall
  <1>10. /\ t.pc \in FreePcs \cup LockPcs
         /\ t.pc \notin SpecialPcs /\ t.pc \notin ForkPcs
    BY <1>3, <1>4, <1>8 DEF SpecialPcs, ForkPcs
  <1>11. LockMove(c, Kept(p), Kept(p)) /\ lock' \in [LockNames -> Cpus \cup {NoCpu}]
    BY <1>1, <1>9, LockStay
  <1> HIDE DEF At, t
  <1>12. "user" \notin SpecialPcs
    BY DEF SpecialPcs
  <1>13. TypeOK' /\ Local(c, p) /\ proc'[p] = t
    BY <1>1, <1>7, <1>8, <1>9, <1>10, <1>11, <1>12, LocalPut
  <1>14. WorkOK(p)'
    BY <1>3, <1>6, <1>8, <1>13 DEF WorkOK
  <1>15. Kept(p) = {} /\ Kept(p)' = {}
    BY <1>1, <1>3, <1>8, <1>13 DEF Kept, At, InKernel
  <1>16. LockMove(c, Kept(p), Kept(p)')
    BY <1>11, <1>15
  <1>17. QED
    BY <1>13, <1>14, <1>16, LocalStep

\* ... and when it returns.
LEMMA SysReturnOK ==
  ASSUME ProcInv, NEW c \in Cpus, NEW p \in Procs, SysReturn(c, p)
  PROVE  ProcInv'
  <1> DEFINE l == IF proc[p].killed THEN "exit" ELSE "user"
             t == [proc[p] EXCEPT !.pc = l]
  <1>1. TypeOK /\ At(c, p, "sysret") /\ proc[p] \in Thread
    BY FieldTypes DEF ProcInv, SysReturn
  <1>2. l \in Labels /\ l \in CallPcs
    BY DEF Labels, CallPcs
  <1>3. "sysret" \notin SpecialPcs /\ "sysret" \in FreePcs
    BY DEF SpecialPcs, FreePcs
  <1>4. proc' = [proc EXCEPT ![p] = t] /\ cpu' = cpu /\ lock' = lock /\ list' = list /\ nextpid' = nextpid
    BY <1>1 DEF SysReturn, TypeOK
  <1> HIDE DEF l
  <1>5. t \in Thread /\ t.pc = l /\ t.state = proc[p].state /\ t.yl = proc[p].yl
    BY <1>1, <1>2, MovePc
  <1>6. LockMove(c, Kept(p), {}) /\ lock' \in [LockNames -> Cpus \cup {NoCpu}]
    BY <1>1, <1>3, <1>4, FreeStay
  <1> HIDE DEF t
  <1>7. t.pc \in CallPcs
    BY <1>2, <1>5
  <1>8. QED
    BY <1>1, <1>3, <1>4, <1>5, <1>6, <1>7, ReturnStep

\* The call returns: only its thread moves, to the return from the system call.
LEMMA DoneStep ==
  ASSUME ProcInv, NEW c \in Cpus, NEW p \in Procs, NEW l, At(c, p, l), l \notin SpecialPcs,
         NEW t \in Thread, t.state = proc[p].state, t.yl = proc[p].yl, proc' = [proc EXCEPT ![p] = Done(t)],
         cpu' = cpu, list' = list, nextpid' = nextpid, lock' \in [LockNames -> Cpus \cup {NoCpu}],
         LockMove(c, Kept(p), {})
  PROVE  ProcInv'
  <1> DEFINE u == Done(t)
  <1>1. u \in Thread /\ u.pc = "sysret" /\ u.state = proc[p].state /\ u.yl = proc[p].yl
    BY DoneIs
  <1>2. u.pc \in CallPcs
    BY <1>1 DEF CallPcs
  <1>3. proc' = [proc EXCEPT ![p] = u]
    OBVIOUS
  <1> HIDE DEF u
  <1>4. QED
    BY <1>1, <1>2, <1>3, ReturnStep

\* fork() without a free entry keeps the invariant.
LEMMA ForkNoneOK ==
  ASSUME ProcInv, NEW c \in Cpus, NEW p \in Procs, ForkNone(c, p)
  PROVE  ProcInv'
  <1>1. TypeOK /\ At(c, p, "fork") /\ proc[p] \in Thread
    BY FieldTypes DEF ProcInv, ForkNone
  <1>2. "fork" \notin SpecialPcs /\ "fork" \in FreePcs
    BY DEF SpecialPcs, FreePcs
  <1>3. /\ proc' = [proc EXCEPT ![p] = Done(proc[p])]
        /\ cpu' = cpu /\ lock' = lock /\ list' = list /\ nextpid' = nextpid
    BY DEF ForkNone
  <1>4. LockMove(c, Kept(p), {}) /\ lock' \in [LockNames -> Cpus \cup {NoCpu}]
    BY <1>1, <1>2, <1>3, FreeStay
  <1>5. QED
    BY <1>1, <1>2, <1>3, <1>4, DoneStep

\* setcpu() keeps the invariant.
LEMMA SetCpuOK ==
  ASSUME ProcInv, NEW c \in Cpus, NEW p \in Procs, SetCpu(c, p)
  PROVE  ProcInv'
  <1>1. TypeOK /\ At(c, p, "setcpu") /\ proc[p] \in Thread
    BY FieldTypes DEF ProcInv, SetCpu
  <1>2. "setcpu" \notin SpecialPcs /\ "setcpu" \in FreePcs
    BY DEF SpecialPcs, FreePcs
  <1>3. PICK n \in Cpus : proc' = [proc EXCEPT ![p] = [Done(proc[p]) EXCEPT !.cpu_num = n]]
    BY DEF SetCpu
  <1>4. cpu' = cpu /\ lock' = lock /\ list' = list /\ nextpid' = nextpid
    BY DEF SetCpu
  <1>5. LockMove(c, Kept(p), {}) /\ lock' \in [LockNames -> Cpus \cup {NoCpu}]
    BY <1>1, <1>2, <1>4, FreeStay
  <1> DEFINE u == Done(proc[p])
             t == [u EXCEPT !.cpu_num = n]
  <1>6. u \in Thread /\ u.pc = "sysret" /\ u.state = proc[p].state /\ u.yl = proc[p].yl
    BY <1>1, DoneIs
  <1> HIDE DEF u
  <1>7. t \in Thread /\ t.pc = "sysret" /\ t.state = proc[p].state /\ t.yl = proc[p].yl
    BY <1>6 DEF Thread
  <1>8. proc' = [proc EXCEPT ![p] = t]
    BY <1>3 DEF u
  <1> HIDE DEF t
  <1>9. t.pc \in CallPcs
    BY <1>7 DEF CallPcs
  <1>10. QED
    BY <1>1, <1>2, <1>4, <1>5, <1>7, <1>8, <1>9, ReturnStep

\* The next step of a thread that keeps one lock, and works on no other process.
HoldPcs == {"slSleep", "dkSleep", "wtScan", "wtSleep", "exReparent"}

PcLock(l) == IF l = "slSleep" THEN TicksLock ELSE IF l = "dkSleep" THEN DiskLock ELSE WaitLock

\* A local step that ends inside a section of one of the three global locks.
LEMMA HoldStep ==
  ASSUME ProcInv, NEW c \in Cpus, NEW p \in Procs, NEW l, At(c, p, l), l \notin SpecialPcs,
         NEW t \in Thread, t.state = proc[p].state, t.yl = proc[p].yl, t.pc \in HoldPcs,
         proc' = [proc EXCEPT ![p] = t],
         cpu' = cpu, list' = list, nextpid' = nextpid, lock' \in [LockNames -> Cpus \cup {NoCpu}],
         LockMove(c, Kept(p), {PcLock(t.pc)})
  PROVE  ProcInv'
  <1>1. /\ t.pc \in FreePcs \cup LockPcs /\ t.pc \notin WorkPcs
        /\ t.pc \notin SpecialPcs /\ t.pc \notin ForkPcs
    BY DEF LockPcs, WorkPcs, SpecialPcs, ForkPcs, HoldPcs
  <1>2. TypeOK' /\ Local(c, p) /\ proc'[p] = t /\ WorkOK(p)'
    BY <1>1, LocalPut
  <1>3. proc[p].yl = "none"
    BY DEF At, InKernel
  <1>4. Kept(p)' = {PcLock(t.pc)}
    BY <1>2, <1>3 DEF Kept, HoldPcs, PcLock
  <1>5. LockMove(c, Kept(p), Kept(p)')
    BY <1>4
  <1>6. QED
    BY <1>2, <1>5, LocalStep

\* A thread without locks takes the one that its next label keeps.
LEMMA EnterStep ==
  ASSUME ProcInv, NEW c \in Cpus, NEW p \in Procs, NEW l \in CallPcs, At(c, p, l),
         NEW t \in Thread, t.state = proc[p].state, t.yl = proc[p].yl, t.pc \in HoldPcs,
         proc' = [proc EXCEPT ![p] = t],
         cpu' = cpu, list' = list, nextpid' = nextpid, Acquire(c, PcLock(t.pc))
  PROVE  ProcInv'
  <1>1. l \notin SpecialPcs /\ l \in FreePcs
    BY DEF CallPcs, SpecialPcs, FreePcs
  <1>2. Kept(p) = {}
    BY <1>1, FreeKeepsNone
  <1>3. PcLock(t.pc) \in LockNames /\ TypeOK
    BY Names DEF PcLock, ProcInv
  <1>4. LockMove(c, {}, {PcLock(t.pc)}) /\ lock' \in [LockNames -> Cpus \cup {NoCpu}]
    BY <1>3, LockTake
  <1>5. LockMove(c, Kept(p), {PcLock(t.pc)})
    BY <1>2, <1>4
  <1>6. QED
    BY <1>1, <1>4, <1>5, HoldStep

\* The test of a sleep loop keeps the invariant, ...
LEMMA TestOK ==
  ASSUME ProcInv, NEW c \in Cpus, NEW p \in Procs, NEW l \in CallPcs, At(c, p, l), NEW return \in BOOLEAN,
         NEW asleep \in {"slSleep", "dkSleep"}, NEW thread \in Thread,
         thread.state = proc[p].state, thread.yl = proc[p].yl,
         Test(c, p, PcLock(asleep), return, asleep, thread)
  PROVE  ProcInv'
  <1>1. l \notin SpecialPcs /\ l \in FreePcs
    BY DEF CallPcs, SpecialPcs, FreePcs
  <1>2. cpu' = cpu /\ list' = list /\ nextpid' = nextpid
    BY DEF Test
  <1>3. CASE return
    <2>1. proc' = [proc EXCEPT ![p] = Done(thread)] /\ lock' = lock
      BY <1>3 DEF Test
    <2>2. LockMove(c, Kept(p), {}) /\ lock' \in [LockNames -> Cpus \cup {NoCpu}]
      BY <1>1, <2>1, FreeStay
    <2>3. QED
      BY <1>1, <1>2, <2>1, <2>2, DoneStep
  <1>4. CASE ~return
    <2> DEFINE t == [thread EXCEPT !.pc = asleep]
    <2>1. proc' = [proc EXCEPT ![p] = t] /\ Acquire(c, PcLock(asleep))
      BY <1>4 DEF Test
    <2>2. asleep \in Labels /\ asleep \in HoldPcs
      BY DEF Labels, HoldPcs
    <2>3. t \in Thread /\ t.pc = asleep /\ t.state = proc[p].state /\ t.yl = proc[p].yl
      BY <2>2, MovePc
    <2> HIDE DEF t
    <2>4. t.pc \in HoldPcs /\ Acquire(c, PcLock(t.pc))
      BY <2>1, <2>2, <2>3
    <2>5. QED
      BY <1>2, <2>1, <2>3, <2>4, EnterStep
  <1>5. QED
    BY <1>3, <1>4

\* ... also that of sys_sleep().
LEMMA SleepTestOK ==
  ASSUME ProcInv, NEW c \in Cpus, NEW p \in Procs, NEW l \in CallPcs, At(c, p, l),
         NEW n \in 0 .. TickMod - 1, SleepTest(c, p, n)
  PROVE  ProcInv'
  <1> DEFINE m == IF proc[p].killed THEN 0 ELSE n
             thread == [proc[p] EXCEPT !.left = m]
             return == n = 0 \/ proc[p].killed
  <1>1. proc[p] \in Thread /\ proc[p].killed \in BOOLEAN
    BY FieldTypes DEF ProcInv, Thread
  <1>2. m \in 0 .. TickMod - 1
    BY SMT, ProcAssumption
  <1>3. Test(c, p, TicksLock, return, "slSleep", thread)
    BY DEF SleepTest
  <1> HIDE DEF m
  <1>4. /\ thread \in Thread /\ thread.state = proc[p].state /\ thread.yl = proc[p].yl
    BY <1>1, <1>2 DEF Thread
  <1> HIDE DEF thread
  <1>5. return \in BOOLEAN
    OBVIOUS
  <1> HIDE DEF return
  <1>6. TicksLock = PcLock("slSleep")
    BY DEF PcLock
  <1>7. Test(c, p, PcLock("slSleep"), return, "slSleep", thread)
    BY <1>3, <1>6
  <1>8. QED
    BY <1>4, <1>5, <1>7, TestOK

\* sys_sleep() keeps the invariant at its first test, ...
LEMMA SleepStartOK ==
  ASSUME ProcInv, NEW c \in Cpus, NEW p \in Procs, SleepStart(c, p)
  PROVE  ProcInv'
  <1>1. PICK n \in SleepArgs : SleepTest(c, p, n % TickMod)
    BY DEF SleepStart
  <1>2. n % TickMod \in 0 .. TickMod - 1
    BY SMT, ProcAssumption
  <1>3. At(c, p, "sleep") /\ "sleep" \in CallPcs
    BY DEF SleepStart, CallPcs
  <1>4. QED
    BY <1>1, <1>2, <1>3, SleepTestOK

\* ... and at each later one.
LEMMA SleepAgainOK ==
  ASSUME ProcInv, NEW c \in Cpus, NEW p \in Procs, SleepAgain(c, p)
  PROVE  ProcInv'
  <1>1. At(c, p, "slTest") /\ "slTest" \in CallPcs /\ SleepTest(c, p, proc[p].left)
    BY DEF SleepAgain, CallPcs
  <1>2. proc[p].left \in 0 .. TickMod - 1
    BY FieldTypes DEF ProcInv, Thread
  <1>3. QED
    BY <1>1, <1>2, SleepTestOK

\* virtio_disk_rw() keeps the invariant when it starts a request, ...
LEMMA DiskStartOK ==
  ASSUME ProcInv, NEW c \in Cpus, NEW p \in Procs, DiskStart(c, p)
  PROVE  ProcInv'
  <1> DEFINE thread == [proc[p] EXCEPT !.disk = TRUE]
  <1>1. proc[p] \in Thread
    BY FieldTypes DEF ProcInv
  <1>2. thread \in Thread /\ thread.state = proc[p].state /\ thread.yl = proc[p].yl
    BY <1>1 DEF Thread
  <1>3. At(c, p, "disk") /\ "disk" \in CallPcs
    BY DEF DiskStart, CallPcs
  <1>4. DiskLock = PcLock("dkSleep")
    BY DEF PcLock
  <1>5. Test(c, p, PcLock("dkSleep"), FALSE, "dkSleep", thread)
    BY <1>4 DEF DiskStart
  <1> HIDE DEF thread
  <1>6. QED
    BY <1>2, <1>3, <1>5, TestOK

\* ... and when it tests b->disk again.
LEMMA DiskAgainOK ==
  ASSUME ProcInv, NEW c \in Cpus, NEW p \in Procs, DiskAgain(c, p)
  PROVE  ProcInv'
  <1>1. proc[p] \in Thread
    BY FieldTypes DEF ProcInv
  <1>2. At(c, p, "dkTest") /\ "dkTest" \in CallPcs
    BY DEF DiskAgain, CallPcs
  <1>3. DiskLock = PcLock("dkSleep")
    BY DEF PcLock
  <1>4. Test(c, p, PcLock("dkSleep"), ~proc[p].disk, "dkSleep", proc[p])
    BY <1>3 DEF DiskAgain
  <1>5. (~proc[p].disk) \in BOOLEAN
    OBVIOUS
  <1>6. QED
    BY <1>1, <1>2, <1>4, <1>5, TestOK

\* wait() keeps the invariant when it takes wait_lock.
LEMMA WaitEnterOK ==
  ASSUME ProcInv, NEW c \in Cpus, NEW p \in Procs, WaitEnter(c, p)
  PROVE  ProcInv'
  <1> DEFINE t == [proc[p] EXCEPT !.pc = "wtScan", !.loc = 0]
  <1>1. TypeOK /\ proc[p] \in Thread /\ At(c, p, "wait") /\ "wait" \in CallPcs
    BY FieldTypes DEF ProcInv, WaitEnter, CallPcs
  <1>2. /\ "wtScan" \in Labels /\ "wtScan" \in HoldPcs /\ PcLock("wtScan") = WaitLock
        /\ 0 \in 0 .. NPROC \cup {Nil}
    BY SMT, ProcAssumption DEF Labels, HoldPcs, PcLock
  <1>3. t \in Thread /\ t.pc = "wtScan" /\ t.state = proc[p].state /\ t.yl = proc[p].yl
    BY <1>1, <1>2 DEF Thread
  <1>4. proc' = [proc EXCEPT ![p] = t]
    BY <1>1 DEF WaitEnter, TypeOK
  <1>5. cpu' = cpu /\ list' = list /\ nextpid' = nextpid /\ Acquire(c, WaitLock)
    BY DEF WaitEnter
  <1> HIDE DEF t
  <1>6. t.pc \in HoldPcs /\ Acquire(c, PcLock(t.pc))
    BY <1>2, <1>3, <1>5
  <1>7. QED
    BY <1>1, <1>3, <1>4, <1>5, <1>6, EnterStep

\* exit() keeps the invariant when it takes wait_lock.
LEMMA ExitStartOK ==
  ASSUME ProcInv, NEW c \in Cpus, NEW p \in Procs, ExitStart(c, p)
  PROVE  ProcInv'
  <1> DEFINE t == [proc[p] EXCEPT !.pc = "exReparent", !.loc = 0]
  <1>1. TypeOK /\ proc[p] \in Thread /\ At(c, p, "exit") /\ "exit" \in CallPcs
    BY FieldTypes DEF ProcInv, ExitStart, CallPcs
  <1>2. /\ "exReparent" \in Labels /\ "exReparent" \in HoldPcs
        /\ PcLock("exReparent") = WaitLock /\ 0 \in 0 .. NPROC \cup {Nil}
    BY SMT, ProcAssumption DEF Labels, HoldPcs, PcLock
  <1>3. t \in Thread /\ t.pc = "exReparent" /\ t.state = proc[p].state /\ t.yl = proc[p].yl
    BY <1>1, <1>2 DEF Thread
  <1>4. proc' = [proc EXCEPT ![p] = t]
    BY <1>1 DEF ExitStart, TypeOK
  <1>5. cpu' = cpu /\ list' = list /\ nextpid' = nextpid /\ Acquire(c, WaitLock)
    BY DEF ExitStart
  <1> HIDE DEF t
  <1>6. t.pc \in HoldPcs /\ Acquire(c, PcLock(t.pc))
    BY <1>2, <1>3, <1>5
  <1>7. QED
    BY <1>1, <1>3, <1>4, <1>5, <1>6, EnterStep

\* In the scan of wait(), wait_lock is what the thread keeps.
LEMMA ScanKeeps ==
  ASSUME ProcInv, NEW c \in Cpus, NEW p \in Procs, At(c, p, "wtScan")
  PROVE  /\ TypeOK /\ proc[p] \in Thread /\ "wtScan" \notin SpecialPcs
         /\ Kept(p) = {WaitLock} /\ InKernel(c, p) /\ cpu[c].wk = "none"
         /\ "wtScan" \in HoldPcs /\ PcLock("wtScan") = WaitLock
         /\ "wtSleep" \in HoldPcs /\ PcLock("wtSleep") = WaitLock
  <1>1. TypeOK /\ proc[p] \in Thread
    BY FieldTypes DEF ProcInv
  <1>2. Kept(p) = {WaitLock} /\ InKernel(c, p) /\ cpu[c].wk = "none"
    BY DEF At, InKernel, Kept
  <1>3. QED
    BY <1>1, <1>2 DEF SpecialPcs, HoldPcs, PcLock

\* wait() passing a child that is no zombie keeps the invariant.
LEMMA WaitPassOK ==
  ASSUME ProcInv, NEW c \in Cpus, NEW p \in Procs, NEW np \in Procs, WaitPass(c, p, np)
  PROVE  ProcInv'
  <1> DEFINE t == [proc[p] EXCEPT !.loc = np + 1]
  <1>1. At(c, p, "wtScan")
    BY DEF WaitPass, WaitSees
  <1>2. /\ TypeOK /\ proc[p] \in Thread /\ "wtScan" \notin SpecialPcs
        /\ Kept(p) = {WaitLock} /\ InKernel(c, p) /\ cpu[c].wk = "none"
        /\ "wtScan" \in HoldPcs /\ PcLock("wtScan") = WaitLock
    BY <1>1, ScanKeeps
  <1>3. np + 1 \in 0 .. NPROC
    BY SMT, ProcAssumption DEF Procs
  <1>4. t \in Thread /\ t.pc = proc[p].pc /\ t.state = proc[p].state /\ t.yl = proc[p].yl
    BY <1>2, <1>3 DEF Thread
  <1>5. t.pc = "wtScan"
    BY <1>1, <1>4 DEF At
  <1>6. proc' = [proc EXCEPT ![p] = t] /\ cpu' = cpu /\ list' = list /\ nextpid' = nextpid /\ lock' = lock
    BY <1>2 DEF WaitPass, TypeOK
  <1> HIDE DEF t
  <1>7. LockMove(c, Kept(p), Kept(p)) /\ lock' \in [LockNames -> Cpus \cup {NoCpu}]
    BY <1>2, <1>6, LockStay
  <1>8. t.pc \in HoldPcs /\ LockMove(c, Kept(p), {PcLock(t.pc)})
    BY <1>2, <1>5, <1>7
  <1>9. QED
    BY <1>1, <1>2, <1>4, <1>6, <1>7, <1>8, HoldStep

\* wait() whose copyout() fails keeps the invariant.
LEMMA WaitNoCopyOK ==
  ASSUME ProcInv, NEW c \in Cpus, NEW p \in Procs, NEW np \in Procs, WaitNoCopy(c, p, np)
  PROVE  ProcInv'
  <1>1. At(c, p, "wtScan")
    BY DEF WaitNoCopy, WaitSees
  <1>2. /\ TypeOK /\ proc[p] \in Thread /\ "wtScan" \notin SpecialPcs /\ Kept(p) = {WaitLock}
    BY <1>1, ScanKeeps
  <1>3. /\ proc' = [proc EXCEPT ![p] = Done(proc[p])] /\ cpu' = cpu /\ list' = list
        /\ nextpid' = nextpid /\ Release(WaitLock)
    BY DEF WaitNoCopy
  <1>4. LockMove(c, {WaitLock}, {}) /\ lock' \in [LockNames -> Cpus \cup {NoCpu}]
    BY <1>2, <1>3, LockDrop, Names
  <1>5. LockMove(c, Kept(p), {})
    BY <1>2, <1>4
  <1>6. QED
    BY <1>1, <1>2, <1>3, <1>4, <1>5, DoneStep

\* wait() that has seen all children keeps the invariant.
LEMMA WaitDecideOK ==
  ASSUME ProcInv, NEW c \in Cpus, NEW p \in Procs, WaitDecide(c, p)
  PROVE  ProcInv'
  <1>1. At(c, p, "wtScan") /\ cpu' = cpu /\ list' = list /\ nextpid' = nextpid
    BY DEF WaitDecide
  <1>2. /\ TypeOK /\ proc[p] \in Thread /\ "wtScan" \notin SpecialPcs
        /\ Kept(p) = {WaitLock} /\ InKernel(c, p) /\ cpu[c].wk = "none"
        /\ "wtSleep" \in HoldPcs /\ PcLock("wtSleep") = WaitLock
    BY <1>1, ScanKeeps
  <1>3. CASE proc' = [proc EXCEPT ![p] = Done(proc[p])] /\ Release(WaitLock)
    <2>1. LockMove(c, {WaitLock}, {}) /\ lock' \in [LockNames -> Cpus \cup {NoCpu}]
      BY <1>2, <1>3, LockDrop, Names
    <2>2. LockMove(c, Kept(p), {})
      BY <1>2, <2>1
    <2>3. QED
      BY <1>1, <1>2, <1>3, <2>1, <2>2, DoneStep
  <1>4. CASE proc' = [proc EXCEPT ![p].pc = "wtSleep"] /\ lock' = lock
    <2> DEFINE t == [proc[p] EXCEPT !.pc = "wtSleep"]
    <2>1. "wtSleep" \in Labels
      BY DEF Labels
    <2>2. t \in Thread /\ t.pc = "wtSleep" /\ t.state = proc[p].state /\ t.yl = proc[p].yl
      BY <1>2, <2>1, MovePc
    <2>3. proc' = [proc EXCEPT ![p] = t]
      BY <1>2, <1>4 DEF TypeOK
    <2> HIDE DEF t
    <2>4. LockMove(c, Kept(p), Kept(p)) /\ lock' \in [LockNames -> Cpus \cup {NoCpu}]
      BY <1>2, <1>4, LockStay
    <2>5. t.pc \in HoldPcs /\ LockMove(c, Kept(p), {PcLock(t.pc)})
      BY <1>2, <2>2, <2>4
    <2>6. QED
      BY <1>1, <1>2, <2>2, <2>3, <2>4, <2>5, HoldStep
  <1>5. QED
    BY <1>3, <1>4 DEF WaitDecide

\* The panic of exit() in init keeps the invariant.
LEMMA InitExitsOK ==
  ASSUME ProcInv, NEW c \in Cpus, NEW p \in Procs, InitExits(c, p)
  PROVE  ProcInv'
  <1> DEFINE t == [proc[p] EXCEPT !.pc = "panic", !.loc = Nil]
  <1>1. TypeOK /\ proc[p] \in Thread /\ At(c, p, "exit") /\ "exit" \in FreePcs /\ "exit" \notin SpecialPcs
    BY FieldTypes DEF ProcInv, InitExits, FreePcs, SpecialPcs
  <1>2. "panic" \in Labels /\ Nil \in 0 .. NPROC \cup {Nil}
    BY DEF Labels
  <1>3. t \in Thread /\ t.pc = "panic" /\ t.loc = Nil /\ t.state = proc[p].state /\ t.yl = proc[p].yl
    BY <1>1, <1>2 DEF Thread
  <1>4. /\ proc' = [proc EXCEPT ![p] = t] /\ cpu' = cpu /\ list' = list /\ nextpid' = nextpid
        /\ lock' = lock
    BY <1>1 DEF InitExits, TypeOK
  <1> HIDE DEF t
  <1>5. LockMove(c, Kept(p), {}) /\ lock' \in [LockNames -> Cpus \cup {NoCpu}]
    BY <1>1, <1>4, FreeStay
  <1>6. t.pc \in FreePcs \cup LockPcs /\ t.pc \notin SpecialPcs /\ t.pc \notin ForkPcs
    BY <1>3 DEF LockPcs, SpecialPcs, ForkPcs
  <1>7. TypeOK' /\ Local(c, p) /\ proc'[p] = t
    BY <1>1, <1>3, <1>4, <1>5, <1>6, LocalPut
  <1>8. WorkOK(p)'
    BY <1>3, <1>7 DEF WorkOK
  <1>9. proc[p].yl = "none"
    BY <1>1 DEF At, InKernel
  <1>10. Kept(p)' = {}
    BY <1>3, <1>7, <1>9 DEF Kept
  <1>11. LockMove(c, Kept(p), Kept(p)')
    BY <1>5, <1>10
  <1>12. QED
    BY <1>7, <1>8, <1>11, LocalStep

-----------------------------------------------------------------------------
(* The locks and the wakeup() of a CPU, and the processes it does not touch*)

\* Without acquire() and release(), or with one of them.
LEMMA HeldStay ==
  ASSUME ProcInv, NEW c \in Cpus, lock' = lock
  PROVE  LockMove(c, Held(c), Held(c)) /\ lock' \in [LockNames -> Cpus \cup {NoCpu}]
  <1>1. Holds(c) = Held(c) /\ TypeOK
    BY DEF ProcInv, LocksOK
  <1>2. QED
    BY <1>1 DEF Holds, LockMove, TypeOK

\* acquire() on top of the locks that c holds, ...
LEMMA HeldTake ==
  ASSUME ProcInv, NEW c \in Cpus, NEW k \in LockNames, Acquire(c, k)
  PROVE  LockMove(c, Held(c), Held(c) \cup {k}) /\ lock' \in [LockNames -> Cpus \cup {NoCpu}]
  <1>1. Holds(c) = Held(c) /\ TypeOK
    BY DEF ProcInv, LocksOK
  <1>2. QED
    BY <1>1 DEF Holds, LockMove, TypeOK, Acquire

\* ... and release() of one of them.
LEMMA HeldDrop ==
  ASSUME ProcInv, NEW c \in Cpus, NEW k \in Held(c), Release(k)
  PROVE  LockMove(c, Held(c), Held(c) \ {k}) /\ lock' \in [LockNames -> Cpus \cup {NoCpu}]
  <1>1. Holds(c) = Held(c) /\ TypeOK
    BY DEF ProcInv, LocksOK
  <1>2. QED
    BY <1>1 DEF Holds, LockMove, TypeOK, Release

\* Calls of fork() that neither start nor change stay apart.
LEMMA ForksKept ==
  ASSUME ProcInv,
         \A q \in Procs : proc'[q].pc \in ForkPcs => proc[q].pc \in ForkPcs /\ proc'[q].loc = proc[q].loc
  PROVE  ForksApart'
  BY DEF ProcInv, ForksApart, ForkPcs

-----------------------------------------------------------------------------
(* Steps that also write another process                                  *)

\* The entry of another process np changes too, but not where its thread is.
Stays(s, t) == /\ t.state = s.state /\ t.yl = s.yl /\ t.pc \in FreePcs \cup LockPcs /\ t.pc \notin SpecialPcs
               /\ t.pc \in ForkPcs => s.pc = "fkParent" /\ t.loc = s.loc

Still(s, u) == u.state = s.state /\ u.yl = s.yl /\ u.pc = s.pc /\ u.loc = s.loc

Puts(p, t, np, u) == proc' = [proc EXCEPT ![p] = t, ![np] = u]

\* A step of p that also writes fields of np that the invariant does not mention is local.
LEMMA LocalPuts ==
  ASSUME ProcInv, NEW c \in Cpus, NEW p \in Procs, NEW l, At(c, p, l), l \notin SpecialPcs,
         NEW t \in Thread, NEW np \in Procs, NEW u \in Thread, p # np,
         Puts(p, t, np, u),
         cpu' = cpu, list' = list, nextpid' \in Nat, lock' \in [LockNames -> Cpus \cup {NoCpu}],
         Stays(proc[p], t), Still(proc[np], u)
  PROVE  TypeOK' /\ Local(c, p) /\ proc'[p] = t
  <1>1. TypeOK
    BY DEF ProcInv
  <1>2. /\ proc' \in [Procs -> Thread] /\ proc'[p] = t /\ proc'[np] = u
        /\ \A q \in Procs : q \notin {p, np} => proc'[q] = proc[q] /\ SameThread(q)
    BY <1>1, PutProcs DEF Puts
  <1>3. TypeOK'
    BY <1>1, <1>2 DEF TypeOK
  <1>4. SameThread(np)
    BY <1>2 DEF SameThread, Still
  <1>5. Local(c, p)
    BY <1>2, <1>4 DEF Local, At, SpecialPcs, ForkPcs, Stays
  <1>6. QED
    BY <1>2, <1>3, <1>5

\* allocproc() looking at the first unused entry keeps the invariant.
LEMMA ForkPeekOK ==
  ASSUME ProcInv, NEW c \in Cpus, NEW p \in Procs, ForkPeek(c, p)
  PROVE  ProcInv'
  <1> DEFINE np == Head(list[Unused])
             t == [proc[p] EXCEPT !.pc = "fkLock", !.loc = np]
  <1>1. TypeOK /\ proc[p] \in Thread /\ At(c, p, "fork") /\ "fork" \in FreePcs /\ "fork" \notin SpecialPcs
    BY FieldTypes DEF ProcInv, ForkPeek, FreePcs, SpecialPcs
  <1>2. np \in Procs /\ OnList(np, Unused) /\ list[Unused] # << >>
    <2>1. list[Unused] \in Seq(Procs) /\ list[Unused] # << >>
      BY <1>1, FieldTypes, Names DEF ForkPeek
    <2>2. 1 \in 1 .. Len(list[Unused]) /\ np = list[Unused][1] /\ np \in Procs
      BY SMT, <2>1
    <2>3. QED
      BY <2>1, <2>2 DEF OnList
  <1>3. "fkLock" \in Labels
    BY DEF Labels
  <1>4. np \in 0 .. NPROC
    BY SMT, <1>2, ProcAssumption DEF Procs
  <1>5. /\ proc' = [proc EXCEPT ![p] = t] /\ cpu' = cpu /\ list' = list /\ nextpid' = nextpid
        /\ Acquire(c, Unused)
    BY <1>1 DEF ForkPeek, TypeOK
  <1> HIDE DEF np
  <1>6. t \in Thread /\ t.pc = "fkLock" /\ t.loc = np /\ t.state = proc[p].state /\ t.yl = proc[p].yl
    BY <1>1, <1>3, <1>4 DEF Thread
  <1> HIDE DEF t
  <1>7. LockMove(c, {}, {Unused}) /\ lock' \in [LockNames -> Cpus \cup {NoCpu}]
    BY <1>1, <1>5, LockTake, Names
  <1>8. t.pc \in FreePcs \cup LockPcs /\ t.pc \notin SpecialPcs /\ t.pc \notin ForkPcs
    BY <1>6 DEF LockPcs, SpecialPcs, ForkPcs
  <1>9. TypeOK' /\ Local(c, p) /\ proc'[p] = t
    BY <1>1, <1>5, <1>6, <1>7, <1>8, LocalPut
  <1>10. WorkOK(p)'
    BY <1>2, <1>5, <1>6, <1>9 DEF WorkOK, OnList
  <1>11. Kept(p) = {} /\ proc[p].yl = "none"
    BY <1>1, FreeKeepsNone
  <1>12. Kept(p)' = {Unused}
    BY <1>6, <1>9, <1>11 DEF Kept
  <1>13. LockMove(c, Kept(p), Kept(p)')
    BY <1>7, <1>11, <1>12
  <1>14. QED
    BY <1>9, <1>10, <1>13, LocalStep

\* allocproc() locking that entry keeps the invariant.
LEMMA ForkLockOK ==
  ASSUME ProcInv, NEW c \in Cpus, NEW p \in Procs, ForkLock(c, p)
  PROVE  ProcInv'
  <1> DEFINE np == proc[p].loc
             t == [proc[p] EXCEPT !.pc = "fkTake"]
             u == [proc[np] EXCEPT !.pid = nextpid]
  <1>1. TypeOK /\ proc[p] \in Thread /\ At(c, p, "fkLock") /\ "fkLock" \notin SpecialPcs /\ WorkOK(p)
    BY FieldTypes DEF ProcInv, ForkLock, SpecialPcs
  <1>2. np \in Procs /\ OnList(np, Unused) /\ Free(PLock(np)) /\ InKernel(c, p) /\ proc[p].yl = "none"
    BY <1>1 DEF WorkOK, At, InKernel, ForkLock
  <1>3. proc[np].state = "UNUSED" /\ proc[np] \in Thread
    BY <1>1, <1>2, ListedState, ListOfUnused, FieldTypes, Names
  <1>4. p # np
    BY <1>2, <1>3, InKernelRuns
  <1>5. "fkTake" \in Labels /\ nextpid \in Nat
    BY <1>1 DEF Labels, TypeOK
  <1>6. t \in Thread /\ t.pc = "fkTake" /\ t.loc = np /\ t.state = proc[p].state /\ t.yl = proc[p].yl
    BY <1>1, <1>5 DEF Thread
  <1>7. /\ u \in Thread /\ u.state = proc[np].state /\ u.yl = proc[np].yl /\ u.pc = proc[np].pc
        /\ u.loc = proc[np].loc
    BY <1>3, <1>5 DEF Thread
  <1>8. Puts(p, t, np, u)
    BY <1>1, <1>2, <1>4 DEF Puts, ForkLock, TypeOK
  <1>9. cpu' = cpu /\ list' = list /\ nextpid' \in Nat
    BY SMT, <1>5 DEF ForkLock
  <1>10. lock' = [lock EXCEPT ![PLock(np)] = c, ![Unused] = NoCpu]
    BY DEF ForkLock
  <1>11. LockMove(c, {Unused}, {PLock(np)}) /\ lock' \in [LockNames -> Cpus \cup {NoCpu}]
    BY <1>1, <1>2, <1>10, LockSwap, Names, NamesDiffer
  <1>a. np = proc[p].loc
    OBVIOUS
  <1> HIDE DEF t, u, np
  <1>12. Stays(proc[p], t) /\ Still(proc[np], u) /\ t \in Thread /\ u \in Thread /\ np \in Procs
    BY <1>2, <1>6, <1>7 DEF LockPcs, SpecialPcs, ForkPcs, Stays, Still
  <1>13. TypeOK' /\ Local(c, p) /\ proc'[p] = t
    BY <1>1, <1>4, <1>8, <1>9, <1>11, <1>12, LocalPuts
  <1>14. WorkOK(p)'
    BY <1>a, <1>2, <1>3, <1>4, <1>6, <1>9, <1>13 DEF WorkOK, OnList, Local, SameThread
  <1>15. Kept(p) = {Unused} /\ Kept(p)' = {PLock(np)}
    BY <1>1, <1>2, <1>6, <1>13 DEF Kept, At
  <1>16. LockMove(c, Kept(p), Kept(p)')
    BY <1>11, <1>15
  <1>17. QED
    BY <1>13, <1>14, <1>16, LocalStep

\* The end of fork() after a failed allocation keeps the invariant.
LEMMA ForkFailOK ==
  ASSUME ProcInv, NEW c \in Cpus, NEW p \in Procs, ForkFail(c, p)
  PROVE  ProcInv'
  <1> DEFINE l == IF list[Zombie] = << >> THEN "panic" ELSE "wild"
             t == [proc[p] EXCEPT !.pc = l]
  <1>1. TypeOK /\ proc[p] \in Thread /\ At(c, p, "fkFail") /\ "fkFail" \notin SpecialPcs /\ WorkOK(p)
    BY FieldTypes DEF ProcInv, ForkFail, SpecialPcs
  <1>2. /\ proc[p].loc \in Procs /\ proc[proc[p].loc].state = "USED"
        /\ InKernel(c, p) /\ cpu[c].wk = "none" /\ proc[p].yl = "none" /\ proc[p].pc = "fkFail"
    BY <1>1 DEF WorkOK, At, InKernel
  <1>3. l \in Labels /\ l \in {"panic", "wild"}
    BY DEF Labels
  <1>4. /\ proc' = [proc EXCEPT ![p] = t] /\ cpu' = cpu /\ list' = list /\ nextpid' = nextpid
        /\ lock' = lock
    BY <1>1 DEF ForkFail, TypeOK
  <1> HIDE DEF l
  <1>5. t \in Thread /\ t.pc = l /\ t.loc = proc[p].loc /\ t.state = proc[p].state /\ t.yl = proc[p].yl
    BY <1>1, <1>3, MovePc
  <1> HIDE DEF t
  <1>6. LockMove(c, Kept(p), Kept(p)) /\ lock' \in [LockNames -> Cpus \cup {NoCpu}]
    BY <1>2, <1>4, LockStay
  <1>7. t.pc \in FreePcs \cup LockPcs /\ t.pc \notin SpecialPcs /\ t.pc \notin ForkPcs
    BY <1>3, <1>5 DEF LockPcs, SpecialPcs, ForkPcs
  <1>8. TypeOK' /\ Local(c, p) /\ proc'[p] = t
    BY <1>1, <1>4, <1>5, <1>6, <1>7, LocalPut
  <1>9. proc[p].loc # p
    BY <1>2, InKernelRuns
  <1>10. proc'[proc[p].loc].state = "USED"
    BY <1>2, <1>8, <1>9 DEF Local, SameThread
  <1>11. WorkOK(p)'
    BY <1>2, <1>3, <1>5, <1>8, <1>10 DEF WorkOK
  <1>12. Kept(p) = Kept(p)'
    BY <1>2, <1>3, <1>5, <1>8, NoNames DEF Kept
  <1>13. LockMove(c, Kept(p), Kept(p)')
    BY <1>6, <1>12
  <1>14. QED
    BY <1>8, <1>11, <1>13, LocalStep

\* fork() setting np->parent keeps the invariant.
LEMMA ForkParentOK ==
  ASSUME ProcInv, NEW c \in Cpus, NEW p \in Procs, ForkParent(c, p)
  PROVE  ProcInv'
  <1> DEFINE np == proc[p].loc
             t == [proc[p] EXCEPT !.pc = "fkReady"]
             u == [proc[np] EXCEPT !.parent = p]
  <1>1. /\ TypeOK /\ proc[p] \in Thread /\ At(c, p, "fkParent") /\ "fkParent" \notin SpecialPcs
        /\ "fkParent" \in FreePcs /\ WorkOK(p)
    BY FieldTypes DEF ProcInv, ForkParent, SpecialPcs, FreePcs
  <1>2. /\ np \in Procs /\ proc[np].state = "USED" /\ InKernel(c, p) /\ proc[p].yl = "none"
        /\ proc[p].pc = "fkParent"
    BY <1>1 DEF WorkOK, At, InKernel
  <1>3. p # np /\ proc[np] \in Thread
    BY <1>1, <1>2, InKernelRuns, FieldTypes
  <1>4. "fkReady" \in Labels
    BY DEF Labels
  <1>5. t \in Thread /\ t.pc = "fkReady" /\ t.loc = np /\ t.state = proc[p].state /\ t.yl = proc[p].yl
    BY <1>1, <1>4 DEF Thread
  <1>6. /\ u \in Thread /\ u.state = proc[np].state /\ u.yl = proc[np].yl /\ u.pc = proc[np].pc
        /\ u.loc = proc[np].loc
    BY <1>3 DEF Thread
  <1>7. Puts(p, t, np, u)
    BY <1>1, <1>2, <1>3 DEF Puts, ForkParent, TypeOK
  <1>8. cpu' = cpu /\ list' = list /\ nextpid' \in Nat /\ lock' = lock
    BY <1>1 DEF ForkParent, TypeOK
  <1>9. LockMove(c, Kept(p), {}) /\ lock' \in [LockNames -> Cpus \cup {NoCpu}]
    BY <1>1, <1>8, FreeStay
  <1>a. np = proc[p].loc
    OBVIOUS
  <1> HIDE DEF t, u, np
  <1>10. /\ Stays(proc[p], t) /\ Still(proc[np], u) /\ t \in Thread /\ u \in Thread /\ np \in Procs
         /\ p # np
    BY <1>3, <1>a, <1>2, <1>5, <1>6 DEF FreePcs, SpecialPcs, Stays, Still
  <1>11. TypeOK' /\ Local(c, p) /\ proc'[p] = t
    BY <1>1, <1>7, <1>8, <1>9, <1>10, LocalPuts
  <1>12. WorkOK(p)'
    BY <1>a, <1>2, <1>3, <1>5, <1>11 DEF WorkOK, Local, SameThread
  <1>13. Kept(p)' = {}
    BY <1>2, <1>5, <1>11 DEF Kept
  <1>14. LockMove(c, Kept(p), Kept(p)')
    BY <1>9, <1>13
  <1>15. QED
    BY <1>11, <1>12, <1>14, LocalStep

\* kill() passing an entry with another pid keeps the invariant.
LEMMA KillPassOK ==
  ASSUME ProcInv, NEW c \in Cpus, NEW p \in Procs, KillPass(c, p)
  PROVE  ProcInv'
  <1> DEFINE i == proc[p].loc
             t == [proc[p] EXCEPT !.loc = i + 1]
  <1>1. /\ TypeOK /\ proc[p] \in Thread /\ At(c, p, "kill") /\ "kill" \notin SpecialPcs
        /\ "kill" \in FreePcs /\ WorkOK(p)
    BY FieldTypes DEF ProcInv, KillPass, SpecialPcs, FreePcs
  <1>2. i \in Procs /\ proc[p].pc = "kill"
    BY <1>1 DEF WorkOK, At
  <1>3. cpu' = cpu /\ list' = list /\ nextpid' = nextpid /\ lock' = lock
    BY DEF KillPass
  <1>4. LockMove(c, Kept(p), {}) /\ lock' \in [LockNames -> Cpus \cup {NoCpu}]
    BY <1>1, <1>3, FreeStay
  <1>5. CASE i + 1 = NPROC
    <2>1. proc' = [proc EXCEPT ![p] = Done(proc[p])]
      BY <1>5 DEF KillPass
    <2>2. QED
      BY <1>1, <1>3, <1>4, <2>1, DoneStep
  <1>6. CASE i + 1 # NPROC
    <2>1. proc' = [proc EXCEPT ![p] = t]
      BY <1>6 DEF KillPass
    <2>2. i + 1 \in Procs /\ i + 1 \in 0 .. NPROC
      BY SMT, <1>2, <1>6, ProcAssumption DEF Procs
    <2>3. t \in Thread /\ t.pc = "kill" /\ t.loc = i + 1 /\ t.state = proc[p].state /\ t.yl = proc[p].yl
      BY <1>1, <1>2, <2>2 DEF Thread
    <2> HIDE DEF t
    <2>4. t.pc \in FreePcs \cup LockPcs /\ t.pc \notin SpecialPcs /\ t.pc \notin ForkPcs
      BY <2>3 DEF FreePcs, SpecialPcs, ForkPcs
    <2>5. TypeOK' /\ Local(c, p) /\ proc'[p] = t
      BY <1>1, <1>3, <1>4, <2>1, <2>3, <2>4, LocalPut
    <2>6. WorkOK(p)'
      BY <2>2, <2>3, <2>5 DEF WorkOK
    <2>7. proc[p].yl = "none"
      BY <1>1 DEF At, InKernel
    <2>8. Kept(p)' = {}
      BY <2>3, <2>5, <2>7 DEF Kept
    <2>9. LockMove(c, Kept(p), Kept(p)')
      BY <1>4, <2>8
    <2>10. QED
      BY <2>5, <2>6, <2>9, LocalStep
  <1>7. QED
    BY <1>5, <1>6

\* kill() of a process that is not asleep keeps the invariant.
LEMMA KillMarkOK ==
  ASSUME ProcInv, NEW c \in Cpus, NEW p \in Procs, KillMark(c, p)
  PROVE  ProcInv'
  <1> DEFINE i == proc[p].loc
  <1>1. /\ TypeOK /\ proc[p] \in Thread /\ At(c, p, "kill") /\ "kill" \notin SpecialPcs
        /\ "kill" \in FreePcs /\ WorkOK(p)
    BY FieldTypes DEF ProcInv, KillMark, SpecialPcs, FreePcs
  <1>2. i \in Procs /\ proc[p].pc = "kill"
    BY <1>1 DEF WorkOK, At
  <1>3. cpu' = cpu /\ list' = list /\ nextpid' = nextpid /\ lock' = lock
    BY DEF KillMark
  <1>4. LockMove(c, Kept(p), {}) /\ lock' \in [LockNames -> Cpus \cup {NoCpu}]
    BY <1>1, <1>3, FreeStay
  <1> DEFINE t == Done(proc[p])
  <1>5. t \in Thread /\ t.pc = "sysret" /\ t.state = proc[p].state /\ t.yl = proc[p].yl
    BY <1>1, DoneIs
  <1>6. proc' = [[proc EXCEPT ![p] = t] EXCEPT ![i].killed = TRUE]
    BY DEF KillMark
  <1> HIDE DEF t
  <1>7. CASE i = p
    <2> DEFINE v == [t EXCEPT !.killed = TRUE]
    <2>1. proc' = [proc EXCEPT ![p] = v]
      BY <1>1, <1>6, <1>7 DEF TypeOK
    <2>2. v \in Thread /\ v.pc = "sysret" /\ v.state = proc[p].state /\ v.yl = proc[p].yl
      BY <1>5 DEF Thread
    <2> HIDE DEF v
    <2>3. v.pc \in CallPcs
      BY <2>2 DEF CallPcs
    <2>4. QED
      BY <1>1, <1>3, <1>4, <2>1, <2>2, <2>3, ReturnStep
  <1>8. CASE i # p
    <2> DEFINE u == [proc[i] EXCEPT !.killed = TRUE]
    <2>1. Puts(p, t, i, u) /\ p # i
      BY <1>1, <1>2, <1>6, <1>8 DEF Puts, TypeOK
    <2>2. proc[i] \in Thread
      BY <1>1, <1>2, FieldTypes
    <2>3. /\ u \in Thread /\ u.state = proc[i].state /\ u.yl = proc[i].yl /\ u.pc = proc[i].pc
          /\ u.loc = proc[i].loc
      BY <2>2 DEF Thread
    <2> HIDE DEF u, i
    <2>4. Stays(proc[p], t) /\ Still(proc[i], u) /\ t \in Thread /\ u \in Thread /\ nextpid' \in Nat
      BY <1>1, <1>3, <1>5, <2>3 DEF FreePcs, SpecialPcs, ForkPcs, TypeOK, Stays, Still
    <2>5. TypeOK' /\ Local(c, p) /\ proc'[p] = t
      BY <1>1, <1>2, <1>3, <1>4, <2>1, <2>4, LocalPuts
    <2>6. WorkOK(p)'
      BY <1>5, <2>5 DEF WorkOK
    <2>7. proc[p].yl = "none"
      BY <1>1 DEF At, InKernel
    <2>8. Kept(p)' = {}
      BY <1>5, <2>5, <2>7 DEF Kept
    <2>9. LockMove(c, Kept(p), Kept(p)')
      BY <1>4, <2>8
    <2>10. QED
      BY <2>5, <2>6, <2>9, LocalStep
  <1>9. QED
    BY <1>7, <1>8

-----------------------------------------------------------------------------
(* Steps that move no process on a list, and change no state               *)

\* Only the current thread of c and its record move.
Quiet(c) ==
  /\ list' = list /\ cpu'[c].proc = cpu[c].proc /\ cpu'[c].sched = cpu[c].sched
  /\ \A d \in Cpus : d # c => cpu'[d] = cpu[d]
  /\ \A q \in Procs : proc'[q].state = proc[q].state /\ (q # cpu[c].proc => SameThread(q))
  /\ cpu[c].sched \in {"loop", "run"}
  /\ Adds(c) = {} /\ Adds(c)' = {}

\* A step of c that changes no state and no list.
LEMMA QuietStep ==
  ASSUME ProcInv, TypeOK', NEW c \in Cpus, Quiet(c), LockMove(c, Held(c), Held(c)'), CpuOK(c)',
         ForksApart', cpu[c].proc # Nil => ThreadOK(cpu[c].proc)' /\ WorkOK(cpu[c].proc)'
  PROVE  ProcInv'
  <1> DEFINE X == {cpu[c].proc} \ {Nil}
  <1>0. X = {cpu[c].proc} \ {Nil}
    OBVIOUS
  <1> HIDE DEF X
  <1>1. TypeOK /\ cpu[c].proc \in Procs \cup {Nil} /\ Nil \notin Procs
    BY FieldTypes, NoNames DEF ProcInv
  <1>2. Takes(c) = {} /\ Takes(c)' = {}
    BY DEF Takes, Quiet
  <1>3. \A x \in X : Owned(c, x) /\ x \in Procs /\ cpu[c].proc = x
    BY <1>0, <1>1, OwnRunning
  <1>4. StepOf(c, X)
    BY <1>0, <1>1, <1>2, <1>3 DEF StepOf, Quiet
  <1>5. ListMove(c, X) /\ ListedOnce'
    BY SMT DEF ProcInv, ListMove, ListedOnce, OnList, Quiet
  <1>6. ASSUME NEW x \in X PROVE Listed(x)'
    <2>1. \A d \in Cpus : Adds(d)' = Adds(d) /\ Takes(d)' = Takes(d)
      <3> TAKE d \in Cpus
      <3>1. CASE d = c
        BY <1>2, <3>1 DEF Quiet
      <3>2. CASE d # c
        BY <1>4, <3>2, OthersSame
      <3>3. QED
        BY <3>1, <3>2
    <2>2. proc'[x].state = proc[x].state
      BY <1>3 DEF Quiet
    <2>3. Place(x)' = Place(x)
      BY <2>1, <2>2 DEF Place
    <2>4. Listed(x)
      BY <1>3 DEF ProcInv
    <2>5. QED
      BY <2>3, <2>4 DEF Listed, OnList, Quiet
  <1>7. \A x \in X : ThreadOK(x)' /\ WorkOK(x)' /\ Listed(x)'
    <2>1. CASE cpu[c].proc = Nil
      BY <1>0, <2>1
    <2>2. CASE cpu[c].proc # Nil
      <3>1. cpu'[c].proc = cpu[c].proc
        BY DEF Quiet
      <3>2. X = {cpu[c].proc}
        BY <1>0, <2>2
      <3>3. \A x \in X : ThreadOK(x)' /\ WorkOK(x)'
        BY <2>2, <3>1, <3>2 DEF ThreadOK, WorkOK
      <3>4. QED
        BY <1>6, <3>3
    <2>3. QED
      BY <2>1, <2>2
  <1>8. \A x \in X : proc[x].state # "USED"
    <2> TAKE x \in X
    <2>1. x \in Procs /\ cpu[c].proc = x /\ CpuOK(c)
      BY <1>3 DEF ProcInv
    <2>2. QED
      BY <1>1, <2>1 DEF CpuOK, Quiet
  <1>9. \A q \in Procs, x \in X : q \notin X /\ proc[q].pc \in {"fkParent", "fkReady"} => proc[q].loc # x
    BY <1>3, <1>8, RunningNotForked
  <1>10. QED
    BY <1>4, <1>5, <1>7, <1>9, Assemble

-----------------------------------------------------------------------------
(* Interrupts                                                              *)

\* An interrupt begins: it takes its lock k and calls wakeup().
LEMMA IntrBegins ==
  ASSUME ProcInv, NEW c \in Cpus, Interruptible(c), NEW k \in {TicksLock, DiskLock}, Acquire(c, k),
         proc' \in [Procs -> Thread], \A q \in Procs : SameThread(q),
         NEW ch \in Chans \cup {Nil}, NEW i \in {"clock", "disk"},
         k = IF i = "clock" THEN TicksLock ELSE DiskLock,
         cpu' = [cpu EXCEPT ![c] = [WakeBegin(cpu[c], ch) EXCEPT !.intr = i]],
         list' = list, nextpid' = nextpid
  PROVE  ProcInv'
  <1> DEFINE p == cpu[c].proc
             r == WakeBegin(cpu[c], ch)
             s == [r EXCEPT !.intr = i]
  <1>1. /\ cpu[c].intr = "none" /\ cpu[c].wk = "none" /\ Held(c) = {} /\ Adds(c) = {}
        /\ cpu[c].sched \in {"loop", "run"} /\ (cpu[c].sched = "loop" => p = Nil)
        /\ cpu[c].sched = "run" => /\ p \in Procs /\ proc[p].yl = "none" /\ proc[p].pc \in FreePcs
                                   /\ proc[p].state = "RUNNING"
    BY InterruptibleIs
  <1>2. TypeOK /\ CpuOK(c) /\ cpu[c] \in Cpu
    BY FieldTypes DEF ProcInv
  <1>3. /\ r \in Cpu /\ r.wk = "scan"
        /\ r.proc = cpu[c].proc /\ r.sched = cpu[c].sched /\ r.pick = cpu[c].pick /\ r.intr = cpu[c].intr
    BY <1>2, WakeBeginIs
  <1> HIDE DEF r
  <1>4. /\ s \in Cpu /\ s.wk = "scan" /\ s.intr = i
        /\ s.proc = cpu[c].proc /\ s.sched = cpu[c].sched /\ s.pick = cpu[c].pick
    BY <1>3 DEF Cpu
  <1>5. cpu' = [cpu EXCEPT ![c] = s]
    BY DEF r
  <1> HIDE DEF s
  <1>6. cpu' \in [Cpus -> Cpu] /\ cpu'[c] = s /\ \A d \in Cpus : d # c => cpu'[d] = cpu[d]
    BY <1>2, <1>4, <1>5, PutCpu
  <1>7. /\ cpu'[c].wk = "scan" /\ cpu'[c].intr = i /\ cpu'[c].proc = p
        /\ cpu'[c].sched = cpu[c].sched
    BY <1>4, <1>6
  <1>8. k \in LockNames
    BY Names
  <1>9. LockMove(c, Held(c), Held(c) \cup {k}) /\ lock' \in [LockNames -> Cpus \cup {NoCpu}]
    BY <1>8, HeldTake
  <1>10. TypeOK'
    BY <1>2, <1>6, <1>9 DEF TypeOK
  <1>11. cpu[c].sched = "run" => SameThread(p)
    BY <1>1
  <1>12. Adds(c)' = {}
    BY <1>1, <1>7, <1>11 DEF Adds, SameThread, FreePcs
  <1>13. Quiet(c)
    BY <1>1, <1>6, <1>7, <1>12 DEF Quiet, SameThread
  <1>14. Held(c)' = {k}
    <2>1. SchedKept(c)' = {}
      BY <1>1, <1>7, <1>11 DEF SchedKept, Kept, SameThread, FreePcs
    <2>2. IntrKept(c)' = {k} /\ WakeKept(c)' = {}
      BY <1>7 DEF IntrKept, WakeKept
    <2>3. QED
      BY <2>1, <2>2 DEF Held
  <1>15. LockMove(c, Held(c), Held(c)')
    <2>1. Held(c) \cup {k} = Held(c)'
      BY <1>1, <1>14
    <2>2. QED
      BY <1>9, <2>1
  <1>16. CpuOK(c)'
    BY <1>1, <1>2, <1>7, <1>11 DEF CpuOK, SameThread
  <1>17. ForksApart'
    BY DEF ProcInv, ForksApart, SameThread
  <1>18. ASSUME p # Nil PROVE ThreadOK(p)' /\ WorkOK(p)'
    <2>1. p \in Procs /\ cpu[c].sched = "run" /\ SameThread(p) /\ ThreadOK(p) /\ WorkOK(p)
      BY <1>1, <1>11, <1>18 DEF ProcInv
    <2>2. \A q \in Procs : proc'[q].state = proc[q].state /\ proc'[q].loc = proc[q].loc /\ proc'[q].pc = proc[q].pc
      BY DEF SameThread
    <2>3. ThreadOK(p)'
      BY <1>1, <1>7, <2>1 DEF ThreadOK, SameThread
    <2>4. WorkOK(p)'
      BY <1>7, <2>1, <2>2 DEF WorkOK, OnList
    <2>5. QED
      BY <2>3, <2>4
  <1>19. QED
    BY <1>10, <1>13, <1>15, <1>16, <1>17, <1>18, QuietStep

\* clockintr() keeps the invariant.
LEMMA ClockIntrOK ==
  ASSUME ProcInv, NEW c \in Cpus, ClockIntr(c)
  PROVE  ProcInv'
  <1>1. TypeOK /\ Interruptible(c) /\ Acquire(c, TicksLock) /\ list' = list /\ nextpid' = nextpid
    BY DEF ProcInv, ClockIntr
  <1>2. proc' = [p \in Procs |-> [proc[p] EXCEPT !.left = IF @ > 0 THEN @ - 1 ELSE 0]]
    BY DEF ClockIntr
  <1>3. ASSUME NEW q \in Procs
        PROVE  proc'[q] \in Thread /\ SameThread(q)
    <2>1. proc[q] \in Thread
      BY <1>1, FieldTypes
    <2> DEFINE n == IF proc[q].left > 0 THEN proc[q].left - 1 ELSE 0
    <2>2. n \in 0 .. TickMod - 1
      BY SMT, <2>1, ProcAssumption DEF Thread
    <2>3. proc'[q] = [proc[q] EXCEPT !.left = n]
      BY <1>2
    <2> HIDE DEF n
    <2>4. QED
      BY <2>1, <2>2, <2>3 DEF Thread, SameThread
  <1>4. proc' \in [Procs -> Thread]
    BY <1>2, <1>3
  <1>5. cpu' = [cpu EXCEPT ![c] = [WakeBegin(cpu[c], TickChan) EXCEPT !.intr = "clock"]]
    BY DEF ClockIntr
  <1>6. TickChan \in Chans \cup {Nil}
    BY SMT, ProcAssumption DEF TickChan, Chans
  <1>7. TicksLock = IF "clock" = "clock" THEN TicksLock ELSE DiskLock
    OBVIOUS
  <1>8. QED
    BY <1>1, <1>3, <1>4, <1>5, <1>6, <1>7, IntrBegins

\* virtio_disk_intr() keeps the invariant.
LEMMA DiskIntrOK ==
  ASSUME ProcInv, NEW c \in Cpus, NEW p \in Procs, DiskIntr(c, p)
  PROVE  ProcInv'
  <1>1. TypeOK /\ Interruptible(c) /\ Acquire(c, DiskLock) /\ list' = list /\ nextpid' = nextpid
    BY DEF ProcInv, DiskIntr
  <1> DEFINE t == [proc[p] EXCEPT !.disk = FALSE]
  <1>2. proc[p] \in Thread
    BY <1>1, FieldTypes
  <1>3. proc' = [proc EXCEPT ![p] = t]
    BY <1>1 DEF DiskIntr, TypeOK
  <1>4. t \in Thread /\ t.state = proc[p].state /\ t.pc = proc[p].pc /\ t.yl = proc[p].yl /\ t.loc = proc[p].loc
    BY <1>2 DEF Thread
  <1> HIDE DEF t
  <1>5. /\ proc' \in [Procs -> Thread] /\ proc'[p] = t
        /\ \A q \in Procs : q # p => proc'[q] = proc[q] /\ SameThread(q)
    BY <1>1, <1>3, <1>4, PutProc
  <1>6. \A q \in Procs : SameThread(q)
    BY <1>4, <1>5 DEF SameThread
  <1>7. cpu' = [cpu EXCEPT ![c] = [WakeBegin(cpu[c], BufChan(p)) EXCEPT !.intr = "disk"]]
    BY DEF DiskIntr
  <1>8. BufChan(p) \in Chans \cup {Nil}
    BY SMT, ProcAssumption DEF BufChan, Chans, Procs
  <1>9. DiskLock = IF "disk" = "clock" THEN TicksLock ELSE DiskLock
    OBVIOUS
  <1>10. QED
    BY <1>1, <1>5, <1>6, <1>7, <1>8, <1>9, IntrBegins

\* usertrap() and kerneltrap() end: the interrupted process exits, yields or goes on.
LEMMA EndTrapIs ==
  ASSUME ProcInv, NEW c \in Cpus, NEW timer \in BOOLEAN, EndTrap(c, timer), cpu[c].sched \in {"loop", "run"},
         cpu[c].sched = "loop" => cpu[c].proc = Nil,
         cpu[c].sched = "run" => /\ cpu[c].proc \in Procs /\ proc[cpu[c].proc].yl = "none"
                                 /\ proc[cpu[c].proc].pc \in FreePcs
  PROVE  LET p == cpu[c].proc
         IN  /\ proc' \in [Procs -> Thread]
             /\ \A q \in Procs : proc'[q].state = proc[q].state /\ (q # p => SameThread(q))
             /\ cpu[c].sched = "run" => /\ proc'[p].yl \in {"none", "lock"} /\ proc'[p].loc = proc[p].loc
                                        /\ proc'[p].pc \in FreePcs /\ proc'[p].pc \in {proc[p].pc, "exit"}
  <1> DEFINE p == cpu[c].proc
  <1>1. TypeOK
    BY DEF ProcInv
  <1>2. CASE cpu[c].sched = "loop"
    <2>1. proc' = proc
      BY <1>2 DEF EndTrap
    <2>2. QED
      BY <1>1, <1>2, <2>1 DEF TypeOK, SameThread
  <1>3. CASE cpu[c].sched = "run"
    <2>1. proc[p] \in Thread /\ p \in Procs /\ proc[p].yl = "none" /\ proc[p].pc \in FreePcs
      BY <1>1, <1>3, FieldTypes
    <2>2. PICK l \in {proc[p].pc, "exit"}, y \in {"none", "lock"} :
            proc' = [proc EXCEPT ![p] = [proc[p] EXCEPT !.pc = l, !.yl = y]]
      <3>1. CASE proc' = [proc EXCEPT ![p].pc = "exit"]
        <4>1. proc[p] = [proc[p] EXCEPT !.yl = "none"]
          BY <2>1 DEF Thread
        <4>2. [proc[p] EXCEPT !.pc = "exit"] = [proc[p] EXCEPT !.pc = "exit", !.yl = "none"]
          BY <2>1 DEF Thread
        <4>3. proc' = [proc EXCEPT ![p] = [proc[p] EXCEPT !.pc = "exit"]]
          BY <1>1, <2>1, <3>1 DEF TypeOK
        <4>4. QED
          BY <4>2, <4>3
      <3>2. CASE proc' = [proc EXCEPT ![p].yl = IF timer THEN "lock" ELSE @]
        <4> DEFINE y == IF timer THEN "lock" ELSE "none"
        <4>1. proc' = [proc EXCEPT ![p] = [proc[p] EXCEPT !.yl = y]]
          BY <1>1, <2>1, <3>2 DEF TypeOK
        <4>2. y \in {"none", "lock"}
          OBVIOUS
        <4> HIDE DEF y
        <4>3. [proc[p] EXCEPT !.yl = y] = [proc[p] EXCEPT !.pc = proc[p].pc, !.yl = y]
          BY <2>1 DEF Thread
        <4>4. QED
          BY <4>1, <4>2, <4>3
      <3>3. QED
        BY <1>3, <3>1, <3>2 DEF EndTrap
    <2> DEFINE t == [proc[p] EXCEPT !.pc = l, !.yl = y]
    <2>3. l \in FreePcs /\ l \in Labels
      BY <2>1, <2>2 DEF FreePcs, Labels
    <2>4. /\ t \in Thread /\ t.state = proc[p].state /\ t.loc = proc[p].loc /\ t.pc = l /\ t.yl = y
      BY <2>1, <2>2, <2>3 DEF Thread
    <2>5. proc' = [proc EXCEPT ![p] = t]
      BY <2>2
    <2> HIDE DEF t
    <2>6. /\ proc' \in [Procs -> Thread] /\ proc'[p] = t
          /\ \A q \in Procs : q # p => proc'[q] = proc[q] /\ SameThread(q)
      BY <1>1, <2>1, <2>4, <2>5, PutProc
    <2>7. QED
      BY <2>2, <2>3, <2>4, <2>6
  <1>4. QED
    BY <1>2, <1>3

\* What a thread knows of another stays as it is when states and lists do.
LEMMA WorkStays ==
  ASSUME NEW p \in Procs, WorkOK(p), proc'[p].pc = proc[p].pc, proc'[p].loc = proc[p].loc,
         \A q \in Procs : proc'[q].state = proc[q].state, list' = list
  PROVE  WorkOK(p)'
  BY DEF WorkOK, OnList

\* A step that ends an interrupt keeps the invariant.
LEMMA TrapEnds ==
  ASSUME ProcInv, NEW c \in Cpus, NEW timer \in BOOLEAN, EndTrap(c, timer), cpu[c].sched \in {"loop", "run"},
         cpu[c].sched = "loop" => cpu[c].proc = Nil,
         cpu[c].sched = "run" => /\ cpu[c].proc \in Procs /\ proc[cpu[c].proc].yl = "none"
                                 /\ proc[cpu[c].proc].pc \in FreePcs
                                 /\ proc[cpu[c].proc].state = "RUNNING",
         cpu' \in [Cpus -> Cpu], \A d \in Cpus : d # c => cpu'[d] = cpu[d],
         cpu'[c].proc = cpu[c].proc /\ cpu'[c].sched = cpu[c].sched,
         cpu'[c].intr = "none" /\ cpu'[c].wk = "none", Adds(c) = {},
         LockMove(c, Held(c), {}), lock' \in [LockNames -> Cpus \cup {NoCpu}],
         list' = list, nextpid' = nextpid
  PROVE  ProcInv'
  <1> DEFINE p == cpu[c].proc
  <1>1. /\ proc' \in [Procs -> Thread]
        /\ \A q \in Procs : proc'[q].state = proc[q].state /\ (q # p => SameThread(q))
        /\ cpu[c].sched = "run" => /\ proc'[p].yl \in {"none", "lock"} /\ proc'[p].loc = proc[p].loc
                                   /\ proc'[p].pc \in FreePcs /\ proc'[p].pc \in {proc[p].pc, "exit"}
    BY EndTrapIs
  <1>2. TypeOK /\ CpuOK(c)
    BY DEF ProcInv
  <1>3. TypeOK'
    BY <1>1, <1>2 DEF TypeOK
  <1>4. Adds(c)' = {}
    BY <1>1 DEF Adds, FreePcs
  <1>5. Quiet(c)
    BY <1>1, <1>4 DEF Quiet
  <1>6. Held(c)' = {}
    BY <1>1 DEF Held, SchedKept, IntrKept, WakeKept, Kept, FreePcs
  <1>7. LockMove(c, Held(c), Held(c)')
    BY <1>6
  <1>8. CpuOK(c)'
    <2>1. cpu[c].sched = "run" => proc'[p].state = "RUNNING" /\ proc'[p].pc # "exZombie"
      BY <1>1 DEF FreePcs
    <2>2. QED
      BY <1>1, <1>2, <2>1 DEF CpuOK
  <1>9. ForksApart'
    <2>1. \A q \in Procs : proc'[q].pc \in {"fkParent", "fkReady"} => proc'[q].pc = proc[q].pc /\ proc'[q].loc = proc[q].loc
      <3> TAKE q \in Procs
      <3>1. CASE q # p
        BY <1>1, <3>1 DEF SameThread
      <3>2. CASE q = p
        BY <1>1, <3>2, NoNames
      <3>3. QED
        BY <3>1, <3>2
    <2>2. ForksApart
      BY DEF ProcInv
    <2>3. QED
      BY <2>1, <2>2 DEF ForksApart
  <1>10. ASSUME p # Nil PROVE ThreadOK(p)' /\ WorkOK(p)'
    <2>1. cpu[c].sched = "run" /\ p \in Procs /\ proc'[p].state = "RUNNING" /\ WorkOK(p)
      BY <1>1, <1>10 DEF ProcInv
    <2>2. ThreadOK(p)'
      BY <1>1, <2>1 DEF ThreadOK
    <2>3. WorkOK(p)'
      <3>1. /\ cpu'[c].proc = p /\ proc'[p].loc = proc[p].loc
            /\ \A q \in Procs : proc'[q].state = proc[q].state
        BY <1>1, <2>1
      <3>2. CASE proc'[p].pc = "exit"
        BY <3>1, <3>2 DEF WorkOK
      <3>3. CASE proc'[p].pc = proc[p].pc
        <4>1. PICK x \in Procs : x = p
          BY <2>1
        <4>2. /\ WorkOK(x) /\ proc'[x].pc = proc[x].pc /\ proc'[x].loc = proc[x].loc
          BY <1>1, <2>1, <3>3, <4>1
        <4>3. WorkOK(x)'
          BY <3>1, <4>2, WorkStays
        <4>4. QED
          BY <3>1, <4>1, <4>3 DEF WorkOK
      <3>4. QED
        BY <1>1, <2>1, <3>2, <3>3
    <2>4. QED
      BY <2>2, <2>3
  <1>11. QED
    BY <1>3, <1>5, <1>7, <1>8, <1>9, <1>10, QuietStep

\* A timer interrupt on a CPU other than 0 keeps the invariant.
LEMMA PreemptOK ==
  ASSUME ProcInv, NEW c \in Cpus, Preempt(c)
  PROVE  ProcInv'
  <1>1. Interruptible(c) /\ EndTrap(c, TRUE) /\ cpu' = cpu /\ lock' = lock /\ list' = list /\ nextpid' = nextpid
    BY DEF Preempt
  <1>2. /\ cpu[c].intr = "none" /\ cpu[c].wk = "none" /\ Held(c) = {} /\ Adds(c) = {}
        /\ cpu[c].sched \in {"loop", "run"} /\ (cpu[c].sched = "loop" => cpu[c].proc = Nil)
        /\ cpu[c].sched = "run" => /\ cpu[c].proc \in Procs /\ proc[cpu[c].proc].yl = "none"
                                   /\ proc[cpu[c].proc].pc \in FreePcs
                                   /\ proc[cpu[c].proc].state = "RUNNING"
    BY <1>1, InterruptibleIs
  <1>3. LockMove(c, Held(c), Held(c)) /\ lock' \in [LockNames -> Cpus \cup {NoCpu}]
    BY <1>1, HeldStay
  <1>4. LockMove(c, Held(c), {}) /\ TRUE \in BOOLEAN
    BY <1>2, <1>3
  <1>5. cpu' \in [Cpus -> Cpu] /\ \A d \in Cpus : d # c => cpu'[d] = cpu[d]
    BY <1>1 DEF ProcInv, TypeOK
  <1>6. /\ cpu'[c].proc = cpu[c].proc /\ cpu'[c].sched = cpu[c].sched
        /\ cpu'[c].intr = "none" /\ cpu'[c].wk = "none"
    BY <1>1, <1>2
  <1>7. QED
    BY <1>1, <1>2, <1>3, <1>4, <1>5, <1>6, TrapEnds

\* The return from an interrupt handler keeps the invariant.
LEMMA IntrDoneOK ==
  ASSUME ProcInv, NEW c \in Cpus, IntrDone(c)
  PROVE  ProcInv'
  <1> DEFINE p == cpu[c].proc
             k == IF cpu[c].intr = "clock" THEN TicksLock ELSE DiskLock
             timer == cpu[c].intr = "clock"
             r == WakeEnd(cpu[c])
             s == [r EXCEPT !.intr = "none"]
  <1>1. /\ cpu[c].intr # "none" /\ cpu[c].wk = "scan" /\ Release(k) /\ EndTrap(c, timer)
        /\ cpu' = [cpu EXCEPT ![c] = s] /\ list' = list /\ nextpid' = nextpid
    BY DEF IntrDone, WakeDone
  <1>2. TypeOK /\ CpuOK(c) /\ cpu[c] \in Cpu /\ p \in Procs \cup {Nil}
    BY FieldTypes DEF ProcInv
  <1>3. /\ cpu[c].sched \in {"loop", "run"} /\ (cpu[c].sched = "loop" => p = Nil)
        /\ cpu[c].sched = "run" => /\ p \in Procs /\ proc[p].yl = "none" /\ proc[p].pc \in FreePcs
                                   /\ proc[p].state = "RUNNING"
    BY <1>1, <1>2 DEF CpuOK
  <1>4. Adds(c) = {}
    BY <1>1, <1>3 DEF Adds, FreePcs
  <1>5. Held(c) = {k}
    <2>1. SchedKept(c) = {}
      BY <1>3 DEF SchedKept, Kept, FreePcs
    <2>2. IntrKept(c) = {k} /\ WakeKept(c) = {}
      BY <1>1, <1>2 DEF IntrKept, WakeKept, Cpu
    <2>3. QED
      BY <2>1, <2>2 DEF Held
  <1>6. LockMove(c, Held(c), {}) /\ lock' \in [LockNames -> Cpus \cup {NoCpu}]
    <2>1. k \in Held(c) /\ Release(k)
      BY <1>1, <1>5
    <2>2. LockMove(c, Held(c), Held(c) \ {k}) /\ lock' \in [LockNames -> Cpus \cup {NoCpu}]
      BY <2>1, HeldDrop
    <2>3. Held(c) \ {k} = {}
      BY <1>5
    <2>4. QED
      BY <2>2, <2>3
  <1>7. r \in Cpu /\ r.wk = "none" /\ r.proc = p /\ r.sched = cpu[c].sched
    BY <1>2, WakeEndIs
  <1> HIDE DEF r
  <1>8. s \in Cpu /\ s.wk = "none" /\ s.intr = "none" /\ s.proc = p /\ s.sched = cpu[c].sched
    BY <1>7 DEF Cpu
  <1> HIDE DEF s
  <1>9. cpu' \in [Cpus -> Cpu] /\ cpu'[c] = s /\ \A d \in Cpus : d # c => cpu'[d] = cpu[d]
    BY <1>1, <1>2, <1>8, PutCpu
  <1>10. /\ cpu'[c].proc = cpu[c].proc /\ cpu'[c].sched = cpu[c].sched
         /\ cpu'[c].intr = "none" /\ cpu'[c].wk = "none"
    BY <1>8, <1>9
  <1>11. timer \in BOOLEAN
    OBVIOUS
  <1> HIDE DEF k, timer
  <1>12. QED
    BY <1>1, <1>3, <1>4, <1>6, <1>9, <1>10, <1>11, TrapEnds

\* wakeup() passing a process keeps the invariant.
LEMMA WakePassOK ==
  ASSUME ProcInv, NEW c \in Cpus, WakePass(c)
  PROVE  ProcInv'
  <1> DEFINE p == cpu[c].proc
             r == WakeNext(cpu[c])
  <1>1. /\ cpu[c].wk = "scan" /\ cpu[c].wi < NPROC /\ cpu' = [cpu EXCEPT ![c] = r]
        /\ proc' = proc /\ lock' = lock /\ list' = list /\ nextpid' = nextpid
    BY DEF WakePass
  <1>2. TypeOK /\ CpuOK(c) /\ cpu[c] \in Cpu /\ p \in Procs \cup {Nil}
    BY FieldTypes DEF ProcInv
  <1>3. /\ r \in Cpu /\ r.wk = "scan" /\ r.proc = p /\ r.sched = cpu[c].sched /\ r.pick = cpu[c].pick
        /\ r.intr = cpu[c].intr
    BY <1>1, <1>2, WakeNextIs
  <1> HIDE DEF r
  <1>4. cpu' \in [Cpus -> Cpu] /\ cpu'[c] = r /\ \A d \in Cpus : d # c => cpu'[d] = cpu[d]
    BY <1>1, <1>2, <1>3, PutCpu
  <1>5. /\ cpu'[c].proc = p /\ cpu'[c].sched = cpu[c].sched /\ cpu'[c].pick = cpu[c].pick
        /\ cpu'[c].intr = cpu[c].intr /\ cpu'[c].wk = "scan"
    BY <1>3, <1>4
  <1>6. TypeOK'
    BY <1>1, <1>2, <1>4 DEF TypeOK
  <1>7. cpu[c].sched \in {"loop", "run"}
    BY <1>1, <1>2 DEF CpuOK
  <1>8. Adds(c) = {} /\ Adds(c)' = {}
    BY <1>1, <1>2, <1>5 DEF Adds, CpuOK, FreePcs
  <1>9. Quiet(c)
    BY <1>1, <1>4, <1>5, <1>7, <1>8 DEF Quiet, SameThread
  <1>10. Held(c)' = Held(c)
    <2>1. Kept(p)' = Kept(p)
      BY <1>1, <1>5 DEF Kept
    <2>2. SchedKept(c)' = SchedKept(c)
      BY <1>5, <1>7, <2>1 DEF SchedKept
    <2>3. IntrKept(c)' = IntrKept(c) /\ WakeKept(c)' = WakeKept(c)
      BY <1>1, <1>5 DEF IntrKept, WakeKept
    <2>4. QED
      BY <2>2, <2>3 DEF Held
  <1>11. LockMove(c, Held(c), Held(c)')
    BY <1>1, <1>10, HeldStay
  <1>12. CpuOK(c)'
    BY <1>1, <1>2, <1>5, <1>7 DEF CpuOK
  <1>13. ForksApart'
    BY <1>1 DEF ProcInv, ForksApart
  <1>14. ASSUME p # Nil PROVE ThreadOK(p)' /\ WorkOK(p)'
    <2>1. p \in Procs /\ ThreadOK(p) /\ WorkOK(p)
      BY <1>2, <1>14 DEF ProcInv
    <2>2. \A d \in Cpus : cpu'[d].proc = cpu[d].proc
      BY <1>4, <1>5
    <2>3. ThreadOK(p)'
      BY <1>1, <2>1, <2>2 DEF ThreadOK, Ready
    <2>4. WorkOK(p)'
      BY <1>1, <1>5, <2>1 DEF WorkOK, OnList
    <2>5. QED
      BY <2>3, <2>4
  <1>15. QED
    BY <1>6, <1>9, <1>11, <1>12, <1>13, <1>14, QuietStep

-----------------------------------------------------------------------------
(* reparent()                                                              *)

\* A child goes to init, and the search goes on behind it: p moves in its loop.
LEMMA HandsOver ==
  ASSUME TypeOK, NEW p \in Procs, NEW k \in Procs,
         proc' = [proc EXCEPT ![k].parent = InitProc, ![p].loc = k + 1]
  PROVE  /\ proc' \in [Procs -> Thread]
         /\ \A q \in Procs : /\ proc'[q].state = proc[q].state /\ proc'[q].pc = proc[q].pc
                             /\ proc'[q].yl = proc[q].yl /\ (q # p => SameThread(q))
  <1> DEFINE u == [proc[k] EXCEPT !.parent = InitProc]
             f == [proc EXCEPT ![k] = u]
             t == [f[p] EXCEPT !.loc = k + 1]
  <1>1. InitProc \in Procs /\ k + 1 \in 0 .. NPROC
    BY SMT, ProcAssumption DEF InitProc, Procs
  <1>2. proc[k] \in Thread /\ proc \in [Procs -> Thread]
    BY FieldTypes DEF TypeOK
  <1>3. /\ u \in Thread /\ u.state = proc[k].state /\ u.pc = proc[k].pc /\ u.yl = proc[k].yl
        /\ u.loc = proc[k].loc
    BY <1>1, <1>2 DEF Thread
  <1>4. proc' = [f EXCEPT ![p] = t]
    BY <1>2
  <1> HIDE DEF u
  <1>5. /\ f \in [Procs -> Thread]
        /\ \A q \in Procs : /\ f[q].state = proc[q].state /\ f[q].pc = proc[q].pc
                            /\ f[q].yl = proc[q].yl /\ f[q].loc = proc[q].loc
    BY <1>2, <1>3
  <1> HIDE DEF f
  <1>6. f[p] \in Thread
    BY <1>5
  <1>7. t \in Thread /\ t.state = f[p].state /\ t.pc = f[p].pc /\ t.yl = f[p].yl
    BY <1>1, <1>6 DEF Thread
  <1> HIDE DEF t
  <1>8. QED
    BY SMT, <1>4, <1>5, <1>7 DEF SameThread

\* What one turn of reparent() changes.
LEMMA ReparentMoves ==
  ASSUME ProcInv, NEW c \in Cpus, NEW p \in Procs, Reparent(c, p)
  PROVE  /\ proc' \in [Procs -> Thread]
         /\ \A q \in Procs : proc'[q].state = proc[q].state /\ (q # p => SameThread(q))
         /\ proc'[p].yl = "none" /\ proc'[p].pc \in {"exReparent", "exZombie"}
         /\ \E ch \in Chans \cup {Nil} : cpu' = [cpu EXCEPT ![c] = WakeBegin(cpu[c], ch)]
  <1> DEFINE kids == KidsFrom(p, proc[p].loc)
             Over(k) == /\ proc' = [proc EXCEPT ![k].parent = InitProc, ![p].loc = k + 1]
                        /\ cpu' = [cpu EXCEPT ![c] = WakeBegin(cpu[c], InitProc)]
  <1>1. TypeOK /\ proc[p] \in Thread /\ proc[p].yl = "none" /\ proc[p].pc = "exReparent"
    BY FieldTypes DEF ProcInv, Reparent, InKernel
  <1>2. CASE \E k \in kids : Over(k)
    <2>1. PICK k \in kids : Over(k)
      BY <1>2
    <2>2. k \in Procs
      BY <2>1 DEF KidsFrom, Children
    <2>3. /\ proc' = [proc EXCEPT ![k].parent = InitProc, ![p].loc = k + 1]
          /\ cpu' = [cpu EXCEPT ![c] = WakeBegin(cpu[c], InitProc)]
      BY <2>1
    <2>4. /\ proc' \in [Procs -> Thread]
          /\ \A q \in Procs : /\ proc'[q].state = proc[q].state /\ proc'[q].pc = proc[q].pc
                              /\ proc'[q].yl = proc[q].yl /\ (q # p => SameThread(q))
      BY <1>1, <2>2, <2>3, HandsOver
    <2>5. InitProc \in Chans \cup {Nil}
      BY SMT, ProcAssumption DEF InitProc, Chans
    <2>6. QED
      BY <1>1, <2>3, <2>4, <2>5
  <1>3. CASE ~ \E k \in kids : Over(k)
    <2> DEFINE t == [proc[p] EXCEPT !.pc = "exZombie"]
    <2>1. /\ proc' = [proc EXCEPT ![p] = t]
          /\ cpu' = [cpu EXCEPT ![c] = WakeBegin(cpu[c], proc[p].parent)]
      BY <1>1, <1>3 DEF Reparent, TypeOK
    <2>2. "exZombie" \in Labels
      BY DEF Labels
    <2>3. t \in Thread /\ t.pc = "exZombie" /\ t.state = proc[p].state /\ t.yl = proc[p].yl
      BY <1>1, <2>2, MovePc
    <2> HIDE DEF t
    <2>4. /\ proc' \in [Procs -> Thread] /\ proc'[p] = t
          /\ \A q \in Procs : q # p => proc'[q] = proc[q] /\ SameThread(q)
      BY <1>1, <2>1, <2>3, PutProc
    <2>5. proc[p].parent \in Procs \cup {Nil}
      BY <1>1 DEF Thread
    <2>6. proc[p].parent \in Chans \cup {Nil}
      BY SMT, <2>5, ProcAssumption DEF Procs, Chans
    <2>7. QED
      BY <1>1, <2>1, <2>3, <2>4, <2>6
  <1>4. QED
    BY <1>2, <1>3

\* reparent() keeps the invariant.
LEMMA ReparentOK ==
  ASSUME ProcInv, NEW c \in Cpus, NEW p \in Procs, Reparent(c, p)
  PROVE  ProcInv'
  <1>1. /\ proc' \in [Procs -> Thread]
        /\ \A q \in Procs : proc'[q].state = proc[q].state /\ (q # p => SameThread(q))
        /\ proc'[p].yl = "none" /\ proc'[p].pc \in {"exReparent", "exZombie"}
    BY ReparentMoves
  <1>2. PICK ch \in Chans \cup {Nil} : cpu' = [cpu EXCEPT ![c] = WakeBegin(cpu[c], ch)]
    BY ReparentMoves
  <1>3. /\ lock' = lock /\ list' = list /\ nextpid' = nextpid
        /\ cpu[c].proc = p /\ cpu[c].sched = "run" /\ cpu[c].intr = "none" /\ proc[p].yl = "none"
        /\ proc[p].pc = "exReparent" /\ cpu[c].wk \in {"none", "scan"} /\ InKernel(c, p)
    BY DEF Reparent, InKernel, WakeDone
  <1>4. TypeOK /\ CpuOK(c) /\ cpu[c] \in Cpu /\ ThreadOK(p)
    BY FieldTypes DEF ProcInv
  <1> DEFINE r == WakeBegin(cpu[c], ch)
  <1>5. r \in Cpu /\ r.wk = "scan" /\ r.proc = p /\ r.sched = "run" /\ r.intr = "none"
    BY <1>3, <1>4, WakeBeginIs
  <1> HIDE DEF r
  <1>6. cpu' \in [Cpus -> Cpu] /\ cpu'[c] = r /\ \A d \in Cpus : d # c => cpu'[d] = cpu[d]
    BY <1>2, <1>4, <1>5, PutCpu DEF r
  <1>7. /\ cpu'[c].wk = "scan" /\ cpu'[c].intr = "none" /\ cpu'[c].proc = p /\ cpu'[c].sched = "run"
    BY <1>5, <1>6
  <1>8. LockMove(c, Held(c), Held(c)) /\ lock' \in [LockNames -> Cpus \cup {NoCpu}]
    BY <1>3, HeldStay
  <1>9. TypeOK'
    BY <1>1, <1>3, <1>4, <1>6, <1>8 DEF TypeOK
  <1>10. Adds(c) = {} /\ Adds(c)' = {}
    BY <1>1, <1>3, <1>7 DEF Adds
  <1>11. Quiet(c)
    BY <1>1, <1>3, <1>6, <1>7, <1>10 DEF Quiet
  <1>12. Kept(p) = {WaitLock} /\ Kept(p)' = {WaitLock}
    BY <1>1, <1>3 DEF Kept
  <1>13. Held(c) = Kept(p) /\ Held(c)' = Kept(p)'
    BY <1>3, <1>7 DEF Held, SchedKept, IntrKept, WakeKept
  <1>14. LockMove(c, Held(c), Held(c)')
    BY <1>8, <1>12, <1>13
  <1>15. proc[p].state = "RUNNING" /\ proc'[p].state = "RUNNING" /\ p # Nil
    BY <1>1, <1>3, InKernelRuns, NoNames
  <1>16. CpuOK(c)'
    BY <1>1, <1>7, <1>15 DEF CpuOK, LockPcs
  <1>17. ForksApart'
    <2>1. \A q \in Procs : proc'[q].pc \in ForkPcs => proc[q].pc \in ForkPcs /\ proc'[q].loc = proc[q].loc
      BY <1>1 DEF SameThread, ForkPcs
    <2>2. QED
      BY <2>1, ForksKept
  <1>18. ThreadOK(p)' /\ WorkOK(p)'
    BY <1>1, <1>7, <1>15 DEF ThreadOK, WorkOK
  <1>19. cpu[c].proc # Nil => ThreadOK(cpu[c].proc)' /\ WorkOK(cpu[c].proc)'
    BY <1>3, <1>7, <1>18 DEF ThreadOK, WorkOK
  <1>20. QED
    BY <1>9, <1>11, <1>14, <1>16, <1>17, <1>19, QuietStep

-----------------------------------------------------------------------------
(* Where the processes are that a step moves                               *)

NotOn(x) == \A k \in ListNames : ~OnList(x, k)

OnlyOn(x, k) == \A m \in ListNames : OnList(x, m) <=> m = k

\* No other CPU is about to put x on a list or to take it off.
LEMMA OthersLeave ==
  ASSUME ProcInv, NEW c \in Cpus, NEW X, StepOf(c, X), NEW x \in X, NEW d \in Cpus, d # c
  PROVE  x \notin Adds(d) /\ x \notin Takes(d) /\ x \notin Adds(d)' /\ x \notin Takes(d)'
  <1>1. Adds(d)' = Adds(d) /\ Takes(d)' = Takes(d)
    BY OthersSame
  <1>2. Owned(c, x)
    BY DEF StepOf
  <1>3. x \notin Adds(d)
    <2>1. SUFFICES ASSUME x \in Adds(d) PROVE FALSE
      OBVIOUS
    <2>2. lock[PLock(x)] = d
      BY <2>1, AddsLocked
    <2>3. QED
      BY <1>2, <2>2 DEF Owned
  <1>4. x \notin Takes(d)
    <2>1. SUFFICES ASSUME x \in Takes(d) PROVE FALSE
      OBVIOUS
    <2>2. lock[PLock(x)] = d
      BY <2>1, TakesLocked
    <2>3. QED
      BY <1>2, <2>2 DEF Owned
  <1>5. QED
    BY <1>1, <1>3, <1>4

\* A process is on no list while c is about to add it, ...
LEMMA ListedAdded ==
  ASSUME NEW c \in Cpus, NEW x, x \in Adds(c)', NotOn(x)'
  PROVE  Listed(x)'
  <1>1. Place(x)' = {}
    BY DEF Place
  <1>2. QED
    BY <1>1 DEF Listed, NotOn

\* ... on the list of its state, ...
LEMMA ListedOn ==
  ASSUME ProcInv, NEW c \in Cpus, NEW X, StepOf(c, X), NEW x \in X, x \notin Adds(c)',
         proc'[x].state # "RUNNING", NEW k \in ListNames, k \in ListOf(proc'[x].state), OnlyOn(x, k)'
  PROVE  Listed(x)'
  <1>1. \A d \in Cpus : x \notin Adds(d)'
    BY OthersLeave
  <1>2. Place(x)' = ListOf(proc'[x].state)
    BY <1>1 DEF Place
  <1>3. QED
    BY <1>2 DEF Listed, OnlyOn

\* ... or on none, because it runs or is being set up.
LEMMA ListedOff ==
  ASSUME ProcInv, NEW c \in Cpus, NEW X, StepOf(c, X), NEW x \in X, x \notin Adds(c)', x \notin Takes(c)',
         proc'[x].state \in {"RUNNING", "USED"}, NotOn(x)'
  PROVE  Listed(x)'
  <1>1. \A d \in Cpus : x \notin Adds(d)' /\ x \notin Takes(d)'
    BY OthersLeave
  <1>2. Place(x)' = {}
    BY <1>1 DEF Place, ListOf
  <1>3. QED
    BY <1>2 DEF Listed, NotOn

\* A process that is about to be put on a list is on none.
LEMMA AddedOff ==
  ASSUME ProcInv, NEW c \in Cpus, NEW x \in Adds(c)
  PROVE  x \in Procs /\ NotOn(x)
  <1>1. x \in Procs
    BY AddsLocked
  <1>2. Place(x) = {} /\ Listed(x)
    BY <1>1 DEF Place, ProcInv
  <1>3. QED
    BY <1>1, <1>2 DEF Listed, NotOn

\* A thread that runs is on no list, nor is an entry that fork() fills in.
LEMMA RunningOff ==
  ASSUME ProcInv, NEW c \in Cpus, NEW p \in Procs, cpu[c].proc = p, cpu[c].sched = "run",
         proc[p].state = "RUNNING"
  PROVE  NotOn(p) /\ \A d \in Cpus : p \notin Adds(d) /\ p \notin Takes(d)
  <1>1. Owned(c, p)
    BY OwnRunning
  <1>2. ASSUME NEW d \in Cpus PROVE p \notin Adds(d)
    <2>1. SUFFICES ASSUME p \in Adds(d) PROVE FALSE
      OBVIOUS
    <2>2. proc[p].state \in {"RUNNABLE", "UNUSED"}
      BY <2>1, AddsLocked
    <2>3. QED
      BY <2>2
  <1>3. ASSUME NEW d \in Cpus PROVE p \notin Takes(d)
    <2>1. SUFFICES ASSUME p \in Takes(d) PROVE FALSE
      OBVIOUS
    <2>2. cpu[d].proc = p /\ cpu[d].sched = "take"
      BY <2>1, TakesLocked DEF Takes
    <2>3. QED
      BY <1>1, <2>2 DEF Owned
  <1>4. Place(p) = {} /\ Listed(p)
    BY <1>2, <1>3 DEF Place, ProcInv
  <1>5. NotOn(p)
    BY <1>4 DEF Listed, NotOn
  <1>6. QED
    BY <1>2, <1>3, <1>5

\* An entry that fork() is setting up is on no list.
LEMMA UsedOff ==
  ASSUME ProcInv, NEW x \in Procs, proc[x].state = "USED"
  PROVE  NotOn(x) /\ \A d \in Cpus : x \notin Adds(d) /\ x \notin Takes(d)
  <1>1. ASSUME NEW d \in Cpus PROVE x \notin Adds(d) /\ x \notin Takes(d)
    <2>1. x \in Adds(d) => proc[x].state \in {"RUNNABLE", "UNUSED"}
      BY AddsLocked
    <2>2. x \in Takes(d) => proc[x].state = "RUNNING"
      BY TakesLocked
    <2>3. QED
      BY <2>1, <2>2
  <1>2. Place(x) = {} /\ Listed(x)
    BY <1>1 DEF Place, ProcInv, ListOf
  <1>3. QED
    BY <1>1, <1>2 DEF Listed, NotOn

\* A process in state st that no one is moving is on the list of st, and on no other.
LEMMA FreeListed ==
  ASSUME ProcInv, NEW x \in Procs, Free(PLock(x)), NEW k \in ListNames, ListOf(proc[x].state) = {k}
  PROVE  OnlyOn(x, k) /\ OnList(x, k)
  <1>1. \A d \in Cpus : x \notin Adds(d) /\ x \notin Takes(d)
    <2> TAKE d \in Cpus
    <2>1. x \in Adds(d) => lock[PLock(x)] = d
      BY AddsLocked
    <2>2. x \in Takes(d) => lock[PLock(x)] = d
      BY TakesLocked
    <2>3. QED
      BY <2>1, <2>2, NoNames DEF Free
  <1>2. proc[x].state # "RUNNING"
    BY DEF ListOf
  <1>3. Place(x) = {k} /\ Listed(x)
    BY <1>1, <1>2 DEF Place, ProcInv
  <1>4. QED
    BY <1>3 DEF Listed, OnlyOn

-----------------------------------------------------------------------------
(* sleep() and the end of exit()                                           *)

Leaving(t, k) ==
  \/ t.state = "SLEEPING" /\ t.pc \in AsleepPcs /\ k = Sleeping
  \/ t.state = "ZOMBIE" /\ t.pc = "none" /\ k = Zombie

\* A thread that gives up its CPU for list k, with its own lock held, keeps the invariant.
LEMMA LeaveStep ==
  ASSUME ProcInv, NEW c \in Cpus, NEW p \in Procs, InKernel(c, p), cpu[c].wk # "add",
         NEW lk \in LockNames, Kept(p) = {lk}, lk # PLock(p), Free(PLock(p)),
         lock' = [lock EXCEPT ![PLock(p)] = c, ![lk] = NoCpu],
         NEW t \in Thread, proc' = [proc EXCEPT ![p] = t], NEW k, Leaving(t, k), t.yl = "none", Enlist(k, p),
         NEW r \in Cpu, cpu' = [cpu EXCEPT ![c] = r], r.proc = p, r.sched = "back", r.intr = "none",
         r.wk = "none", nextpid' = nextpid, proc[p].pc \in (LockPcs \ SpecialPcs) \cup {"exZombie"}
  PROVE  ProcInv'
  <1> DEFINE X == {p}
  <1>0. X = {p}
    OBVIOUS
  <1> HIDE DEF X
  <1>1. TypeOK /\ ListedOnce /\ cpu[c].proc = p /\ cpu[c].sched = "run" /\ cpu[c].intr = "none" /\ proc[p].yl = "none"
    BY DEF ProcInv, InKernel
  <1>2. proc[p].state = "RUNNING" /\ Owned(c, p)
    BY InKernelRuns
  <1>3. NotOn(p)
    BY <1>1, <1>2, RunningOff
  <1>4. k \in ListNames /\ k \in ListOf(t.state) /\ k \in {Sleeping, Zombie}
    BY Names DEF Leaving, ListOf
  <1>5. /\ list' \in [ListNames -> Seq(Procs)] /\ ListedOnce'
        /\ \A q \in Procs, m \in ListNames : q # p => (OnList(q, m)' <=> OnList(q, m))
        /\ \A m \in ListNames : OnList(p, m)' <=> m = k
    BY <1>1, <1>3, <1>4, Joins DEF NotOn
  <1>6. /\ proc' \in [Procs -> Thread] /\ proc'[p] = t
        /\ \A q \in Procs : q # p => proc'[q] = proc[q] /\ SameThread(q)
    BY <1>1, PutProc
  <1>7. cpu' \in [Cpus -> Cpu] /\ cpu'[c] = r /\ \A d \in Cpus : d # c => cpu'[d] = cpu[d]
    BY <1>1, PutCpu
  <1>8. LockMove(c, {lk}, {PLock(p)}) /\ lock' \in [LockNames -> Cpus \cup {NoCpu}]
    BY <1>1, LockSwap, Names
  <1>9. TypeOK'
    BY <1>1, <1>5, <1>6, <1>7, <1>8 DEF TypeOK
  <1>10. Held(c) = {lk} /\ Held(c)' = {PLock(p)}
    BY <1>1, <1>7 DEF Held, SchedKept, IntrKept, WakeKept
  <1>11. LockMove(c, Held(c), Held(c)')
    BY <1>8, <1>10
  <1>12. Adds(c) = {} /\ Adds(c)' = {} /\ Takes(c) = {} /\ Takes(c)' = {}
    BY <1>1, <1>7 DEF Adds, Takes, SpecialPcs
  <1>13. StepOf(c, X)
    BY <1>0, <1>1, <1>2, <1>6, <1>7, <1>12 DEF StepOf
  <1>14. ListMove(c, X)
    <2>1. \A q \in Procs, m \in ListNames : OnList(q, m) => OnList(q, m)'
      BY <1>3, <1>5 DEF NotOn
    <2>2. QED
      BY <1>0, <1>5, <2>1, Names DEF ListMove
  <1>15. CpuOK(c)'
    BY <1>6, <1>7, NoNames DEF CpuOK, Leaving
  <1>16. ForksApart'
    <2>1. t.pc \notin ForkPcs
      BY DEF Leaving, ForkPcs, AsleepPcs
    <2>2. \A q \in Procs : proc'[q].pc \in ForkPcs => proc[q].pc \in ForkPcs /\ proc'[q].loc = proc[q].loc
      BY <1>6, <2>1
    <2>3. QED
      BY <2>2, ForksKept
  <1>17. ThreadOK(p)' /\ WorkOK(p)'
    BY <1>6 DEF ThreadOK, WorkOK, Leaving, AsleepPcs
  <1>18. Listed(p)'
    <2>1. proc'[p].state # "RUNNING" /\ k \in ListOf(proc'[p].state) /\ OnlyOn(p, k)' /\ p \in X /\ p \notin Adds(c)'
      BY <1>0, <1>4, <1>5, <1>6, <1>12 DEF Leaving, OnlyOn
    <2>2. QED
      BY <1>4, <1>13, <2>1, ListedOn
  <1>19. \A q \in Procs, x \in X : q \notin X /\ proc[q].pc \in {"fkParent", "fkReady"} => proc[q].loc # x
    BY <1>0, <1>2, RunningNotForked
  <1>20. \A x \in X : ThreadOK(x)' /\ WorkOK(x)' /\ Listed(x)'
    BY <1>0, <1>17, <1>18
  <1>21. QED
    BY <1>5, <1>9, <1>11, <1>13, <1>14, <1>15, <1>16, <1>19, <1>20, Assemble

\* sleep(), called with lock lk held.
SleepPcs == {"slSleep", "dkSleep", "wtSleep"}

\* sleep() keeps the invariant, ...
LEMMA SleepOK ==
  ASSUME ProcInv, NEW c \in Cpus, NEW p \in Procs, NEW l \in SleepPcs, At(c, p, l),
         NEW ch \in Chans, NEW asleep \in AsleepPcs, Sleep(c, p, ch, PcLock(l), asleep)
  PROVE  ProcInv'
  <1> DEFINE t == [proc[p] EXCEPT !.chan = ch, !.state = "SLEEPING", !.pc = asleep]
             r == [cpu[c] EXCEPT !.sched = "back"]
             lk == PcLock(l)
  <1>1. /\ TypeOK /\ InKernel(c, p) /\ cpu[c].wk = "none" /\ proc[p].pc = l /\ proc[p] \in Thread
        /\ cpu[c] \in Cpu /\ cpu[c].proc = p /\ cpu[c].intr = "none" /\ proc[p].yl = "none"
    BY FieldTypes DEF ProcInv, At, InKernel
  <1>2. lk \in LockNames /\ Kept(p) = {lk} /\ lk # PLock(p)
    BY <1>1, Names, NamesDiffer DEF PcLock, SleepPcs, Kept
  <1>3. asleep \in Labels
    BY DEF AsleepPcs, Labels
  <1>4. /\ t \in Thread /\ t.state = "SLEEPING" /\ t.pc = asleep /\ t.yl = proc[p].yl
    BY <1>1, <1>3 DEF Thread
  <1>5. proc' = [proc EXCEPT ![p] = t]
    BY <1>1 DEF Sleep, TypeOK
  <1>6. r \in Cpu /\ r.proc = cpu[c].proc /\ r.sched = "back" /\ r.intr = cpu[c].intr /\ r.wk = cpu[c].wk
    BY <1>1 DEF Cpu
  <1>7. cpu' = [cpu EXCEPT ![c] = r]
    BY <1>1 DEF Sleep, TypeOK
  <1>8. /\ Free(PLock(p)) /\ lock' = [lock EXCEPT ![PLock(p)] = c, ![lk] = NoCpu]
        /\ Enlist(Sleeping, p) /\ nextpid' = nextpid
    BY DEF Sleep
  <1> HIDE DEF t, r, lk
  <1>9. Leaving(t, Sleeping) /\ t.yl = "none"
    BY <1>1, <1>4 DEF Leaving
  <1>10. r.proc = p /\ r.intr = "none" /\ r.wk = "none" /\ cpu[c].wk # "add"
    BY <1>1, <1>6
  <1>11. proc[p].pc \in (LockPcs \ SpecialPcs) \cup {"exZombie"}
    BY <1>1 DEF SleepPcs, LockPcs, SpecialPcs
  <1>12. QED
    BY <1>1, <1>2, <1>4, <1>5, <1>6, <1>7, <1>8, <1>9, <1>10, <1>11, LeaveStep

\* ... called from sys_sleep(), ...
LEMMA SleepWaitOK ==
  ASSUME ProcInv, NEW c \in Cpus, NEW p \in Procs, SleepWait(c, p)
  PROVE  ProcInv'
  <1>1. "slSleep" \in SleepPcs /\ "slAsleep" \in AsleepPcs /\ PcLock("slSleep") = TicksLock
    BY DEF SleepPcs, AsleepPcs, PcLock
  <1>2. TickChan \in Chans
    BY SMT, ProcAssumption DEF TickChan, Chans
  <1>3. At(c, p, "slSleep") /\ Sleep(c, p, TickChan, PcLock("slSleep"), "slAsleep")
    BY <1>1 DEF SleepWait
  <1>4. QED
    BY <1>1, <1>2, <1>3, SleepOK

\* ... from virtio_disk_rw() ...
LEMMA DiskWaitOK ==
  ASSUME ProcInv, NEW c \in Cpus, NEW p \in Procs, DiskWait(c, p)
  PROVE  ProcInv'
  <1>1. "dkSleep" \in SleepPcs /\ "dkAsleep" \in AsleepPcs /\ PcLock("dkSleep") = DiskLock
    BY DEF SleepPcs, AsleepPcs, PcLock
  <1>2. BufChan(p) \in Chans
    BY SMT, ProcAssumption DEF BufChan, Chans, Procs
  <1>3. At(c, p, "dkSleep") /\ Sleep(c, p, BufChan(p), PcLock("dkSleep"), "dkAsleep")
    BY <1>1 DEF DiskWait
  <1>4. QED
    BY <1>1, <1>2, <1>3, SleepOK

\* ... and from wait().
LEMMA WaitSleepOK ==
  ASSUME ProcInv, NEW c \in Cpus, NEW p \in Procs, WaitSleep(c, p)
  PROVE  ProcInv'
  <1>1. "wtSleep" \in SleepPcs /\ "wtAsleep" \in AsleepPcs /\ PcLock("wtSleep") = WaitLock
    BY DEF SleepPcs, AsleepPcs, PcLock
  <1>2. p \in Chans
    BY SMT, ProcAssumption DEF Chans, Procs
  <1>3. At(c, p, "wtSleep") /\ Sleep(c, p, p, PcLock("wtSleep"), "wtAsleep")
    BY <1>1 DEF WaitSleep
  <1>4. QED
    BY <1>1, <1>2, <1>3, SleepOK

\* The end of exit() keeps the invariant.
LEMMA ExitZombieOK ==
  ASSUME ProcInv, NEW c \in Cpus, NEW p \in Procs, ExitZombie(c, p)
  PROVE  ProcInv'
  <1> DEFINE t == [proc[p] EXCEPT !.state = "ZOMBIE", !.pc = "none", !.loc = Nil]
             s == WakeEnd(cpu[c])
             r == [s EXCEPT !.sched = "back"]
  <1>1. /\ TypeOK /\ InKernel(c, p) /\ cpu[c].wk = "scan" /\ proc[p].pc = "exZombie" /\ proc[p] \in Thread
        /\ cpu[c] \in Cpu /\ cpu[c].proc = p /\ cpu[c].intr = "none" /\ proc[p].yl = "none"
    BY FieldTypes DEF ProcInv, ExitZombie, InKernel, WakeDone
  <1>2. WaitLock \in LockNames /\ Kept(p) = {WaitLock} /\ WaitLock # PLock(p)
    BY <1>1, Names, NamesDiffer DEF Kept
  <1>3. "none" \in Labels
    BY DEF Labels
  <1>4. /\ t \in Thread /\ t.state = "ZOMBIE" /\ t.pc = "none" /\ t.yl = proc[p].yl
    BY <1>1, <1>3 DEF Thread
  <1>5. proc' = [proc EXCEPT ![p] = t]
    BY <1>1 DEF ExitZombie, TypeOK
  <1>6. s \in Cpu /\ s.wk = "none" /\ s.proc = p /\ s.intr = "none"
    BY <1>1, WakeEndIs
  <1>7. cpu' = [cpu EXCEPT ![c] = r]
    BY <1>1 DEF ExitZombie, TypeOK
  <1> HIDE DEF s
  <1>8. r \in Cpu /\ r.proc = p /\ r.sched = "back" /\ r.intr = "none" /\ r.wk = "none"
    BY <1>6 DEF Cpu
  <1>9. /\ Free(PLock(p)) /\ lock' = [lock EXCEPT ![PLock(p)] = c, ![WaitLock] = NoCpu]
        /\ Enlist(Zombie, p) /\ nextpid' = nextpid
    BY DEF ExitZombie
  <1> HIDE DEF t, r
  <1>10. Leaving(t, Zombie) /\ t.yl = "none" /\ cpu[c].wk # "add"
    BY <1>1, <1>4 DEF Leaving
  <1>11. proc[p].pc \in (LockPcs \ SpecialPcs) \cup {"exZombie"}
    BY <1>1 DEF LockPcs, SpecialPcs
  <1>12. QED
    BY <1>1, <1>2, <1>4, <1>5, <1>7, <1>8, <1>9, <1>10, <1>11, LeaveStep

-----------------------------------------------------------------------------
(* yield()                                                                 *)

\* In yield(), no interrupt is served and no wakeup() runs.
LEMMA InYield ==
  ASSUME ProcInv, NEW c \in Cpus, NEW p \in Procs, cpu[c].sched = "run", cpu[c].proc = p,
         proc[p].yl \in {"lock", "add"}
  PROVE  /\ cpu[c].intr = "none" /\ cpu[c].wk = "none" /\ proc[p].pc \in FreePcs /\ Owned(c, p)
         /\ proc[p].yl = "lock" => proc[p].state = "RUNNING" /\ Held(c) = {} /\ Adds(c) = {}
         /\ proc[p].yl = "add" => proc[p].state = "RUNNABLE" /\ Held(c) = {PLock(p)} /\ Adds(c) = {p}
  <1>1. CpuOK(c)
    BY DEF ProcInv
  <1>2. cpu[c].intr = "none" /\ proc[p].pc \in FreePcs
    BY <1>1 DEF CpuOK
  <1>3. cpu[c].wk = "none"
    BY <1>1, <1>2 DEF CpuOK, FreePcs
  <1>4. Owned(c, p)
    BY OwnRunning
  <1>5. ASSUME proc[p].yl = "lock" PROVE proc[p].state = "RUNNING" /\ Held(c) = {} /\ Adds(c) = {}
    <2>1. Kept(p) = {}
      BY <1>2, <1>5 DEF Kept, FreePcs
    <2>2. QED
      BY <1>1, <1>2, <1>3, <1>5, <2>1 DEF CpuOK, Held, SchedKept, IntrKept, WakeKept, Adds, FreePcs
  <1>6. ASSUME proc[p].yl = "add" PROVE proc[p].state = "RUNNABLE" /\ Held(c) = {PLock(p)} /\ Adds(c) = {p}
    BY <1>1, <1>2, <1>3, <1>6 DEF CpuOK, Held, SchedKept, IntrKept, WakeKept, Adds, Kept
  <1>7. QED
    BY <1>2, <1>3, <1>4, <1>5, <1>6

\* yield() taking p->lock keeps the invariant.
LEMMA YieldLockOK ==
  ASSUME ProcInv, NEW c \in Cpus, NEW p \in Procs, YieldLock(c, p)
  PROVE  ProcInv'
  <1> DEFINE X == {p}
             t == [proc[p] EXCEPT !.state = "RUNNABLE", !.yl = "add"]
  <1>0. X = {p}
    OBVIOUS
  <1> HIDE DEF X
  <1>1. /\ TypeOK /\ ListedOnce /\ cpu[c].sched = "run" /\ cpu[c].proc = p /\ proc[p].yl = "lock"
        /\ proc[p] \in Thread /\ Acquire(c, PLock(p)) /\ cpu' = cpu /\ list' = list /\ nextpid' = nextpid
    BY FieldTypes DEF ProcInv, YieldLock
  <1>2. /\ cpu[c].intr = "none" /\ cpu[c].wk = "none" /\ proc[p].pc \in FreePcs /\ Owned(c, p)
        /\ proc[p].state = "RUNNING" /\ Held(c) = {} /\ Adds(c) = {}
    BY <1>1, InYield
  <1>3. NotOn(p)
    BY <1>1, <1>2, RunningOff
  <1>4. proc' = [proc EXCEPT ![p] = t]
    BY <1>1 DEF YieldLock, TypeOK
  <1>5. t \in Thread /\ t.state = "RUNNABLE" /\ t.yl = "add" /\ t.pc = proc[p].pc /\ t.loc = proc[p].loc
    BY <1>1 DEF Thread
  <1> HIDE DEF t
  <1>6. /\ proc' \in [Procs -> Thread] /\ proc'[p] = t
        /\ \A q \in Procs : q # p => proc'[q] = proc[q] /\ SameThread(q)
    BY <1>1, <1>4, <1>5, PutProc
  <1>7. LockMove(c, {}, {PLock(p)}) /\ lock' \in [LockNames -> Cpus \cup {NoCpu}]
    BY <1>1, LockTake, Names
  <1>8. TypeOK'
    BY <1>1, <1>6, <1>7 DEF TypeOK
  <1>9. Held(c)' = {PLock(p)} /\ Adds(c)' = {p} /\ Takes(c) = {} /\ Takes(c)' = {}
    BY <1>1, <1>2, <1>5, <1>6 DEF Held, SchedKept, IntrKept, WakeKept, Kept, Adds, Takes
  <1>10. LockMove(c, Held(c), Held(c)')
    BY <1>2, <1>7, <1>9
  <1>11. StepOf(c, X)
    BY <1>0, <1>1, <1>2, <1>6, <1>9 DEF StepOf
  <1>12. ListMove(c, X) /\ ListedOnce'
    BY SMT, <1>1 DEF ListMove, ListedOnce, OnList
  <1>13. CpuOK(c)'
    <2>1. p # Nil /\ CpuOK(c)
      BY NoNames DEF ProcInv
    <2>2. QED
      BY <1>1, <1>2, <1>5, <1>6, <2>1 DEF CpuOK, FreePcs
  <1>14. ForksApart'
    <2>1. \A q \in Procs : proc'[q].pc \in ForkPcs => proc[q].pc \in ForkPcs /\ proc'[q].loc = proc[q].loc
      BY <1>5, <1>6
    <2>2. QED
      BY <2>1, ForksKept
  <1>15. ThreadOK(p)'
    BY <1>1, <1>2, <1>5, <1>6 DEF ThreadOK
  <1>16. WorkOK(p)'
    <2>1. WorkOK(p)
      BY DEF ProcInv
    <2>2. proc[p].pc \in WorkPcs => proc[p].pc \in {"kill", "fkParent", "fkReady"}
      BY <1>2 DEF FreePcs, WorkPcs
    <2>3. CASE proc[p].pc \notin WorkPcs
      BY <1>5, <1>6, <2>3 DEF WorkOK, WorkPcs
    <2>4. CASE proc[p].pc = "kill"
      BY <1>5, <1>6, <2>1, <2>4 DEF WorkOK
    <2>5. CASE proc[p].pc \in ForkPcs
      <3>1. proc[p].loc \in Procs /\ proc[proc[p].loc].state = "USED"
        BY <2>1, <2>5 DEF WorkOK, ForkPcs
      <3>2. proc'[proc[p].loc].state = "USED"
        BY <1>2, <1>6, <3>1
      <3>3. QED
        BY <1>5, <1>6, <2>5, <3>1, <3>2 DEF WorkOK, ForkPcs
    <2>6. QED
      BY <2>2, <2>3, <2>4, <2>5 DEF ForkPcs
  <1>17. Listed(p)'
    <2>1. NotOn(p)' /\ p \in Adds(c)'
      BY <1>1, <1>3, <1>9 DEF NotOn, OnList
    <2>2. QED
      BY <2>1, ListedAdded
  <1>18. \A q \in Procs, x \in X : q \notin X /\ proc[q].pc \in {"fkParent", "fkReady"} => proc[q].loc # x
    BY <1>0, <1>2, RunningNotForked
  <1>19. \A x \in X : ThreadOK(x)' /\ WorkOK(x)' /\ Listed(x)'
    BY <1>0, <1>15, <1>16, <1>17
  <1>20. QED
    BY <1>8, <1>10, <1>11, <1>12, <1>13, <1>14, <1>18, <1>19, Assemble

\* The work of a thread that stays where it is goes on, when no entry being set up changes.
LEMMA WorkKept ==
  ASSUME NEW p \in Procs, WorkOK(p), proc'[p].pc = proc[p].pc, proc'[p].loc = proc[p].loc,
         proc[p].pc \notin WorkPcs \/ proc[p].pc = "kill" \/ proc[p].pc \in ForkPcs,
         \A q \in Procs : proc[q].state = "USED" => proc'[q].state = "USED"
  PROVE  WorkOK(p)'
  <1>1. CASE proc[p].pc \notin WorkPcs
    BY <1>1 DEF WorkOK, WorkPcs
  <1>2. CASE proc[p].pc = "kill"
    BY <1>2 DEF WorkOK
  <1>3. CASE proc[p].pc \in ForkPcs
    <2>1. proc[p].loc \in Procs /\ proc[proc[p].loc].state = "USED"
      BY <1>3 DEF WorkOK, ForkPcs
    <2>2. proc'[proc[p].loc].state = "USED"
      BY <2>1
    <2>3. QED
      BY <1>3, <2>1, <2>2 DEF WorkOK, ForkPcs
  <1>4. QED
    BY <1>1, <1>2, <1>3

\* yield() joining the runnable list keeps the invariant.
LEMMA YieldAddOK ==
  ASSUME ProcInv, NEW c \in Cpus, NEW p \in Procs, YieldAdd(c, p)
  PROVE  ProcInv'
  <1> DEFINE X == {p}
             t == [proc[p] EXCEPT !.yl = "off"]
             r == [cpu[c] EXCEPT !.sched = "back"]
  <1>0. X = {p}
    OBVIOUS
  <1>k. PICK k : k = Runnable(proc[p].cpu_num)
    OBVIOUS
  <1> HIDE DEF X
  <1>1. /\ TypeOK /\ ListedOnce /\ cpu[c].sched = "run" /\ cpu[c].proc = p /\ proc[p].yl = "add"
        /\ proc[p] \in Thread /\ cpu[c] \in Cpu /\ proc[p].cpu_num \in Cpus
        /\ Enlist(k, p) /\ lock' = lock /\ nextpid' = nextpid
    BY <1>k, FieldTypes DEF ProcInv, YieldAdd
  <1>2. /\ cpu[c].intr = "none" /\ cpu[c].wk = "none" /\ proc[p].pc \in FreePcs /\ Owned(c, p)
        /\ proc[p].state = "RUNNABLE" /\ Held(c) = {PLock(p)} /\ Adds(c) = {p}
    BY <1>1, InYield
  <1>3. NotOn(p)
    BY <1>2, AddedOff
  <1>4. k \in ListNames /\ k \in ListOf("RUNNABLE")
    BY <1>k, <1>1, Names DEF ListOf
  <1>5. proc' = [proc EXCEPT ![p] = t]
    BY <1>1 DEF YieldAdd, TypeOK
  <1>6. t \in Thread /\ t.state = "RUNNABLE" /\ t.yl = "off" /\ t.pc = proc[p].pc /\ t.loc = proc[p].loc
    BY <1>1, <1>2 DEF Thread
  <1>7. cpu' = [cpu EXCEPT ![c] = r]
    BY <1>1 DEF YieldAdd, TypeOK
  <1>8. r \in Cpu /\ r.proc = p /\ r.sched = "back" /\ r.intr = "none" /\ r.wk = "none"
    BY <1>1, <1>2 DEF Cpu
  <1> HIDE DEF t, r
  <1>9. /\ proc' \in [Procs -> Thread] /\ proc'[p] = t
        /\ \A q \in Procs : q # p => proc'[q] = proc[q] /\ SameThread(q)
    BY <1>1, <1>5, <1>6, PutProc
  <1>10. cpu' \in [Cpus -> Cpu] /\ cpu'[c] = r /\ \A d \in Cpus : d # c => cpu'[d] = cpu[d]
    BY <1>1, <1>7, <1>8, PutCpu
  <1>11. /\ list' \in [ListNames -> Seq(Procs)] /\ ListedOnce'
         /\ \A q \in Procs, m \in ListNames : q # p => (OnList(q, m)' <=> OnList(q, m))
         /\ \A m \in ListNames : OnList(p, m)' <=> m = k
    BY <1>1, <1>3, <1>4, Joins DEF NotOn
  <1>12. LockMove(c, Held(c), Held(c)) /\ lock' \in [LockNames -> Cpus \cup {NoCpu}]
    BY <1>1, HeldStay
  <1>13. TypeOK'
    BY <1>1, <1>9, <1>10, <1>11, <1>12 DEF TypeOK
  <1>14. Held(c)' = {PLock(p)} /\ Adds(c)' = {} /\ Takes(c) = {} /\ Takes(c)' = {}
    BY <1>1, <1>8, <1>10 DEF Held, SchedKept, IntrKept, WakeKept, Adds, Takes
  <1>15. LockMove(c, Held(c), Held(c)')
    <2>1. Held(c)' = Held(c)
      BY <1>2, <1>14
    <2>2. QED
      BY <1>12, <2>1
  <1>16. StepOf(c, X)
    BY <1>0, <1>1, <1>2, <1>8, <1>9, <1>10, <1>14 DEF StepOf
  <1>17. ListMove(c, X)
    <2>1. \A q \in Procs, m \in ListNames : OnList(q, m) => OnList(q, m)'
      BY <1>3, <1>11 DEF NotOn
    <2>2. QED
      BY <1>0, <1>11, <2>1, Names DEF ListMove
  <1>18. CpuOK(c)'
    BY <1>6, <1>8, <1>9, <1>10, NoNames DEF CpuOK
  <1>19. ForksApart'
    <2>1. \A q \in Procs : proc'[q].pc \in ForkPcs => proc[q].pc \in ForkPcs /\ proc'[q].loc = proc[q].loc
      BY <1>6, <1>9
    <2>2. QED
      BY <2>1, ForksKept
  <1>20. ThreadOK(p)'
    BY <1>2, <1>6, <1>9 DEF ThreadOK, Ready
  <1>21. WorkOK(p)'
    <2>1. WorkOK(p)
      BY DEF ProcInv
    <2>2. proc[p].pc \notin WorkPcs \/ proc[p].pc = "kill" \/ proc[p].pc \in ForkPcs
      BY <1>2 DEF FreePcs, WorkPcs, ForkPcs
    <2>3. \A q \in Procs : proc[q].state = "USED" => proc'[q].state = "USED"
      BY <1>2, <1>9
    <2>4. QED
      BY <1>6, <1>9, <2>1, <2>2, <2>3, WorkKept
  <1>22. Listed(p)'
    <2>1. proc'[p].state # "RUNNING" /\ k \in ListOf(proc'[p].state) /\ OnlyOn(p, k)' /\ p \in X /\ p \notin Adds(c)'
      BY <1>0, <1>4, <1>6, <1>9, <1>11, <1>14 DEF OnlyOn
    <2>2. QED
      BY <1>4, <1>16, <2>1, ListedOn
  <1>23. \A q \in Procs, x \in X : q \notin X /\ proc[q].pc \in {"fkParent", "fkReady"} => proc[q].loc # x
    BY <1>0, <1>2, RunningNotForked
  <1>24. \A x \in X : ThreadOK(x)' /\ WorkOK(x)' /\ Listed(x)'
    BY <1>0, <1>20, <1>21, <1>22
  <1>25. QED
    BY <1>11, <1>13, <1>15, <1>16, <1>17, <1>18, <1>19, <1>23, <1>24, Assemble

-----------------------------------------------------------------------------
(* scheduler()                                                             *)

\* scheduler() looking at its list keeps the invariant.
LEMMA SchedPeekOK ==
  ASSUME ProcInv, NEW c \in Cpus, SchedPeek(c)
  PROVE  ProcInv'
  <1> DEFINE X == {}
  <1>0. X = {}
    OBVIOUS
  <1> PICK p : p = Head(list[Runnable(c)])
    OBVIOUS
  <1> DEFINE r == [cpu[c] EXCEPT !.sched = "lock", !.pick = p]
  <1> HIDE DEF X
  <1>1. /\ TypeOK /\ ListedOnce /\ ForksApart /\ CpuOK(c) /\ cpu[c].sched = "loop" /\ cpu[c].intr = "none"
        /\ cpu[c] \in Cpu /\ Runnable(c) \in LockNames /\ Runnable(c) \in ListNames
        /\ Acquire(c, Runnable(c)) /\ proc' = proc /\ list' = list /\ nextpid' = nextpid
    BY Names, FieldTypes DEF ProcInv, SchedPeek
  <1>2. cpu[c].proc = Nil /\ cpu[c].wk = "none"
    BY <1>1 DEF CpuOK
  <1>3. list[Runnable(c)] \in Seq(Procs) /\ list[Runnable(c)] # << >>
    BY <1>1, FieldTypes DEF SchedPeek
  <1>4. p \in Procs /\ OnList(p, Runnable(c))
    BY SMT, <1>3 DEF OnList
  <1>5. cpu' = [cpu EXCEPT ![c] = r]
    BY <1>1 DEF SchedPeek, TypeOK
  <1>6. /\ r \in Cpu /\ r.proc = cpu[c].proc /\ r.sched = "lock" /\ r.pick = p /\ r.intr = cpu[c].intr
        /\ r.wk = cpu[c].wk
    BY <1>1, <1>4 DEF Cpu
  <1> HIDE DEF r
  <1>7. cpu' \in [Cpus -> Cpu] /\ cpu'[c] = r /\ \A d \in Cpus : d # c => cpu'[d] = cpu[d]
    BY <1>1, <1>5, <1>6, PutCpu
  <1>8. LockMove(c, {}, {Runnable(c)}) /\ lock' \in [LockNames -> Cpus \cup {NoCpu}]
    BY <1>1, LockTake
  <1>9. TypeOK'
    BY <1>1, <1>7, <1>8 DEF TypeOK
  <1>10. Held(c) = {} /\ Held(c)' = {Runnable(c)}
    BY <1>1, <1>2, <1>6, <1>7 DEF Held, SchedKept, IntrKept, WakeKept
  <1>11. LockMove(c, Held(c), Held(c)')
    BY <1>8, <1>10
  <1>12. Adds(c) = {} /\ Adds(c)' = {} /\ Takes(c) = {} /\ Takes(c)' = {}
    BY <1>1, <1>2, <1>6, <1>7 DEF Adds, Takes
  <1>13. StepOf(c, X)
    BY <1>0, <1>1, <1>2, <1>6, <1>7, <1>12 DEF StepOf, SameThread
  <1>14. ListMove(c, X) /\ ListedOnce' /\ ForksApart'
    BY SMT, <1>1 DEF ListMove, ListedOnce, OnList, ForksApart
  <1>15. CpuOK(c)'
    <2>1. OnList(p, Runnable(c))'
      BY <1>1, <1>4 DEF OnList
    <2>2. QED
      BY <1>1, <1>2, <1>4, <1>6, <1>7, <2>1 DEF CpuOK
  <1>16. QED
    <2>1. /\ \A x \in X : ThreadOK(x)' /\ WorkOK(x)' /\ Listed(x)'
          /\ \A q \in Procs, x \in X :
               q \notin X /\ proc[q].pc \in {"fkParent", "fkReady"} => proc[q].loc # x
      BY <1>0
    <2>2. QED
      BY <1>9, <1>11, <1>13, <1>14, <1>15, <2>1, Assemble

\* What scheduler() finds on its list and can lock is runnable, and on this list alone.
LEMMA PickIs ==
  ASSUME ProcInv, NEW c \in Cpus, NEW p \in Procs, OnList(p, Runnable(c)), Free(PLock(p))
  PROVE  proc[p].state = "RUNNABLE" /\ Ready(p) /\ Owned(c, p) /\ OnlyOn(p, Runnable(c))
  <1>1. Runnable(c) \in ListNames /\ TypeOK /\ ListedOnce /\ ThreadOK(p)
    BY Names DEF ProcInv
  <1>2. proc[p].state # "RUNNING" /\ Runnable(c) \in ListOf(proc[p].state)
    BY <1>1, ListedState
  <1>3. proc[p].state = "RUNNABLE"
    BY <1>2, NamesDiffer DEF ListOf
  <1>4. Owned(c, p)
    BY <1>2, OwnLocked
  <1>5. proc[p].yl # "add"
    <2>1. SUFFICES ASSUME proc[p].yl = "add" PROVE FALSE
      OBVIOUS
    <2>2. PICK d \in Cpus : cpu[d].proc = p
      BY <1>1, <2>1 DEF ThreadOK
    <2>3. lock[PLock(p)] # d
      BY NoNames DEF Free
    <2>4. proc[p].state = "RUNNING"
      BY <2>2, <2>3, CurrentRuns
    <2>5. QED
      BY <1>2, <2>4
  <1>6. Ready(p)
    BY <1>1, <1>3, <1>5 DEF ThreadOK
  <1>7. OnlyOn(p, Runnable(c))
    BY <1>1 DEF OnlyOn, OnList, ListedOnce
  <1>8. QED
    BY <1>3, <1>4, <1>6, <1>7

\* scheduler() locking the process it found keeps the invariant.
LEMMA SchedLockOK ==
  ASSUME ProcInv, NEW c \in Cpus, SchedLock(c)
  PROVE  ProcInv'
  <1>p. PICK p : p = cpu[c].pick
    OBVIOUS
  <1> DEFINE X == {p}
             t == [proc[p] EXCEPT !.state = "RUNNING"]
             r == [cpu[c] EXCEPT !.sched = "take", !.proc = p]
  <1>0. X = {p}
    OBVIOUS
  <1> HIDE DEF X
  <1>1. /\ TypeOK /\ ListedOnce /\ CpuOK(c) /\ cpu[c].sched = "lock" /\ cpu[c] \in Cpu
        /\ Free(PLock(p)) /\ lock' = [lock EXCEPT ![PLock(p)] = c, ![Runnable(c)] = NoCpu]
        /\ list' = list /\ nextpid' = nextpid
    BY <1>p, FieldTypes DEF ProcInv, SchedLock
  <1>2. p \in Procs /\ OnList(p, Runnable(c)) /\ cpu[c].proc = Nil /\ cpu[c].intr = "none" /\ cpu[c].wk = "none"
    BY <1>p, <1>1 DEF CpuOK
  <1>3. proc[p].state = "RUNNABLE" /\ Ready(p) /\ Owned(c, p) /\ OnlyOn(p, Runnable(c))
    BY <1>1, <1>2, PickIs
  <1>4. proc' = [proc EXCEPT ![p] = t]
    BY <1>p, <1>1, <1>2 DEF SchedLock, TypeOK
  <1>5. t \in Thread /\ t.state = "RUNNING" /\ t.yl = proc[p].yl /\ t.pc = proc[p].pc /\ t.loc = proc[p].loc
    <2>1. proc[p] \in Thread
      BY <1>1, <1>2, FieldTypes
    <2>2. QED
      BY <2>1 DEF Thread
  <1>6. cpu' = [cpu EXCEPT ![c] = r]
    BY <1>p, <1>1 DEF SchedLock, TypeOK
  <1>7. r \in Cpu /\ r.proc = p /\ r.sched = "take" /\ r.pick = p /\ r.intr = "none" /\ r.wk = "none"
    BY <1>p, <1>1, <1>2 DEF Cpu
  <1> HIDE DEF t, r
  <1>8. /\ proc' \in [Procs -> Thread] /\ proc'[p] = t
        /\ \A q \in Procs : q # p => proc'[q] = proc[q] /\ SameThread(q)
    BY <1>1, <1>2, <1>4, <1>5, PutProc
  <1>9. cpu' \in [Cpus -> Cpu] /\ cpu'[c] = r /\ \A d \in Cpus : d # c => cpu'[d] = cpu[d]
    BY <1>1, <1>6, <1>7, PutCpu
  <1>10. LockMove(c, {Runnable(c)}, {PLock(p)}) /\ lock' \in [LockNames -> Cpus \cup {NoCpu}]
    <2>1. PLock(p) \in LockNames /\ Runnable(c) \in LockNames /\ Runnable(c) # PLock(p)
      BY <1>2, Names, NamesDiffer
    <2>2. QED
      BY <1>1, <2>1, LockSwap
  <1>11. TypeOK'
    BY <1>1, <1>8, <1>9, <1>10 DEF TypeOK
  <1>12. Held(c) = {Runnable(c)} /\ Held(c)' = {PLock(p)}
    BY <1>1, <1>2, <1>7, <1>9 DEF Held, SchedKept, IntrKept, WakeKept
  <1>13. LockMove(c, Held(c), Held(c)')
    BY <1>10, <1>12
  <1>14. Adds(c) = {} /\ Adds(c)' = {} /\ Takes(c) = {} /\ Takes(c)' = {p}
    BY <1>1, <1>2, <1>7, <1>9 DEF Adds, Takes
  <1>15. StepOf(c, X)
    BY <1>0, <1>2, <1>3, <1>7, <1>8, <1>9, <1>14 DEF StepOf
  <1>16. ListMove(c, X) /\ ListedOnce'
    BY SMT, <1>1 DEF ListMove, ListedOnce, OnList
  <1>17. Ready(p)'
    BY <1>3, <1>5, <1>8 DEF Ready
  <1>18. CpuOK(c)'
    BY <1>2, <1>5, <1>7, <1>8, <1>9, <1>17, NoNames DEF CpuOK
  <1>19. ForksApart'
    <2>1. \A q \in Procs : proc'[q].pc \in ForkPcs => proc[q].pc \in ForkPcs /\ proc'[q].loc = proc[q].loc
      BY <1>5, <1>8
    <2>2. QED
      BY <2>1, ForksKept
  <1>20. ThreadOK(p)'
    BY <1>5, <1>7, <1>8, <1>9 DEF ThreadOK
  <1>21. WorkOK(p)'
    <2>1. WorkOK(p)
      BY <1>2 DEF ProcInv
    <2>2. proc[p].pc \notin WorkPcs \/ proc[p].pc = "kill" \/ proc[p].pc \in ForkPcs
      BY <1>3 DEF Ready, FreePcs, WorkPcs, ForkPcs, AsleepPcs
    <2>3. \A q \in Procs : proc[q].state = "USED" => proc'[q].state = "USED"
      BY <1>3, <1>8
    <2>4. QED
      BY <1>2, <1>5, <1>8, <2>1, <2>2, <2>3, WorkKept
  <1>22. Listed(p)'
    <2>1. OnlyOn(p, Runnable(c))'
      BY <1>1, <1>3 DEF OnlyOn, OnList
    <2>2. \A d \in Cpus : p \notin Adds(d)' /\ (p \in Takes(d)' <=> d = c)
      BY <1>0, <1>14, <1>15, OthersLeave
    <2>3. Place(p)' = {Runnable(d) : d \in {e \in Cpus : p \in Takes(e)'}}
      BY <1>5, <1>8, <2>2 DEF Place
    <2>4. Place(p)' = {Runnable(c)}
      BY <2>2, <2>3
    <2>5. QED
      BY <2>1, <2>4, Names DEF Listed, OnlyOn
  <1>23. \A q \in Procs, x \in X : q \notin X /\ proc[q].pc \in {"fkParent", "fkReady"} => proc[q].loc # x
    BY <1>0, <1>2, <1>3, RunningNotForked
  <1>24. \A x \in X : ThreadOK(x)' /\ WorkOK(x)' /\ Listed(x)'
    BY <1>0, <1>20, <1>21, <1>22
  <1>25. QED
    BY <1>11, <1>13, <1>15, <1>16, <1>18, <1>19, <1>23, <1>24, Assemble

\* Where a thread that can be resumed goes on.
LEMMA ResumeIs ==
  ASSUME NEW p, Ready(p), proc[p] \in Thread
  PROVE  LET t == Resume(proc[p])
         IN  /\ t \in Thread /\ t.state = proc[p].state /\ t.loc = proc[p].loc /\ t.yl = "none" /\ t.pc \in FreePcs
             /\ t.pc \in WorkPcs => t.pc = proc[p].pc
  <1>1. {"user", "wait", "slTest", "dkTest"} \subseteq Labels
    BY DEF Labels
  <1>2. CASE proc[p].yl = "off"
    BY <1>2 DEF Resume, Ready, Thread
  <1>3. CASE proc[p].yl # "off"
    <2>1. proc[p].pc \in {"forkret", "slAsleep", "dkAsleep", "wtAsleep"}
      BY <1>3 DEF Ready, AsleepPcs
    <2> DEFINE l == CASE proc[p].pc = "forkret" -> "user"
                      [] proc[p].pc = "wtAsleep" -> "wait"
                      [] proc[p].pc = "slAsleep" -> "slTest"
                      [] proc[p].pc = "dkAsleep" -> "dkTest"
    <2>2. l \in {"user", "wait", "slTest", "dkTest"}
      BY <2>1
    <2>3. Resume(proc[p]) = [proc[p] EXCEPT !.chan = Nil, !.pc = l]
      BY <1>3 DEF Resume, Thread
    <2> HIDE DEF l
    <2>4. l \in Labels /\ l \in FreePcs /\ l \notin WorkPcs
      BY <1>1, <2>2 DEF FreePcs, WorkPcs
    <2>5. proc[p].yl = "none"
      BY <1>3 DEF Ready
    <2> DEFINE t == [proc[p] EXCEPT !.chan = Nil, !.pc = l]
    <2>6. t \in Thread /\ t.state = proc[p].state /\ t.loc = proc[p].loc /\ t.yl = "none" /\ t.pc = l
      BY <2>4, <2>5 DEF Thread
    <2>7. QED
      BY <2>3, <2>4, <2>6
  <1>4. QED
    BY <1>2, <1>3

\* scheduler() switching to it keeps the invariant.
LEMMA SchedSwitchOK ==
  ASSUME ProcInv, NEW c \in Cpus, SchedSwitch(c)
  PROVE  ProcInv'
  <1>p. PICK p : p = cpu[c].pick
    OBVIOUS
  <1> DEFINE X == {p}
             t == Resume(proc[p])
             r == [cpu[c] EXCEPT !.sched = "run", !.pick = Nil]
  <1>0. X = {p}
    OBVIOUS
  <1> HIDE DEF X
  <1>1. /\ TypeOK /\ ListedOnce /\ CpuOK(c) /\ cpu[c].sched = "take" /\ cpu[c] \in Cpu
        /\ Delist(Runnable(c), p) /\ Release(PLock(p)) /\ nextpid' = nextpid
    BY <1>p, FieldTypes DEF ProcInv, SchedSwitch
  <1>2. /\ p \in Procs /\ cpu[c].proc = p /\ cpu[c].intr = "none" /\ cpu[c].wk = "none"
        /\ proc[p].state = "RUNNING" /\ Ready(p)
    <2>1. cpu[c].proc # Nil /\ cpu[c].proc \in Procs \cup {Nil}
      BY <1>1, FieldTypes DEF CpuOK
    <2>2. QED
      BY <1>p, <1>1, <2>1 DEF CpuOK
  <1>3. Owned(c, p)
    BY <1>2, OwnRunning
  <1>4. OnlyOn(p, Runnable(c)) /\ OnList(p, Runnable(c))
    <2>1. \A d \in Cpus : p \in Takes(d) <=> d = c
      <3>1. p \in Takes(c)
        BY <1>p, <1>1 DEF Takes
      <3>2. \A d \in Cpus : p \in Takes(d) => cpu[d].proc = p
        BY TakesLocked
      <3>3. QED
        BY <1>3, <3>1, <3>2 DEF Owned
    <2>2. \A d \in Cpus : p \notin Adds(d)
      <3>1. \A d \in Cpus : p \in Adds(d) => proc[p].state \in {"RUNNABLE", "UNUSED"}
        BY AddsLocked
      <3>2. QED
        BY <1>2, <3>1
    <2>3. Place(p) = {Runnable(d) : d \in {e \in Cpus : p \in Takes(e)}}
      BY <1>2, <2>2 DEF Place
    <2>4. Place(p) = {Runnable(c)} /\ Listed(p)
      BY <1>2, <2>1, <2>3 DEF ProcInv
    <2>5. QED
      BY <2>4 DEF Listed, OnlyOn
  <1>5. proc' = [proc EXCEPT ![p] = t]
    BY <1>p, <1>1, <1>2 DEF SchedSwitch, TypeOK
  <1>6. /\ t \in Thread /\ t.state = "RUNNING" /\ t.loc = proc[p].loc /\ t.yl = "none" /\ t.pc \in FreePcs
        /\ t.pc \in WorkPcs => t.pc = proc[p].pc
    <2>1. proc[p] \in Thread
      BY <1>1, <1>2, FieldTypes
    <2>2. QED
      BY <1>2, <2>1, ResumeIs
  <1>7. cpu' = [cpu EXCEPT ![c] = r]
    BY <1>1 DEF SchedSwitch, TypeOK
  <1>8. r \in Cpu /\ r.proc = p /\ r.sched = "run" /\ r.intr = "none" /\ r.wk = "none"
    BY <1>1, <1>2 DEF Cpu
  <1> HIDE DEF t, r
  <1>9. /\ proc' \in [Procs -> Thread] /\ proc'[p] = t
        /\ \A q \in Procs : q # p => proc'[q] = proc[q] /\ SameThread(q)
    BY <1>1, <1>2, <1>5, <1>6, PutProc
  <1>10. cpu' \in [Cpus -> Cpu] /\ cpu'[c] = r /\ \A d \in Cpus : d # c => cpu'[d] = cpu[d]
    BY <1>1, <1>7, <1>8, PutCpu
  <1>11. Runnable(c) \in ListNames /\ PLock(p) \in LockNames
    BY <1>2, Names
  <1>12. /\ list' \in [ListNames -> Seq(Procs)] /\ ListedOnce'
         /\ \A q \in Procs, m \in ListNames : q # p => (OnList(q, m)' <=> OnList(q, m))
         /\ \A m \in ListNames : ~OnList(p, m)'
    BY <1>1, <1>2, <1>4, <1>11, Leaves
  <1>13. LockMove(c, {PLock(p)}, {}) /\ lock' \in [LockNames -> Cpus \cup {NoCpu}]
    BY <1>1, <1>11, LockDrop
  <1>14. TypeOK'
    BY <1>1, <1>9, <1>10, <1>12, <1>13 DEF TypeOK
  <1>15. Held(c) = {PLock(p)} /\ Held(c)' = {} /\ Adds(c) = {} /\ Adds(c)' = {} /\ Takes(c) = {p} /\ Takes(c)' = {}
    <2>1. Kept(p)' = {} /\ proc'[p].pc \notin {"fkAdmit", "wtFree", "klAdd"} /\ proc'[p].yl # "add"
      BY <1>6, <1>9 DEF Kept, FreePcs
    <2>2. QED
      BY <1>p, <1>1, <1>2, <1>8, <1>10, <2>1 DEF Held, SchedKept, IntrKept, WakeKept, Adds, Takes
  <1>16. LockMove(c, Held(c), Held(c)')
    BY <1>13, <1>15
  <1>17. StepOf(c, X)
    BY <1>0, <1>2, <1>3, <1>8, <1>9, <1>10, <1>15 DEF StepOf
  <1>18. ListMove(c, X)
    <2>1. ~OnList(p, Unused) /\ \A d \in Cpus : d # c => ~OnList(p, Runnable(d))
      BY <1>4, Names, NamesDiffer DEF OnlyOn
    <2>2. QED
      BY <1>0, <1>12, <2>1, Names DEF ListMove
  <1>19. CpuOK(c)'
    BY <1>2, <1>6, <1>8, <1>9, <1>10, NoNames DEF CpuOK, FreePcs
  <1>20. ForksApart'
    <2>1. \A q \in Procs : proc'[q].pc \in ForkPcs => proc[q].pc \in ForkPcs /\ proc'[q].loc = proc[q].loc
      BY <1>6, <1>9 DEF ForkPcs, WorkPcs
    <2>2. QED
      BY <2>1, ForksKept
  <1>21. ThreadOK(p)'
    BY <1>6, <1>8, <1>9, <1>10 DEF ThreadOK
  <1>22. WorkOK(p)'
    <2>1. CASE t.pc \notin WorkPcs
      BY <1>9, <2>1 DEF WorkOK, WorkPcs
    <2>2. CASE t.pc \in WorkPcs
      <3>1. WorkOK(p)
        BY <1>2 DEF ProcInv
      <3>2. t.pc = proc[p].pc /\ (proc[p].pc \notin WorkPcs \/ proc[p].pc = "kill" \/ proc[p].pc \in ForkPcs)
        BY <1>6, <2>2 DEF FreePcs, WorkPcs, ForkPcs
      <3>3. \A q \in Procs : proc[q].state = "USED" => proc'[q].state = "USED"
        BY <1>2, <1>9
      <3>4. QED
        BY <1>2, <1>6, <1>9, <3>1, <3>2, <3>3, WorkKept
    <2>3. QED
      BY <2>1, <2>2
  <1>23. Listed(p)'
    <2>1. p \in X /\ p \notin Adds(c)' /\ p \notin Takes(c)' /\ proc'[p].state \in {"RUNNING", "USED"} /\ NotOn(p)'
      BY <1>0, <1>6, <1>9, <1>12, <1>15 DEF NotOn
    <2>2. QED
      BY <1>17, <2>1, ListedOff
  <1>24. \A q \in Procs, x \in X : q \notin X /\ proc[q].pc \in {"fkParent", "fkReady"} => proc[q].loc # x
    BY <1>0, <1>2, RunningNotForked
  <1>25. \A x \in X : ThreadOK(x)' /\ WorkOK(x)' /\ Listed(x)'
    BY <1>0, <1>21, <1>22, <1>23
  <1>26. QED
    BY <1>12, <1>14, <1>16, <1>17, <1>18, <1>19, <1>20, <1>24, <1>25, Assemble

\* scheduler() going on after a process keeps the invariant.
LEMMA SchedBackOK ==
  ASSUME ProcInv, NEW c \in Cpus, SchedBack(c)
  PROVE  ProcInv'
  <1>p. PICK p : p = cpu[c].proc
    OBVIOUS
  <1> DEFINE X == {p}
             r == [cpu[c] EXCEPT !.sched = "loop", !.proc = Nil]
  <1>0. X = {p}
    OBVIOUS
  <1> HIDE DEF X
  <1>1. /\ TypeOK /\ ListedOnce /\ ForksApart /\ CpuOK(c) /\ cpu[c].sched = "back" /\ cpu[c] \in Cpu /\ cpu[c].proc = p
        /\ Release(PLock(p)) /\ proc' = proc /\ list' = list /\ nextpid' = nextpid
    BY <1>p, FieldTypes DEF ProcInv, SchedBack
  <1>2. /\ p \in Procs /\ cpu[c].intr = "none" /\ cpu[c].wk = "none"
        /\ proc[p].state \in {"RUNNABLE", "SLEEPING", "ZOMBIE"} /\ proc[p].yl # "add"
    <2>1. cpu[c].proc # Nil /\ cpu[c].proc \in Procs \cup {Nil}
      BY <1>1, FieldTypes DEF CpuOK
    <2>2. QED
      BY <1>1, <2>1 DEF CpuOK
  <1>3. Owned(c, p)
    BY <1>1, <1>2, OwnRunning
  <1>4. cpu' = [cpu EXCEPT ![c] = r]
    BY <1>1 DEF SchedBack, TypeOK
  <1>5. r \in Cpu /\ r.proc = Nil /\ r.sched = "loop" /\ r.intr = "none" /\ r.wk = "none"
    BY <1>1, <1>2 DEF Cpu
  <1> HIDE DEF r
  <1>6. cpu' \in [Cpus -> Cpu] /\ cpu'[c] = r /\ \A d \in Cpus : d # c => cpu'[d] = cpu[d]
    BY <1>1, <1>4, <1>5, PutCpu
  <1>7. LockMove(c, {PLock(p)}, {}) /\ lock' \in [LockNames -> Cpus \cup {NoCpu}]
    BY <1>1, <1>2, LockDrop, Names
  <1>8. TypeOK'
    BY <1>1, <1>6, <1>7 DEF TypeOK
  <1>9. Held(c) = {PLock(p)} /\ Held(c)' = {} /\ Adds(c) = {} /\ Adds(c)' = {} /\ Takes(c) = {} /\ Takes(c)' = {}
    BY <1>1, <1>2, <1>5, <1>6 DEF Held, SchedKept, IntrKept, WakeKept, Adds, Takes
  <1>10. LockMove(c, Held(c), Held(c)')
    BY <1>7, <1>9
  <1>11. StepOf(c, X)
    BY <1>0, <1>1, <1>2, <1>3, <1>5, <1>6, <1>9 DEF StepOf, SameThread
  <1>12. ListMove(c, X) /\ ListedOnce' /\ ForksApart'
    BY SMT, <1>1 DEF ListMove, ListedOnce, OnList, ForksApart
  <1>13. CpuOK(c)'
    BY <1>5, <1>6 DEF CpuOK
  <1>14. ThreadOK(p) /\ WorkOK(p) /\ Listed(p)
    BY <1>2 DEF ProcInv
  <1>15. ThreadOK(p)' /\ WorkOK(p)'
    BY <1>1, <1>2, <1>14 DEF ThreadOK, WorkOK, Ready, OnList
  <1>16. Listed(p)'
    <2>1. \A d \in Cpus : p \notin Adds(d) /\ p \notin Adds(d)'
      BY <1>0, <1>9, <1>11, OthersLeave
    <2>2. Place(p) = ListOf(proc[p].state) /\ Place(p)' = ListOf(proc[p].state)
      BY <1>1, <1>2, <2>1 DEF Place
    <2>3. QED
      BY <1>1, <1>14, <2>2 DEF Listed, OnList
  <1>17. \A q \in Procs, x \in X : q \notin X /\ proc[q].pc \in {"fkParent", "fkReady"} => proc[q].loc # x
    BY <1>0, <1>2, RunningNotForked
  <1>18. \A x \in X : ThreadOK(x)' /\ WorkOK(x)' /\ Listed(x)'
    BY <1>0, <1>15, <1>16
  <1>19. QED
    BY <1>8, <1>10, <1>11, <1>12, <1>13, <1>17, <1>18, Assemble

-----------------------------------------------------------------------------
(* wakeup()                                                                *)

\* Where a CPU is that runs wakeup(): in an interrupt, or in exit().
LEMMA WakeRuns ==
  ASSUME ProcInv, NEW c \in Cpus, cpu[c].wk # "none"
  PROVE  /\ cpu[c].sched \in {"loop", "run"} /\ (cpu[c].sched = "loop" => cpu[c].proc = Nil)
         /\ cpu[c].sched = "run" =>
              /\ cpu[c].proc \in Procs /\ proc[cpu[c].proc].state = "RUNNING" /\ proc[cpu[c].proc].yl = "none"
              /\ proc[cpu[c].proc].pc \in FreePcs \cup {"exReparent", "exZombie"}
  <1>1. CpuOK(c) /\ cpu[c].proc \in Procs \cup {Nil}
    BY FieldTypes DEF ProcInv
  <1>2. CASE cpu[c].intr # "none"
    BY <1>1, <1>2 DEF CpuOK
  <1>3. CASE cpu[c].intr = "none"
    <2>1. cpu[c].sched = "run" /\ proc[cpu[c].proc].pc \in {"exReparent", "exZombie"} /\ cpu[c].proc # Nil
      BY <1>1, <1>3 DEF CpuOK
    <2>2. cpu[c].proc \in Procs /\ proc[cpu[c].proc].pc \in LockPcs
      BY <1>1, <2>1 DEF LockPcs
    <2>3. proc[cpu[c].proc].state = "RUNNING" /\ proc[cpu[c].proc].yl = "none"
      BY <2>2, LockPcRuns
    <2>4. QED
      BY <2>1, <2>2, <2>3
  <1>4. QED
    BY <1>2, <1>3

\* Process x is where it belongs: about to be added by c, or on the list of its state.
Placed(c, x) ==
  \/ x \in Adds(c) /\ NotOn(x)
  \/ x \notin Adds(c) /\ proc[x].state # "RUNNING" /\ \E k \in ListNames : k \in ListOf(proc[x].state) /\ OnlyOn(x, k)
  \/ x \notin Adds(c) /\ proc[x].state = "USED" /\ NotOn(x)

\* A process that is where it belongs for c is so for all CPUs.
LEMMA PlacedListed ==
  ASSUME ProcInv, NEW c \in Cpus, NEW X, StepOf(c, X), NEW x \in X, Placed(c, x)', x \notin Takes(c)'
  PROVE  Listed(x)'
  <1>1. CASE x \in Adds(c)' /\ NotOn(x)'
    BY <1>1, ListedAdded
  <1>2. CASE /\ x \notin Adds(c)' /\ proc'[x].state # "RUNNING"
             /\ \E k \in ListNames : k \in ListOf(proc'[x].state) /\ OnlyOn(x, k)'
    <2>1. PICK k \in ListNames : k \in ListOf(proc'[x].state) /\ OnlyOn(x, k)'
      BY <1>2
    <2>2. QED
      BY <1>2, <2>1, ListedOn
  <1>3. CASE x \notin Adds(c)' /\ proc'[x].state = "USED" /\ NotOn(x)'
    <2>1. proc'[x].state \in {"RUNNING", "USED"}
      BY <1>3
    <2>2. QED
      BY <1>3, <2>1, ListedOff
  <1>4. QED
    BY <1>1, <1>2, <1>3 DEF Placed

\* How the lists may change when c moves process x.
Moves(c, x) ==
  /\ list' \in [ListNames -> Seq(Procs)] /\ ListedOnce'
  /\ \A q \in Procs, m \in ListNames : q # x => (OnList(q, m)' <=> OnList(q, m))
  /\ \A d \in Cpus : ~OnList(x, Runnable(d))
  /\ OnList(x, Unused) => lock[Unused] \in {c, NoCpu}

\* Moving one process of X is a change of the lists that concerns X only.
LEMMA MovesList ==
  ASSUME NEW c \in Cpus, NEW x, Moves(c, x), NEW X, x \in X
  PROVE  ListMove(c, X)
  <1>1. \A q \in Procs, k \in ListNames : q \notin X => (OnList(q, k)' <=> OnList(q, k))
    BY DEF Moves
  <1>2. \A q \in Procs, d \in Cpus : d # c /\ OnList(q, Runnable(d)) => OnList(q, Runnable(d))'
    BY Names DEF Moves
  <1>3. \A q \in Procs : OnList(q, Unused) => OnList(q, Unused)' \/ lock[Unused] \in {c, NoCpu}
    BY Names DEF Moves
  <1>4. QED
    BY <1>1, <1>2, <1>3 DEF ListMove

\* A step of wakeup() on c that moves process i.
LEMMA WakeStep ==
  ASSUME ProcInv, TypeOK', NEW c \in Cpus, cpu[c].wk # "none", NEW i \in Procs, Owned(c, i),
         proc[i].state \in {"SLEEPING", "RUNNABLE"}, proc'[i].state = "RUNNABLE",
         proc'[i].pc = proc[i].pc, proc'[i].loc = proc[i].loc,
         \A q \in Procs : q # i => SameThread(q), ThreadOK(i)', WorkOK(i)',
         \A d \in Cpus : d # c => cpu'[d] = cpu[d],
         cpu'[c].proc = cpu[c].proc, cpu'[c].sched = cpu[c].sched, cpu'[c].intr = cpu[c].intr,
         cpu'[c].wk # "none", cpu'[c].wk = "add" => cpu'[c].wi = i, cpu[c].wk = "add" => cpu[c].wi = i,
         LockMove(c, Held(c), Held(c)'), Moves(c, i), Placed(c, i)'
  PROVE  ProcInv'
  <1>q. PICK q : q = cpu[c].proc
    OBVIOUS
  <1> DEFINE X == {i} \cup ({q} \ {Nil})
  <1>1. /\ cpu[c].sched \in {"loop", "run"} /\ (cpu[c].sched = "loop" => q = Nil)
        /\ cpu[c].sched = "run" => /\ q \in Procs /\ proc[q].state = "RUNNING" /\ proc[q].yl = "none"
                                   /\ proc[q].pc \in FreePcs \cup {"exReparent", "exZombie"}
    BY <1>q, WakeRuns
  <1>2. /\ i \in X /\ X \subseteq Procs /\ cpu[c].proc \in X \cup {Nil}
        /\ \A x \in X : x = i \/ (x = q /\ cpu[c].sched = "run")
    BY <1>q, <1>1
  <1> HIDE DEF X
  <1>3. q # i /\ (cpu[c].sched = "run" => SameThread(q))
    BY <1>1, NoNames
  <1>4. Adds(c) \subseteq {i} /\ Adds(c)' \subseteq {i} /\ Takes(c) = {} /\ Takes(c)' = {}
    <2>1. Takes(c) = {} /\ Takes(c)' = {}
      BY <1>1 DEF Takes
    <2>2. cpu[c].sched = "run" => proc[q].pc \notin {"fkAdmit", "wtFree", "klAdd"} /\ proc[q].yl # "add"
      BY <1>1 DEF FreePcs
    <2>3. cpu[c].sched = "run" => proc'[q].pc \notin {"fkAdmit", "wtFree", "klAdd"} /\ proc'[q].yl # "add"
      BY <1>3, <2>2 DEF SameThread
    <2>4. QED
      BY <1>q, <1>1, <2>1, <2>2, <2>3 DEF Adds
  <1>5. \A x \in X : Owned(c, x)
    <2>1. cpu[c].sched = "run" => Owned(c, q)
      BY <1>q, <1>1, OwnRunning
    <2>2. QED
      BY <1>2, <2>1
  <1>6. StepOf(c, X)
    BY <1>2, <1>4, <1>5 DEF StepOf
  <1>7. ListMove(c, X)
    BY <1>2, MovesList
  <1>8. CpuOK(c)'
    <2>1. CpuOK(c)
      BY DEF ProcInv
    <2>2. cpu[c].sched = "loop" => CpuOK(c)'
      BY <1>q, <1>1, <2>1 DEF CpuOK
    <2>3. ASSUME cpu[c].sched = "run" PROVE CpuOK(c)'
      BY <1>q, <1>1, <1>3, <2>1, <2>3 DEF CpuOK, SameThread
    <2>4. QED
      BY <1>1, <2>2, <2>3
  <1>9. ForksApart'
    <2>1. \A r \in Procs : proc'[r].pc \in ForkPcs => proc[r].pc \in ForkPcs /\ proc'[r].loc = proc[r].loc
      BY DEF SameThread
    <2>2. QED
      BY <2>1, ForksKept
  <1>10. ASSUME cpu[c].sched = "run" PROVE ThreadOK(q)' /\ WorkOK(q)' /\ Listed(q)'
    <2>1. ThreadOK(q)'
      BY <1>q, <1>1, <1>3, <1>10 DEF ThreadOK, SameThread
    <2>2. WorkOK(q)'
      <3>1. WorkOK(q)
        BY <1>1, <1>10 DEF ProcInv
      <3>2. proc[q].pc \notin WorkPcs \/ proc[q].pc = "kill" \/ proc[q].pc \in ForkPcs
        BY <1>1, <1>10 DEF FreePcs, WorkPcs, ForkPcs
      <3>3. \A r \in Procs : proc[r].state = "USED" => proc'[r].state = "USED"
        BY DEF SameThread
      <3>4. QED
        BY <1>1, <1>3, <1>10, <3>1, <3>2, <3>3, WorkKept DEF SameThread
    <2>3. Listed(q)'
      <3>1. NotOn(q)
        BY <1>q, <1>1, <1>10, RunningOff
      <3>2. NotOn(q)'
        BY <1>1, <1>3, <1>10, <3>1 DEF NotOn, Moves
      <3>3. q \in X /\ q \notin Adds(c)' /\ q \notin Takes(c)' /\ proc'[q].state \in {"RUNNING", "USED"}
        BY <1>q, <1>1, <1>2, <1>3, <1>4, <1>10, NoNames DEF SameThread
      <3>4. QED
        BY <1>6, <3>2, <3>3, ListedOff
    <2>4. QED
      BY <2>1, <2>2, <2>3
  <1>11. Listed(i)'
    <2>1. i \notin Takes(c)'
      BY <1>4
    <2>2. QED
      BY <1>2, <1>6, <2>1, PlacedListed
  <1>12. \A r \in Procs, x \in X : r \notin X /\ proc[r].pc \in {"fkParent", "fkReady"} => proc[r].loc # x
    <2>1. \A x \in X : x \in Procs /\ proc[x].state # "USED"
      BY <1>1, <1>2
    <2>2. QED
      BY <2>1, RunningNotForked
  <1>13. \A x \in X : ThreadOK(x)' /\ WorkOK(x)' /\ Listed(x)'
    BY <1>2, <1>10, <1>11
  <1>14. ListedOnce'
    BY DEF Moves
  <1>15. QED
    BY <1>6, <1>7, <1>8, <1>9, <1>12, <1>13, <1>14, Assemble

\* wakeup() taking a sleeper off the sleeping list keeps the invariant.
LEMMA WakeTakeOK ==
  ASSUME ProcInv, NEW c \in Cpus, WakeTake(c), ~BLNCFLG
  PROVE  ProcInv'
  <1>i. PICK i : i = cpu[c].wi
    OBVIOUS
  <1> DEFINE t == [proc[i] EXCEPT !.state = "RUNNABLE"]
             r == [cpu[c] EXCEPT !.wk = "add"]
  <1>1. /\ TypeOK /\ ListedOnce /\ cpu[c] \in Cpu /\ cpu[c].wk = "scan" /\ Acquire(c, PLock(i))
        /\ proc[i].state = "SLEEPING" /\ Delist(Sleeping, i) /\ nextpid' = nextpid
        /\ proc' = [proc EXCEPT ![i].state = "RUNNABLE"] /\ cpu' = [cpu EXCEPT ![c].wk = "add"]
    BY <1>i, FieldTypes DEF ProcInv, WakeTake, Balanced, Counted
  <1>2. i \in Procs
    <2>1. cpu[c].wi \in 0 .. NPROC + 1 /\ cpu[c].wi < NPROC
      BY <1>1, FieldTypes DEF WakeTake
    <2>2. QED
      BY SMT, <1>i, <2>1, ProcAssumption DEF Procs
  <1>3. proc[i] \in Thread /\ ThreadOK(i)
    BY <1>1, <1>2, FieldTypes DEF ProcInv
  <1>4. /\ t \in Thread /\ t.state = "RUNNABLE" /\ t.pc = proc[i].pc /\ t.loc = proc[i].loc /\ t.yl = proc[i].yl
    BY <1>3 DEF Thread
  <1>5. proc' = [proc EXCEPT ![i] = t]
    BY <1>1, <1>2 DEF TypeOK
  <1>6. /\ r \in Cpu /\ r.proc = cpu[c].proc /\ r.sched = cpu[c].sched /\ r.intr = cpu[c].intr
        /\ r.wk = "add" /\ r.wi = i
    BY <1>i, <1>1 DEF Cpu
  <1>7. cpu' = [cpu EXCEPT ![c] = r]
    BY <1>1 DEF TypeOK
  <1> HIDE DEF t, r
  <1>8. /\ proc' \in [Procs -> Thread] /\ proc'[i] = t
        /\ \A q \in Procs : q # i => proc'[q] = proc[q] /\ SameThread(q)
    BY <1>1, <1>2, <1>4, <1>5, PutProc
  <1>9. cpu' \in [Cpus -> Cpu] /\ cpu'[c] = r /\ \A d \in Cpus : d # c => cpu'[d] = cpu[d]
    BY <1>1, <1>6, <1>7, PutCpu
  <1>10. PLock(i) \in LockNames /\ Sleeping \in ListNames /\ ListOf(proc[i].state) = {Sleeping} /\ Free(PLock(i))
    BY <1>1, <1>2, Names DEF ListOf, Acquire
  <1>11. OnlyOn(i, Sleeping) /\ OnList(i, Sleeping)
    BY <1>2, <1>10, FreeListed
  <1>12. /\ list' \in [ListNames -> Seq(Procs)] /\ ListedOnce'
         /\ \A q \in Procs, m \in ListNames : q # i => (OnList(q, m)' <=> OnList(q, m))
         /\ \A m \in ListNames : ~OnList(i, m)'
    BY <1>1, <1>2, <1>10, <1>11, Leaves
  <1>13. Moves(c, i)
    <2>1. ~OnList(i, Unused) /\ \A d \in Cpus : ~OnList(i, Runnable(d))
      BY <1>11, Names, NamesDiffer DEF OnlyOn
    <2>2. QED
      BY <1>12, <2>1 DEF Moves
  <1>14. LockMove(c, Held(c), Held(c) \cup {PLock(i)}) /\ lock' \in [LockNames -> Cpus \cup {NoCpu}]
    BY <1>1, <1>10, HeldTake
  <1>15. TypeOK'
    BY <1>1, <1>8, <1>9, <1>12, <1>14 DEF TypeOK
  <1>16. Owned(c, i)
    BY <1>1, <1>2, <1>10, OwnLocked
  <1>17. Held(c)' = Held(c) \cup {PLock(i)}
    <2>1. cpu[c].sched \in {"loop", "run"} /\ (cpu[c].sched = "run" => /\ cpu[c].proc \in Procs
                                                                     /\ proc[cpu[c].proc].state = "RUNNING")
      BY <1>1, WakeRuns
    <2>2. ASSUME cpu[c].sched = "run" PROVE Kept(cpu[c].proc)' = Kept(cpu[c].proc)
      <3>q. PICK q : q = cpu[c].proc
        OBVIOUS
      <3>1. SameThread(q) /\ cpu'[c].proc = q
        BY <3>q, <1>1, <1>6, <1>8, <1>9, <2>1, <2>2
      <3>2. Kept(q)' = Kept(q)
        BY <3>1, SameKept
      <3>3. QED
        BY <3>q, <3>1, <3>2 DEF Kept
    <2>3. SchedKept(c)' = SchedKept(c)
      BY <1>6, <1>9, <2>1, <2>2 DEF SchedKept
    <2>4. IntrKept(c)' = IntrKept(c) /\ WakeKept(c) = {} /\ WakeKept(c)' = {PLock(i)}
      BY <1>1, <1>6, <1>9 DEF IntrKept, WakeKept
    <2>5. QED
      BY <2>3, <2>4 DEF Held
  <1>18. LockMove(c, Held(c), Held(c)')
    BY <1>14, <1>17
  <1>19. proc[i].pc \in AsleepPcs /\ proc[i].yl = "none"
    BY <1>1, <1>3 DEF ThreadOK
  <1>20. ThreadOK(i)' /\ WorkOK(i)'
    BY <1>4, <1>8, <1>19 DEF ThreadOK, WorkOK, Ready, AsleepPcs
  <1>21. Placed(c, i)'
    <2>1. i \in Adds(c)'
      BY <1>6, <1>9 DEF Adds
    <2>2. QED
      BY <1>12, <2>1 DEF Placed, NotOn
  <1>22. /\ cpu[c].wk # "none" /\ proc[i].state \in {"SLEEPING", "RUNNABLE"} /\ proc'[i].state = "RUNNABLE"
         /\ proc'[i].pc = proc[i].pc /\ proc'[i].loc = proc[i].loc /\ \A q \in Procs : q # i => SameThread(q)
         /\ \A d \in Cpus : d # c => cpu'[d] = cpu[d]
         /\ cpu'[c].proc = cpu[c].proc /\ cpu'[c].sched = cpu[c].sched /\ cpu'[c].intr = cpu[c].intr
         /\ cpu'[c].wk # "none" /\ (cpu'[c].wk = "add" => cpu'[c].wi = i) /\ (cpu[c].wk = "add" => cpu[c].wi = i)
    BY <1>i, <1>1, <1>4, <1>6, <1>8, <1>9
  <1>23. QED
    BY <1>2, <1>13, <1>15, <1>16, <1>18, <1>20, <1>21, <1>22, WakeStep

\* wakeup() putting it on the runnable list keeps the invariant.
LEMMA WakeAddOK ==
  ASSUME ProcInv, NEW c \in Cpus, WakeAdd(c), ~BLNCFLG
  PROVE  ProcInv'
  <1>i. PICK i : i = cpu[c].wi
    OBVIOUS
  <1> DEFINE r == WakeNext(cpu[c])
             k == Runnable(0)
  <1>1. /\ TypeOK /\ ListedOnce /\ CpuOK(c) /\ cpu[c] \in Cpu /\ cpu[c].wk = "add" /\ Enlist(k, i)
        /\ Release(PLock(i)) /\ proc' = proc /\ nextpid' = nextpid /\ cpu' = [cpu EXCEPT ![c] = r]
    BY <1>i, FieldTypes DEF ProcInv, WakeAdd, AdmitTo
  <1>2. i \in Procs /\ proc[i].state = "RUNNABLE" /\ i \in Adds(c) /\ 0 \in Cpus /\ i < NPROC
    <2>1. i \in Procs /\ proc[i].state = "RUNNABLE" /\ i \in Adds(c)
      BY <1>i, <1>1 DEF CpuOK, Adds
    <2>2. 0 \in Cpus /\ i < NPROC
      BY SMT, <2>1, ProcAssumption DEF Cpus, Procs
    <2>3. QED
      BY <2>1, <2>2
  <1>3. /\ r \in Cpu /\ r.wk = "scan" /\ r.proc = cpu[c].proc /\ r.sched = cpu[c].sched /\ r.intr = cpu[c].intr
    BY <1>i, <1>1, <1>2, WakeNextIs
  <1>4. k \in ListNames /\ k \in ListOf("RUNNABLE") /\ PLock(i) \in LockNames
    BY <1>2, Names DEF ListOf
  <1> HIDE DEF r, k
  <1>5. cpu' \in [Cpus -> Cpu] /\ cpu'[c] = r /\ \A d \in Cpus : d # c => cpu'[d] = cpu[d]
    BY <1>1, <1>3, PutCpu
  <1>6. NotOn(i)
    BY <1>2, AddedOff
  <1>7. /\ list' \in [ListNames -> Seq(Procs)] /\ ListedOnce'
        /\ \A q \in Procs, m \in ListNames : q # i => (OnList(q, m)' <=> OnList(q, m))
        /\ \A m \in ListNames : OnList(i, m)' <=> m = k
    BY <1>1, <1>2, <1>4, <1>6, Joins DEF NotOn
  <1>8. Moves(c, i)
    <2>1. ~OnList(i, Unused) /\ \A d \in Cpus : ~OnList(i, Runnable(d))
      BY <1>6, Names DEF NotOn
    <2>2. QED
      BY <1>7, <2>1 DEF Moves
  <1>9. PLock(i) \in Held(c)
    BY <1>i, <1>1 DEF Held, WakeKept
  <1>10. LockMove(c, Held(c), Held(c) \ {PLock(i)}) /\ lock' \in [LockNames -> Cpus \cup {NoCpu}]
    BY <1>1, <1>9, HeldDrop
  <1>11. TypeOK'
    BY <1>1, <1>5, <1>7, <1>10 DEF TypeOK
  <1>12. Owned(c, i)
    <2>1. lock[PLock(i)] = c
      BY <1>2, AddsLocked
    <2>2. QED
      BY <1>2, <2>1, OwnLocked
  <1>13. Held(c)' = Held(c) \ {PLock(i)}
    <2>1. cpu[c].sched \in {"loop", "run"} /\ (cpu[c].sched = "run" => /\ cpu[c].proc \in Procs
               /\ proc[cpu[c].proc].yl = "none" /\ proc[cpu[c].proc].pc \in FreePcs \cup {"exReparent", "exZombie"})
      BY <1>1, WakeRuns
    <2>2. cpu[c].sched = "run" => Kept(cpu[c].proc) \subseteq {WaitLock}
      BY <2>1 DEF Kept, FreePcs
    <2>3. SchedKept(c)' = SchedKept(c) /\ SchedKept(c) \subseteq {WaitLock}
      BY <1>1, <1>3, <1>5, <2>1, <2>2 DEF SchedKept, Kept
    <2>4. IntrKept(c)' = IntrKept(c) /\ IntrKept(c) \subseteq {TicksLock, DiskLock}
      BY <1>3, <1>5 DEF IntrKept
    <2>5. WakeKept(c) = {PLock(i)} /\ WakeKept(c)' = {}
      BY <1>i, <1>1, <1>3, <1>5 DEF WakeKept
    <2>6. PLock(i) \notin {WaitLock, TicksLock, DiskLock}
      BY <1>2, NamesDiffer
    <2>7. QED
      BY <2>3, <2>4, <2>5, <2>6 DEF Held
  <1>14. LockMove(c, Held(c), Held(c)')
    BY <1>10, <1>13
  <1>15. ThreadOK(i) /\ WorkOK(i) /\ \A q \in Procs : SameThread(q)
    BY <1>1, <1>2 DEF ProcInv, SameThread
  <1>16. ThreadOK(i)'
    <2>1. \A d \in Cpus : cpu'[d].proc = cpu[d].proc
      BY <1>3, <1>5
    <2>2. QED
      BY <1>1, <1>15, <2>1 DEF ThreadOK, Ready
  <1>17. WorkOK(i)'
    <2>1. proc[i].pc \notin WorkPcs \/ proc[i].pc = "kill" \/ proc[i].pc \in ForkPcs
      BY <1>2, <1>15 DEF ThreadOK, Ready, FreePcs, WorkPcs, ForkPcs, AsleepPcs
    <2>2. QED
      BY <1>1, <1>2, <1>15, <2>1, WorkKept
  <1>18. Placed(c, i)'
    <2>1. cpu[c].sched = "run" =>
            /\ proc[cpu[c].proc].yl = "none" /\ proc[cpu[c].proc].pc \in FreePcs \cup {"exReparent", "exZombie"}
      BY <1>1, WakeRuns
    <2>2. i \notin Adds(c)'
      BY <1>1, <1>3, <1>5, <2>1 DEF Adds, FreePcs
    <2>3. OnlyOn(i, k)'
      BY <1>7 DEF OnlyOn
    <2>4. proc'[i].state = "RUNNABLE" /\ k \in ListOf(proc'[i].state)
      BY <1>1, <1>2, <1>4
    <2>5. QED
      BY <1>4, <2>2, <2>3, <2>4 DEF Placed
  <1>19. QED
    BY <1>i, <1>1, <1>2, <1>3, <1>5, <1>8, <1>11, <1>12, <1>14, <1>15, <1>16, <1>17, <1>18, WakeStep
=============================================================================
