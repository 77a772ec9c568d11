----------------------------- MODULE LogProofs ------------------------------
(***************************************************************************)
(* Proofs about module Log.  The control of begin_op(), end_op() and       *)
(* commit(): commits run alone, and a sleeper in begin_op() will be woken. *)
(* The blocks: what the calls, the buffer cache and write_log() do to the  *)
(* invariant, and to what LogSpec sees.  Commit, recovery and crash, and   *)
(* the theorems: the invariant LogInv, and that Log implements LogSpec for *)
(* any blocks, contents, processes and sizes.                              *)
(***************************************************************************)
EXTENDS Log, FiniteSetTheorems, TLAPS

Labels == {"idle", "begin", "asleep", "op", "hold", "dirty", "logged", "panic",
           "writeLog", "install", "committed"}

\* The parts of the type invariant that the control needs.
ControlType ==
  /\ pc \in [Procs -> Labels] /\ lh \in Seq(Blocks)
  /\ outstanding \in Nat /\ committing \in BOOLEAN /\ boot \in {"readHead", "install", "up"}

\* Zenon proves the leaves that name no other prover.
USE ZenonT(60)

\* The types the control part needs.
LEMMA TypeControl == TypeOK => ControlType
  BY DEF TypeOK, ControlType, Labels

\* While a process commits no other is in a call.
LEMMA NoneActive ==
  ASSUME ControlOK, ControlType, committing
  PROVE  Active = {}
  BY FS_EmptySet DEF ControlOK

\* A call that is active is counted, and there is no commit.
LEMMA ActiveCounts ==
  ASSUME ControlOK, ControlType, NEW p \in Active
  PROVE  outstanding > 0 /\ ~committing /\ boot = "up" /\ \A q \in Procs : ~Commits(q)
  <1>1. outstanding # 0
    BY FS_EmptySet DEF ControlOK
  <1>2. outstanding > 0
    BY SMT, <1>1 DEF ControlType
  <1>3. ~committing
    BY <1>1 DEF ControlOK
  <1>4. boot = "up"
    BY DEF ControlOK, Active
  <1> QED
    BY <1>2, <1>3, <1>4 DEF ControlOK

\* A step of a call between begin_op() and end_op() that logs nothing.
LEMMA CallStep ==
  ASSUME ControlOK, ControlType, NEW p \in Active,
         NEW label \in {"op", "hold", "dirty", "logged", "panic"}, Goto(p, label),
         UNCHANGED <<lh, outstanding, committing, boot>>
  PROVE  ControlOK'
  <1>1. \A q \in Procs : pc'[q] = IF q = p THEN label ELSE pc[q]
    BY DEF Goto, ControlType, Active
  <1>2. Active' = Active
    BY <1>1 DEF Active
  <1>3. \A q \in Procs : Commits(q)' <=> Commits(q)
    BY <1>1 DEF Active, Commits
  <1>4. MustWait' = MustWait
    BY DEF MustWait
  <1>5. SleepersHaveWaker'
    BY <1>1, <1>4 DEF ControlOK, SleepersHaveWaker
  <1> QED
    BY <1>1, <1>2, <1>3, <1>5, ActiveCounts DEF ControlOK

\* begin_op() sleeps: there is a commit or a call that will wake it.
LEMMA BeginSleepControl ==
  ASSUME ControlOK, ControlType, NEW p \in Procs, BeginSleep(p)
  PROVE  ControlOK'
  <1>1. \A q \in Procs : pc'[q] = IF q = p THEN "asleep" ELSE pc[q]
    BY DEF BeginSleep, Goto, ControlType
  <1>2. Active' = Active
    BY <1>1 DEF Active, BeginSleep
  <1>3. \A q \in Procs : Commits(q)' <=> Commits(q)
    BY <1>1 DEF BeginSleep, Commits
  <1>4. MustWait' = MustWait /\ MustWait
    BY DEF MustWait, BeginSleep, logVars
  <1>5. committing \/ outstanding > 0
    <2>1. SUFFICES ASSUME ~committing, outstanding = 0 PROVE FALSE
      BY SMT DEF ControlType
    <2>2. lh = << >>
      BY <2>1 DEF ControlOK, BeginSleep
    <2>3. Len(lh) = 0
      BY <2>2
    <2>4. 0 + (0 + 1) * MAXOPBLOCKS > LOGSIZE
      BY <1>4, <2>1, <2>3 DEF MustWait
    <2> QED
      BY SMT, <2>4, LogAssumption
  <1>6. SleepersHaveWaker'
    BY <1>1, <1>4, <1>5 DEF ControlOK, SleepersHaveWaker, BeginSleep, logVars
  <1> QED
    BY <1>1, <1>2, <1>3, <1>6 DEF ControlOK, BeginSleep, logVars

\* begin_op() starts a call: nobody sleeps, for there is room.
LEMMA BeginOpControl ==
  ASSUME ControlOK, ControlType, NEW p \in Procs, BeginOp(p)
  PROVE  ControlOK'
  <1>0. ~committing /\ ~MustWait /\ boot = "up" /\ p \notin Active
    BY DEF BeginOp, MustWait, Active
  <1>1. \A q \in Procs : pc'[q] = IF q = p THEN "op" ELSE pc[q]
    BY DEF BeginOp, Goto, ControlType
  <1>2. Active' = Active \cup {p}
    BY <1>1 DEF Active
  <1>3. IsFiniteSet(Active') /\ outstanding' = Cardinality(Active')
    BY <1>0, <1>2, FS_AddElement DEF ControlOK, BeginOp
  <1>4. \A q \in Procs : ~Commits(q)'
    BY <1>0, <1>1 DEF ControlOK, Commits
  <1>5. SleepersHaveWaker'
    BY <1>0, <1>1 DEF ControlOK, SleepersHaveWaker
  <1>6. outstanding' # 0
    BY SMT DEF BeginOp, ControlType
  <1> QED
    BY <1>0, <1>1, <1>3, <1>4, <1>5, <1>6 DEF ControlOK, BeginOp, Commits

\* log_write() only makes the log longer.
LEMMA LogWriteControl ==
  ASSUME ControlOK, ControlType, NEW p \in Procs, NEW b \in Blocks, LogWrite(p, b)
  PROVE  ControlOK'
  <1>0. p \in Active
    BY DEF LogWrite, Active
  <1>1. \A q \in Procs : pc'[q] = IF q = p THEN (IF Full THEN "panic" ELSE "logged") ELSE pc[q]
    BY DEF LogWrite, Goto, ControlType
  <1>2. Active' = Active
    BY <1>0, <1>1 DEF Active
  <1>3. \A q \in Procs : ~Commits(q)' /\ ~Commits(q)
    BY <1>0, <1>1, ActiveCounts DEF Commits
  <1>4. Len(lh') >= Len(lh) /\ Len(lh') \in Nat /\ Len(lh) \in Nat
    <2>1. CASE lh' = lh
      BY SMT, <2>1 DEF ControlType
    <2>2. CASE lh' = Append(lh, b)
      BY SMT, <2>2 DEF ControlType
    <2> QED
      BY <2>1, <2>2 DEF LogWrite
  <1>5. MustWait => MustWait'
    <2> DEFINE r == (outstanding + 1) * MAXOPBLOCKS
    <2>1. r \in Nat /\ LOGSIZE \in Nat
      BY SMT, LogAssumption DEF ControlType
    <2>2. MustWait <=> committing \/ Len(lh) + r > LOGSIZE
      BY DEF MustWait
    <2>3. MustWait' <=> committing \/ Len(lh') + r > LOGSIZE
      BY DEF MustWait, LogWrite
    <2> HIDE DEF r
    <2> QED
      BY SMT, <1>4, <2>1, <2>2, <2>3
  <1>6. SleepersHaveWaker'
    BY <1>1, <1>5 DEF ControlOK, SleepersHaveWaker, LogWrite
  <1> QED
    BY SMT, <1>0, <1>1, <1>2, <1>3, <1>6, ActiveCounts DEF ControlOK, LogWrite, Commits

\* end_op() of a call that is not the last wakes all who sleep.
LEMMA EndOpControl ==
  ASSUME ControlOK, ControlType, NEW p \in Procs, EndOp(p)
  PROVE  ControlOK'
  <1>0. p \in Active /\ outstanding > 1
    BY DEF EndOp, Active
  <1>1. \A q \in Procs : pc'[q] = IF q = p THEN "idle" ELSE IF pc[q] = "asleep" THEN "begin" ELSE pc[q]
    BY DEF EndOp, GotoWaking
  <1>2. Active' = Active \ {p}
    BY <1>1 DEF Active
  <1>3. IsFiniteSet(Active') /\ outstanding' = Cardinality(Active')
    BY <1>0, <1>2, FS_RemoveElement DEF ControlOK, EndOp
  <1>4. \A q \in Procs : ~Commits(q)'
    BY <1>0, <1>1, ActiveCounts DEF Commits
  <1>5. SleepersHaveWaker'
    BY <1>1 DEF SleepersHaveWaker
  <1>6. outstanding' # 0
    BY SMT, <1>0 DEF EndOp, ControlType
  <1> QED
    BY <1>0, <1>1, <1>3, <1>4, <1>5, <1>6, ActiveCounts DEF ControlOK, EndOp, Commits

\* end_op() of the last call makes it the one that commits.
LEMMA EndOpCommitControl ==
  ASSUME ControlOK, ControlType, NEW p \in Procs, EndOpCommit(p)
  PROVE  ControlOK'
  <1>0. p \in Active /\ outstanding = 1 /\ outstanding' = 0 /\ committing'
    BY DEF EndOpCommit, Active
  <1>1. \A q \in Procs : pc'[q] = IF q = p THEN (IF lh = << >> THEN "committed" ELSE "writeLog") ELSE pc[q]
    BY DEF EndOpCommit, Goto, ControlType
  <1>2. Active' = Active \ {p}
    BY <1>1 DEF Active
  <1>3. IsFiniteSet(Active') /\ outstanding' = Cardinality(Active')
    <2>1. IsFiniteSet(Active) /\ Cardinality(Active) = 1
      BY <1>0 DEF ControlOK
    <2>2. IsFiniteSet(Active \ {p}) /\ Cardinality(Active \ {p}) = 1 - 1
      BY <1>0, <2>1, FS_RemoveElement
    <2> QED
      BY SMT, <1>0, <1>2, <2>2
  <1>4. \A q \in Procs : Commits(q)' => q = p
    BY <1>0, <1>1, ActiveCounts DEF Commits
  <1>5. SleepersHaveWaker'
    BY <1>0, <1>1 DEF SleepersHaveWaker, MustWait
  <1>6. \A q \in Procs : pc'[q] = "committed" => lh' = << >>
    BY <1>1, <1>4 DEF EndOpCommit, Commits
  <1> QED
    BY <1>0, <1>1, <1>3, <1>4, <1>5, <1>6, ActiveCounts DEF ControlOK, EndOpCommit

\* A step of commit() to another of its labels, which may empty the log.
LEMMA CommitterStep ==
  ASSUME ControlOK, ControlType, NEW p \in Procs, Commits(p),
         NEW label \in {"writeLog", "install", "committed"}, pc' = [pc EXCEPT ![p] = label],
         lh' = lh \/ lh' = << >>, label = "committed" => lh' = << >>,
         UNCHANGED <<outstanding, committing, boot>>
  PROVE  ControlOK'
  <1>1. \A q \in Procs : pc'[q] = IF q = p THEN label ELSE pc[q]
    BY DEF ControlType
  <1>2. committing /\ Active = {}
    BY NoneActive DEF ControlOK
  <1>3. Active' = Active
    BY <1>1, <1>2 DEF Active
  <1>4. \A q \in Procs : Commits(q)' <=> Commits(q)
    BY <1>1 DEF Commits
  <1>5. SleepersHaveWaker'
    BY <1>2 DEF SleepersHaveWaker, MustWait
  <1>6. \A q \in Procs : pc'[q] = "committed" => lh' = << >>
    BY <1>1 DEF ControlOK
  <1> QED
    BY <1>1, <1>2, <1>3, <1>4, <1>5, <1>6 DEF ControlOK, Commits

\* A step outside log.lock that moves no process.
LEMMA OtherStep ==
  ASSUME ControlOK, UNCHANGED <<pc, lh, outstanding, committing, boot>>
  PROVE  ControlOK'
  <1>1. Active' = Active /\ (\A q \in Procs : Commits(q)' <=> Commits(q)) /\ MustWait' = MustWait
    BY DEF Active, Commits, MustWait
  <1> QED
    BY <1>1 DEF ControlOK, SleepersHaveWaker

\* The end of commit() wakes all who sleep.
LEMMA CommitDoneControl ==
  ASSUME ControlOK, ControlType, NEW p \in Procs, CommitDone(p)
  PROVE  ControlOK'
  <1>0. Commits(p) /\ committing /\ Active = {} /\ lh = << >> /\ boot = "up"
    BY NoneActive DEF ControlOK, CommitDone, Commits
  <1>1. \A q \in Procs : pc'[q] = IF q = p THEN "idle" ELSE IF pc[q] = "asleep" THEN "begin" ELSE pc[q]
    BY DEF CommitDone, GotoWaking
  <1>2. Active' = Active
    BY <1>0, <1>1 DEF Active
  <1>3. \A q \in Procs : ~Commits(q)'
    BY <1>0, <1>1 DEF Commits, ControlOK
  <1>4. SleepersHaveWaker'
    BY <1>1 DEF SleepersHaveWaker
  <1> QED
    BY <1>0, <1>2, <1>3, <1>4 DEF ControlOK, CommitDone, Commits

\* Nothing runs before recovery has finished, and it leaves an empty log.
LEMMA RecoverControl ==
  ASSUME ControlOK, ControlType, Recover
  PROVE  ControlOK'
  <1>0. boot # "up" /\ ~committing /\ \A q \in Procs : pc[q] = "idle"
    BY DEF Recover, RecoverRead, RecoverInstall, RecoverClear, ControlOK
  <1>1. pc' = pc /\ outstanding' = outstanding /\ committing' = committing
    BY DEF Recover, RecoverRead, RecoverInstall, RecoverClear, logVars
  <1>2. Active' = Active /\ \A q \in Procs : ~Commits(q)'
    BY <1>0, <1>1 DEF Active, Commits
  <1>3. boot' = "up" => lh' = << >>
    BY <1>0 DEF Recover, RecoverRead, RecoverInstall, RecoverClear
  <1> QED
    BY <1>0, <1>1, <1>2, <1>3 DEF ControlOK, SleepersHaveWaker, Commits

\* At boot, and after a crash, nobody is in a call.
LEMMA BootControl ==
  ASSUME pc = [p \in Procs |-> "idle"], lh = << >>, outstanding = 0, committing = FALSE, boot = "readHead"
  PROVE  ControlOK
  <1>1. Active = {}
    BY DEF Active
  <1>2. IsFiniteSet(Active) /\ Cardinality(Active) = 0
    BY <1>1, FS_EmptySet
  <1> QED
    BY <1>2 DEF ControlOK, SleepersHaveWaker, Commits

\* After a crash nobody is in a call.
LEMMA CrashControl ==
  ASSUME Crash
  PROVE  ControlOK'
  <1>1. Active' = {}
    BY DEF Active, Crash
  <1>2. IsFiniteSet(Active') /\ Cardinality(Active') = 0
    BY <1>1, FS_EmptySet
  <1> QED
    BY <1>2 DEF ControlOK, SleepersHaveWaker, Commits, Crash

\* Every step keeps the control of begin_op(), end_op() and commit() right.
LEMMA ControlNext ==
  ASSUME ControlOK, ControlType, [Next]_vars
  PROVE  ControlOK'
  <1>1. CASE UNCHANGED vars
    BY <1>1, OtherStep DEF vars, logVars
  <1>2. ASSUME NEW p \in Procs, BeginSleep(p) \/ BeginOp(p) \/ EndOp(p) \/ EndOpCommit(p)
        PROVE  ControlOK'
    BY <1>2, BeginSleepControl, BeginOpControl, EndOpControl, EndOpCommitControl
  <1>3. ASSUME NEW p \in Procs, NEW b \in Blocks, NEW d \in Data, Modify(p, b, d)
        PROVE  ControlOK'
    <2>1. p \in Active /\ Goto(p, "dirty") /\ UNCHANGED <<lh, outstanding, committing, boot>>
      BY <1>3 DEF Modify, Active, logVars
    <2> QED
      BY <2>1, CallStep
  <1>4. ASSUME NEW p \in Procs, NEW b \in Blocks, LogWrite(p, b)
        PROVE  ControlOK'
    BY <1>4, LogWriteControl
  <1>5. ASSUME NEW p \in Procs, WriteLog(p) \/ Install(p)
        PROVE  ControlOK'
    BY <1>5, OtherStep DEF WriteLog, Install, logVars
  <1>6. ASSUME NEW p \in Procs, WriteHead(p)
        PROVE  ControlOK'
    BY <1>6, CommitterStep DEF WriteHead, Goto, logVars, Commits
  <1>7. ASSUME NEW p \in Procs, ClearLog(p)
        PROVE  ControlOK'
    BY <1>7, CommitterStep DEF ClearLog, Goto, Commits
  <1>8. ASSUME NEW p \in Procs, CommitDone(p)
        PROVE  ControlOK'
    BY <1>8, CommitDoneControl
  <1>9. ASSUME NEW b \in Blocks, Load(b) \/ Evict(b)
        PROVE  ControlOK'
    BY <1>9, OtherStep DEF Load, Evict, logVars
  <1>10. ASSUME NEW p \in Procs, NEW b \in Blocks, Bread(p, b) \/ Brelse(p, b)
         PROVE  ControlOK'
    <2>1. p \in Active
      BY <1>10 DEF Bread, Brelse, Active
    <2>2. \E label \in {"op", "hold", "dirty", "logged", "panic"} : Goto(p, label)
      BY <1>10 DEF Bread, Brelse
    <2>3. UNCHANGED <<lh, outstanding, committing, boot>>
      BY <1>10 DEF Bread, Brelse, logVars
    <2> QED
      BY <2>1, <2>2, <2>3, CallStep
  <1> QED
    BY <1>1, <1>2, <1>3, <1>4, <1>5, <1>6, <1>7, <1>8, <1>9, <1>10, RecoverControl, CrashControl
       DEF Next, OpStep, CommitStep

-----------------------------------------------------------------------------
(* What a recovery would leave on the disk                                 *)

\* Recovered is a function of the blocks.
LEMMA SameRecovered ==
  ASSUME \A b \in Blocks : Recovered'[b] = Recovered[b]
  PROVE  Recovered' = Recovered
  BY DEF Recovered

\* install_trans() leaves a logged block as its copy in the log, ...
LEMMA RecoveredIn ==
  ASSUME TypeOK, Distinct(headDisk), NEW i \in 1 .. Len(headDisk)
  PROVE  headDisk[i] \in Blocks /\ Recovered[headDisk[i]] = logDisk[i]
  <1>1. headDisk[i] \in Blocks
    BY SMT DEF TypeOK
  <1>2. \A j \in 1 .. Len(headDisk) : headDisk[j] = headDisk[i] => j = i
    BY DEF Distinct
  <1>3. (CHOOSE j \in 1 .. Len(headDisk) : headDisk[j] = headDisk[i]) = i
    BY <1>2
  <1> QED
    BY <1>1, <1>3 DEF Recovered

\* ... and the others as they are, ...
LEMMA RecoveredOut ==
  ASSUME NEW b \in Blocks, \A i \in 1 .. Len(headDisk) : headDisk[i] # b
  PROVE  Recovered[b] = disk[b]
  BY DEF Recovered

\* ... all of them when the header is empty.
LEMMA RecoveredEmpty ==
  ASSUME headDisk = << >>, NEW b \in Blocks
  PROVE  Recovered[b] = disk[b]
  BY SMT, RecoveredOut

\* What recovery leaves is block contents.
LEMMA RecoveredType ==
  ASSUME LogInv, NEW b \in Blocks
  PROVE  Recovered[b] \in Data
  <1>0. TypeOK /\ Distinct(headDisk) /\ Len(headDisk) <= Len(logDisk)
    BY DEF LogInv, LogOK
  <1>1. CASE \E i \in 1 .. Len(headDisk) : headDisk[i] = b
    <2>1. PICK i \in 1 .. Len(headDisk) : headDisk[i] = b
      BY <1>1
    <2>2. i \in 1 .. Len(logDisk)
      BY SMT, <1>0 DEF TypeOK
    <2>3. Recovered[b] = logDisk[i]
      BY <1>0, <2>1, RecoveredIn
    <2>4. logDisk[i] \in Data
      BY SMT, <1>0, <2>2 DEF TypeOK
    <2> QED
      BY <2>3, <2>4
  <1>2. CASE \A i \in 1 .. Len(headDisk) : headDisk[i] # b
    BY <1>0, <1>2, RecoveredOut DEF TypeOK
  <1> QED
    BY <1>1, <1>2

-----------------------------------------------------------------------------
(* The phases                                                              *)

\* Installing: some commit is in install_trans().
Installing == \E p \in Procs : pc[p] = "install"

\* While a call is active there is no commit, and the header on disk is empty.
LEMMA ActivePhase ==
  ASSUME LogInv, NEW p \in Active
  PROVE  /\ boot = "up" /\ headDisk = << >> /\ outstanding > 0
         /\ \A q \in Procs : ~Commits(q)
         /\ \A b \in Blocks : Pending(b) <=> InLog(b)
         /\ \A b \in Blocks : Recovered[b] = disk[b]
  <1>1. boot = "up" /\ outstanding > 0 /\ \A q \in Procs : ~Commits(q)
    BY ActiveCounts, TypeControl DEF LogInv
  <1>2. headDisk = << >>
    BY <1>1 DEF LogInv, LogOK, Commits
  <1>3. \A b \in Blocks : Pending(b) <=> InLog(b)
    BY <1>1 DEF Pending, InLog, Commits
  <1> QED
    BY <1>1, <1>2, <1>3, RecoveredEmpty

\* While a process commits nobody has a buffer, and it is the only one to commit.
LEMMA CommitPhase ==
  ASSUME LogInv, NEW p \in Procs, Commits(p)
  PROVE  /\ boot = "up" /\ committing /\ outstanding = 0
         /\ \A b \in Blocks : holder[b] = Nobody /\ ~Dirty(b)
         /\ \A q \in Procs : Commits(q) => q = p
  <1>1. ControlOK /\ ControlType /\ HoldersOK /\ TypeOK
    BY TypeControl DEF LogInv
  <1>2. boot = "up" /\ committing /\ outstanding = 0 /\ \A q \in Procs : Commits(q) => q = p
    BY <1>1 DEF ControlOK, Commits
  <1>3. Active = {}
    BY <1>1, <1>2, NoneActive
  <1>4. \A b \in Blocks : holder[b] = Nobody
    BY <1>1, <1>3 DEF HoldersOK, Active, TypeOK
  <1> QED
    BY <1>2, <1>4 DEF Dirty

\* In an up system the disk has what a recovery would leave there, except for the blocks
\* that are still to be installed.
LEMMA DiskRecovered ==
  ASSUME LogInv, boot = "up", NEW b \in Blocks, ~Pending(b)
  PROVE  disk[b] = Recovered[b]
  <1>0. TypeOK /\ LogOK
    BY DEF LogInv
  <1>1. CASE ~Installing
    BY <1>0, <1>1, RecoveredEmpty DEF Installing, LogOK
  <1>2. CASE Installing
    <2>1. PICK p \in Procs : pc[p] = "install"
      BY <1>2 DEF Installing
    <2>2. lh = headDisk /\ \A i \in 1 .. Len(lh) : i < tail => disk[lh[i]] = logDisk[i]
      BY <1>0, <2>1 DEF LogOK
    <2>3. CASE \E i \in 1 .. Len(lh) : lh[i] = b
      <3>1. PICK i \in 1 .. Len(lh) : lh[i] = b
        BY <2>3
      <3>2. ~(i >= tail)
        BY <2>1, <3>1 DEF Pending
      <3>3. i < tail
        BY SMT, <1>0, <3>2 DEF TypeOK
      <3> QED
        BY <1>0, <2>2, <3>1, <3>3, RecoveredIn DEF LogOK
    <2>4. CASE \A i \in 1 .. Len(lh) : lh[i] # b
      BY <2>2, <2>4, RecoveredOut
    <2> QED
      BY <2>3, <2>4
  <1> QED
    BY <1>1, <1>2

\* bread() of a block returns what the file system reads, and a cached block.
LEMMA ReadCurrent ==
  ASSUME LogInv, boot = "up", NEW b \in Blocks
  PROVE  Read(b) = Current[b] /\ Read(b) \in Data /\ Read(b) # NotCached
  <1>0. TypeOK /\ CacheOK
    BY DEF LogInv
  <1>1. Read(b) \in Data /\ Read(b) # NotCached
    BY SMT, <1>0, LogAssumption DEF Read, TypeOK
  <1>2. CASE cache[b] = NotCached
    <2>1. ~Pending(b)
      BY <1>0, <1>2 DEF CacheOK
    <2> QED
      BY <1>1, <1>2, <2>1, DiskRecovered DEF Read, Current
  <1>3. CASE cache[b] # NotCached
    BY <1>1, <1>3 DEF Read, Current
  <1> QED
    BY <1>2, <1>3

-----------------------------------------------------------------------------
(* begin_op(), end_op(): no block is touched                               *)

\* The data part of the invariant, and that a step leaves alone what the promise is about.
DataOK == HoldersOK /\ CacheOK /\ LogOK
SameBlocks == UNCHANGED <<Current, Recovered>>

\* A step that only moves calls through begin_op(), end_op() and the start of commit().
LEMMA QuietStep ==
  ASSUME LogInv, UNCHANGED <<diskVars, cacheVars, lh, boot>>,
         \A q \in Procs : \/ pc'[q] = pc[q]
                          \/ /\ pc[q] \in {"idle", "begin", "asleep", "op", "committed"}
                             /\ pc'[q] \in {"idle", "begin", "asleep", "op", "committed", "writeLog"},
         \/ tail' = tail /\ \A q \in Procs : pc'[q] = "writeLog" => pc[q] = "writeLog"
         \/ tail' = 1 /\ ~Installing
  PROVE  DataOK' /\ SameBlocks
  <1>0. TypeOK /\ HoldersOK /\ CacheOK /\ LogOK
    BY DEF LogInv
  <1>1. \A q \in Procs : pc'[q] = "install" <=> pc[q] = "install"
    OBVIOUS
  <1>2. \A b \in Blocks : Pending(b)' <=> Pending(b)
    BY <1>1 DEF Pending, Installing
  <1>3. \A b \in Blocks : holder[b] # Nobody => pc'[holder[b]] = pc[holder[b]]
    BY <1>0 DEF HoldersOK, TypeOK
  <1>4. \A b \in Blocks : Dirty(b)' <=> Dirty(b)
    BY <1>3 DEF Dirty, cacheVars
  <1>5. Recovered' = Recovered
    BY DEF Recovered, diskVars
  <1>6. Current' = Current
    BY <1>5 DEF Current, cacheVars
  <1>7. HoldersOK'
    BY <1>0, <1>3 DEF HoldersOK, cacheVars
  <1>8. CacheOK'
    BY <1>0, <1>2, <1>4, <1>5 DEF CacheOK, cacheVars
  <1>9. LogOK'
    <2>0. disk' = disk /\ logDisk' = logDisk /\ headDisk' = headDisk /\ cache' = cache
      BY DEF diskVars, cacheVars
    <2>1. /\ Distinct(lh') /\ Distinct(headDisk') /\ Len(headDisk') <= Len(logDisk')
          /\ boot' = "up" /\ (\A p \in Procs : pc'[p] # "install") => headDisk' = << >>
          /\ boot' = "readHead" => lh' = << >>
          /\ boot' = "install" => lh' = headDisk'
      BY SMT, <1>0, <1>1, <2>0 DEF LogOK, Distinct
    <2>2. CASE tail' = tail /\ \A q \in Procs : pc'[q] = "writeLog" => pc[q] = "writeLog"
      BY SMT, <1>0, <1>1, <2>0, <2>1, <2>2 DEF LogOK, Distinct
    <2>3. CASE tail' = 1 /\ ~Installing
      <3>1. \A i \in 1 .. Len(lh) : ~(i < 1)
        BY SMT
      <3>2. 1 - 1 <= Len(logDisk) /\ 1 <= Len(lh) + 1
        BY SMT, <1>0 DEF TypeOK
      <3> QED
        BY <1>1, <2>0, <2>1, <2>3, <3>1, <3>2 DEF LogOK, Distinct, Installing
    <2> QED
      BY <2>2, <2>3
  <1> QED
    BY <1>5, <1>6, <1>7, <1>8, <1>9 DEF DataOK, SameBlocks

\* begin_op() and end_op() are such steps.
LEMMA BeginEndStep ==
  ASSUME LogInv, NEW p \in Procs,
         BeginSleep(p) \/ BeginOp(p) \/ EndOp(p) \/ EndOpCommit(p) \/ CommitDone(p)
  PROVE  DataOK' /\ SameBlocks
  <1>0. pc \in [Procs -> Labels]
    BY TypeControl DEF LogInv, ControlType
  <1>1. CASE BeginSleep(p) \/ BeginOp(p)
    <2>1. UNCHANGED <<diskVars, cacheVars, lh, boot, tail>>
      BY <1>1 DEF BeginSleep, BeginOp, logVars
    <2>2. \A q \in Procs : \/ pc'[q] = pc[q]
                           \/ pc[q] \in {"idle", "begin"} /\ pc'[q] \in {"asleep", "op"}
      BY <1>0, <1>1 DEF BeginSleep, BeginOp, Goto
    <2> QED
      BY <2>1, <2>2, QuietStep
  <1>2. CASE EndOp(p) \/ CommitDone(p)
    <2>1. UNCHANGED <<diskVars, cacheVars, lh, boot, tail>>
      BY <1>2 DEF EndOp, CommitDone
    <2>2. \A q \in Procs : \/ pc'[q] = pc[q]
                           \/ pc[q] \in {"op", "committed", "asleep"} /\ pc'[q] \in {"idle", "begin"}
      BY <1>0, <1>2 DEF EndOp, CommitDone, GotoWaking
    <2> QED
      BY <2>1, <2>2, QuietStep
  <1>3. CASE EndOpCommit(p)
    <2>1. UNCHANGED <<diskVars, cacheVars, lh, boot>> /\ tail' = 1
      BY <1>3 DEF EndOpCommit
    <2>2. p \in Active
      BY <1>3 DEF EndOpCommit, Active
    <2>3. ~Installing
      BY <2>2, ActivePhase DEF Installing, Commits
    <2>4. \A q \in Procs : \/ pc'[q] = pc[q]
                           \/ pc[q] = "op" /\ pc'[q] \in {"committed", "writeLog"}
      BY <1>0, <1>3 DEF EndOpCommit, Goto
    <2> QED
      BY <2>1, <2>3, <2>4, QuietStep
  <1> QED
    BY <1>1, <1>2, <1>3


-----------------------------------------------------------------------------
(* bread(), a change of the block, log_write() and brelse()                *)

\* What a step of an active call needs to show: only p moves, to another label of a call.
CallMoves(p, label) == \A q \in Procs : pc'[q] = IF q = p THEN label ELSE pc[q]

\* What stays true when an active call moves, whatever it does to lh.
LEMMA CallMoved ==
  ASSUME LogInv, NEW p \in Active, NEW label \in {"op", "hold", "dirty", "logged", "panic"},
         CallMoves(p, label), UNCHANGED <<diskVars, boot>>, lh' \in Seq(Blocks), Distinct(lh')
  PROVE  /\ \A b \in Blocks : Pending(b) <=> InLog(b)
         /\ \A b \in Blocks : Pending(b)' <=> InLog(b)'
         /\ Recovered' = Recovered /\ boot = "up" /\ boot' = "up"
         /\ LogOK'
  <1>0. TypeOK /\ LogOK
    BY DEF LogInv
  <1>1. /\ boot = "up" /\ headDisk = << >> /\ \A q \in Procs : ~Commits(q)
        /\ \A b \in Blocks : Pending(b) <=> InLog(b)
    BY ActivePhase
  <1>2. \A q \in Procs : pc'[q] \notin {"install", "writeLog"}
    BY <1>1 DEF CallMoves, Commits
  <1>3. \A b \in Blocks : Pending(b)' <=> InLog(b)'
    BY <1>2 DEF Pending, InLog
  <1>4. Recovered' = Recovered
    BY DEF Recovered, diskVars
  <1>5. Distinct(headDisk') /\ Len(headDisk') <= Len(logDisk') /\ headDisk' = << >> /\ boot' = "up"
    BY SMT, <1>0, <1>1 DEF LogOK, diskVars, Distinct
  <1>6. LogOK'
    BY <1>2, <1>5 DEF LogOK, Distinct
  <1> QED
    BY <1>1, <1>3, <1>4, <1>5, <1>6

\* The process that moves is the holder of at most the one buffer.
LEMMA HoldsNone ==
  ASSUME LogInv, NEW p \in Procs, pc[p] \in {"idle", "op"}, NEW b \in Blocks
  PROVE  holder[b] # p
  BY LogAssumption DEF LogInv, HoldersOK

\* bread() by a call: the block comes from the cache or from the disk.
LEMMA BreadStep ==
  ASSUME LogInv, NEW p \in Procs, NEW b \in Blocks, Bread(p, b)
  PROVE  DataOK' /\ SameBlocks
  <1>0. TypeOK /\ HoldersOK /\ CacheOK /\ LogOK
    BY DEF LogInv
  <1>1. p \in Active /\ CallMoves(p, "hold") /\ UNCHANGED <<diskVars, boot, lh, pins>>
    BY <1>0 DEF Bread, Active, CallMoves, Goto, TypeOK, logVars
  <1>2. /\ \A c \in Blocks : Pending(c) <=> InLog(c)
        /\ \A c \in Blocks : Pending(c)' <=> InLog(c)'
        /\ Recovered' = Recovered /\ boot = "up" /\ boot' = "up"
        /\ LogOK'
    <2>1. lh \in Seq(Blocks) /\ Distinct(lh) /\ lh' = lh
      BY <1>0, <1>1 DEF LogOK, TypeOK
    <2>2. lh' \in Seq(Blocks) /\ Distinct(lh')
      BY <2>1
    <2> QED
      BY <1>1, <2>2, CallMoved
  <1>3. \A c \in Blocks : holder[c] # p
    BY HoldsNone DEF Bread
  <1>4. \A c \in Blocks : holder'[c] = IF c = b THEN p ELSE holder[c]
    BY <1>0 DEF Bread, TypeOK
  <1>5. holder[b] = Nobody /\ p # Nobody
    BY LogAssumption DEF Bread
  <1>6. HoldersOK'
    <2>1. ASSUME NEW c \in Blocks, holder'[c] # Nobody
          PROVE  pc'[holder'[c]] \in {"hold", "dirty", "logged", "panic"}
      <3>1. CASE c = b
        BY <1>1, <1>4, <3>1 DEF CallMoves
      <3>2. CASE c # b
        <4>1. holder'[c] = holder[c] /\ holder[c] \in Procs /\ holder[c] # p
          BY <1>0, <1>3, <1>4, <2>1, <3>2 DEF TypeOK
        <4>2. pc[holder[c]] \in {"hold", "dirty", "logged", "panic"}
          BY <1>0, <2>1, <4>1 DEF HoldersOK
        <4> QED
          BY <1>1, <4>1, <4>2 DEF CallMoves
      <3> QED
        BY <3>1, <3>2
    <2>2. \A c, e \in Blocks : holder'[c] = holder'[e] /\ holder'[c] # Nobody => c = e
      BY <1>0, <1>3, <1>4 DEF HoldersOK
    <2> QED
      BY <2>1, <2>2 DEF HoldersOK
  <1>7. \A c \in Blocks : Dirty(c)' <=> Dirty(c)
    <2>1. ~Dirty(b) /\ ~Dirty(b)'
      BY <1>1, <1>4, <1>5 DEF Dirty, CallMoves
    <2>2. \A c \in Blocks : c # b => (Dirty(c)' <=> Dirty(c))
      BY SMT, <1>0, <1>1, <1>3, <1>4 DEF Dirty, CallMoves, TypeOK
    <2> QED
      BY <2>1, <2>2
  <1>8. \A c \in Blocks : Pending(c)' <=> Pending(c)
    BY <1>1, <1>2 DEF InLog
  <1>9. Read(b) = Current[b] /\ Read(b) # NotCached
    BY <1>2, ReadCurrent
  <1>10. \A c \in Blocks : cache'[c] = IF c = b THEN Current[b] ELSE cache[c]
    BY <1>0, <1>9 DEF Bread, TypeOK
  <1>11. CacheOK'
    BY <1>0, <1>1, <1>2, <1>7, <1>8, <1>9, <1>10 DEF CacheOK, Current
  <1>12. \A c \in Blocks : Current'[c] = Current[c]
    BY <1>2, <1>9, <1>10 DEF Current
  <1>13. Current' = Current
    BY <1>12 DEF Current
  <1> QED
    BY <1>2, <1>6, <1>11, <1>13 DEF DataOK, SameBlocks

\* brelse() by a call.
LEMMA BrelseStep ==
  ASSUME LogInv, NEW p \in Procs, NEW b \in Blocks, Brelse(p, b)
  PROVE  DataOK' /\ SameBlocks
  <1>0. TypeOK /\ HoldersOK /\ CacheOK /\ LogOK
    BY DEF LogInv
  <1>1. p \in Active /\ CallMoves(p, "op") /\ UNCHANGED <<diskVars, boot, lh, pins, cache>>
    BY <1>0 DEF Brelse, Active, CallMoves, Goto, TypeOK, logVars
  <1>2. /\ \A c \in Blocks : Pending(c) <=> InLog(c)
        /\ \A c \in Blocks : Pending(c)' <=> InLog(c)'
        /\ Recovered' = Recovered /\ boot = "up" /\ boot' = "up"
        /\ LogOK'
    <2>1. lh \in Seq(Blocks) /\ Distinct(lh) /\ lh' = lh
      BY <1>0, <1>1 DEF LogOK, TypeOK
    <2>2. lh' \in Seq(Blocks) /\ Distinct(lh')
      BY <2>1
    <2> QED
      BY <1>1, <2>2, CallMoved
  <1>3. holder[b] = p /\ p # Nobody /\ pc[p] \in {"hold", "logged"}
    BY LogAssumption DEF Brelse
  <1>4. \A c \in Blocks : holder'[c] = IF c = b THEN Nobody ELSE holder[c]
    BY <1>0 DEF Brelse, TypeOK
  <1>5. \A c \in Blocks : c # b => holder[c] # p
    BY <1>0, <1>3 DEF HoldersOK
  <1>6. HoldersOK'
    BY SMT, <1>0, <1>1, <1>3, <1>4, <1>5 DEF HoldersOK, CallMoves, TypeOK
  <1>7. \A c \in Blocks : Dirty(c)' <=> Dirty(c)
    <2>1. ~Dirty(b) /\ ~Dirty(b)'
      BY <1>3, <1>4 DEF Dirty
    <2>2. \A c \in Blocks : c # b => (Dirty(c)' <=> Dirty(c))
      BY SMT, <1>0, <1>1, <1>4, <1>5 DEF Dirty, CallMoves, TypeOK
    <2> QED
      BY <2>1, <2>2
  <1>8. \A c \in Blocks : Pending(c)' <=> Pending(c)
    BY <1>1, <1>2 DEF InLog
  <1>9. CacheOK'
    BY <1>0, <1>1, <1>2, <1>7, <1>8 DEF CacheOK
  <1>10. Current' = Current
    BY <1>1, <1>2 DEF Current
  <1> QED
    BY <1>2, <1>6, <1>9, <1>10 DEF DataOK, SameBlocks


\* The block is dirty: what the file system reads changes, and nothing else does.
LEMMA ModifyStep ==
  ASSUME LogInv, NEW p \in Procs, NEW b \in Blocks, NEW d \in Data, Modify(p, b, d)
  PROVE  DataOK' /\ Recovered' = Recovered /\ Current' = [Current EXCEPT ![b] = d]
  <1>0. TypeOK /\ HoldersOK /\ CacheOK /\ LogOK
    BY DEF LogInv
  <1>1. p \in Active /\ CallMoves(p, "dirty") /\ UNCHANGED <<diskVars, boot, lh, pins, holder>>
    BY <1>0 DEF Modify, Active, CallMoves, Goto, TypeOK, logVars
  <1>2. /\ \A c \in Blocks : Pending(c) <=> InLog(c)
        /\ \A c \in Blocks : Pending(c)' <=> InLog(c)'
        /\ Recovered' = Recovered /\ boot = "up" /\ boot' = "up"
        /\ LogOK'
    <2>1. lh \in Seq(Blocks) /\ Distinct(lh) /\ lh' = lh
      BY <1>0, <1>1 DEF LogOK, TypeOK
    <2>2. lh' \in Seq(Blocks) /\ Distinct(lh')
      BY <2>1
    <2> QED
      BY <1>1, <2>2, CallMoved
  <1>3. holder[b] = p /\ p # Nobody
    BY LogAssumption DEF Modify
  <1>4. \A c \in Blocks : c # b => holder[c] # p
    BY <1>0, <1>3 DEF HoldersOK
  <1>5. HoldersOK'
    BY <1>0, <1>1 DEF HoldersOK, CallMoves, TypeOK
  <1>6. \A c \in Blocks : c # b => (Dirty(c)' <=> Dirty(c))
    BY <1>0, <1>1, <1>4 DEF Dirty, CallMoves, TypeOK
  <1>7. Dirty(b)'
    BY <1>1, <1>3 DEF Dirty, CallMoves
  <1>8. \A c \in Blocks : Pending(c)' <=> Pending(c)
    BY <1>1, <1>2 DEF InLog
  <1>9. \A c \in Blocks : cache'[c] = IF c = b THEN d ELSE cache[c]
    BY <1>0 DEF Modify, TypeOK
  <1>10. d # NotCached
    BY LogAssumption
  <1>11. CacheOK'
    BY <1>0, <1>1, <1>2, <1>6, <1>7, <1>8, <1>9, <1>10 DEF CacheOK
  <1>12. \A c \in Blocks : Current'[c] = IF c = b THEN d ELSE Current[c]
    BY <1>2, <1>9, <1>10 DEF Current
  <1>13. Current' = [Current EXCEPT ![b] = d]
    BY <1>12 DEF Current
  <1> QED
    BY <1>2, <1>5, <1>11, <1>13 DEF DataOK

\* log_write() adds a block that is not in the log yet.
LEMMA AppendDistinct ==
  ASSUME NEW s \in Seq(Blocks), Distinct(s), NEW b \in Blocks, \A i \in 1 .. Len(s) : s[i] # b
  PROVE  /\ Append(s, b) \in Seq(Blocks) /\ Distinct(Append(s, b))
         /\ \A c \in Blocks : (\E i \in 1 .. Len(Append(s, b)) : Append(s, b)[i] = c)
                              <=> c = b \/ \E i \in 1 .. Len(s) : s[i] = c
  <1> DEFINE t == Append(s, b)
  <1>1. /\ t \in Seq(Blocks) /\ Len(t) = Len(s) + 1 /\ Len(s) \in Nat
        /\ \A i \in 1 .. Len(s) + 1 : t[i] = IF i = Len(s) + 1 THEN b ELSE s[i]
    BY SMT
  <1> HIDE DEF t
  <1>2. Distinct(t)
    BY SMT, <1>1 DEF Distinct
  <1>3. ASSUME NEW c \in Blocks
        PROVE  (\E i \in 1 .. Len(t) : t[i] = c) <=> c = b \/ \E i \in 1 .. Len(s) : s[i] = c
    <2>1. ASSUME NEW i \in 1 .. Len(t), t[i] = c
          PROVE  c = b \/ \E j \in 1 .. Len(s) : s[j] = c
      <3>1. CASE i = Len(s) + 1
        BY <1>1, <2>1, <3>1
      <3>2. CASE i # Len(s) + 1
        <4>1. i \in 1 .. Len(s) /\ t[i] = s[i]
          BY SMT, <1>1, <3>2
        <4> QED
          BY <2>1, <4>1
      <3> QED
        BY <3>1, <3>2
    <2>2. Len(s) + 1 \in 1 .. Len(t) /\ t[Len(s) + 1] = b
      BY SMT, <1>1
    <2>3. ASSUME NEW i \in 1 .. Len(s), s[i] = c
          PROVE  i \in 1 .. Len(t) /\ t[i] = c
      BY SMT, <1>1, <2>3
    <2> QED
      BY <2>1, <2>2, <2>3
  <1>4. t \in Seq(Blocks) /\ Distinct(t)
    BY <1>1, <1>2
  <1> QED
    BY <1>3, <1>4 DEF t

\* log_write(): a dirty block is logged and pinned, once.
LEMMA LogWriteStep ==
  ASSUME LogInv, NEW p \in Procs, NEW b \in Blocks, LogWrite(p, b)
  PROVE  DataOK' /\ SameBlocks /\ lh' \in Seq(Blocks) /\ pins' \in [Blocks -> Nat]
  <1> DEFINE label == IF Full THEN "panic" ELSE "logged"
             new == ~Full /\ ~InLog(b)
  <1>0. TypeOK /\ HoldersOK /\ CacheOK /\ LogOK
    BY DEF LogInv
  <1>1. p \in Active /\ CallMoves(p, label) /\ UNCHANGED <<diskVars, boot, cache, holder>>
    BY <1>0 DEF LogWrite, Active, CallMoves, Goto, TypeOK
  <1>2. holder[b] = p /\ p # Nobody /\ pc[p] = "dirty" /\ Dirty(b)
    BY LogAssumption DEF LogWrite, Dirty
  <1>3. \A c \in Blocks : c # b => holder[c] # p
    BY <1>0, <1>2 DEF HoldersOK
  <1>4. /\ lh' \in Seq(Blocks) /\ Distinct(lh')
        /\ \A c \in Blocks : InLog(c)' <=> InLog(c) \/ (new /\ c = b)
    <2>1. CASE new
      <3>1. lh' = Append(lh, b)
        BY <2>1 DEF LogWrite
      <3>2. lh \in Seq(Blocks) /\ Distinct(lh) /\ \A i \in 1 .. Len(lh) : lh[i] # b
        BY <1>0, <2>1 DEF LogOK, TypeOK, InLog
      <3>3. /\ lh' \in Seq(Blocks) /\ Distinct(lh')
            /\ \A c \in Blocks : (\E i \in 1 .. Len(lh') : lh'[i] = c)
                                 <=> c = b \/ \E i \in 1 .. Len(lh) : lh[i] = c
        BY SMT, <3>1, <3>2, AppendDistinct
      <3> QED
        BY <2>1, <3>3 DEF InLog
    <2>2. CASE ~new
      <3>1. lh' = lh
        BY <2>2 DEF LogWrite
      <3> QED
        BY SMT, <1>0, <2>2, <3>1 DEF InLog, LogOK, TypeOK, Distinct
    <2> QED
      BY <2>1, <2>2
  <1>5. label \in {"panic", "logged"}
    OBVIOUS
  <1>6. /\ \A c \in Blocks : Pending(c) <=> InLog(c)
        /\ \A c \in Blocks : Pending(c)' <=> InLog(c)'
        /\ Recovered' = Recovered /\ boot = "up" /\ boot' = "up"
        /\ LogOK'
    <2> HIDE DEF label
    <2> QED
      BY <1>1, <1>4, <1>5, CallMoved
  <1>7. HoldersOK'
    BY <1>0, <1>1 DEF HoldersOK, CallMoves, TypeOK
  <1>8. \A c \in Blocks : c # b => (Dirty(c)' <=> Dirty(c))
    BY <1>0, <1>1, <1>3 DEF Dirty, CallMoves, TypeOK
  <1>9. Dirty(b)' <=> Full
    BY <1>1, <1>2 DEF Dirty, CallMoves
  <1>10. \A c \in Blocks : Pending(c)' <=> Pending(c) \/ (new /\ c = b)
    BY <1>4, <1>6
  <1>11. \A c \in Blocks : pins'[c] = IF new /\ c = b THEN pins[c] + 1 ELSE pins[c]
    BY <1>0 DEF LogWrite, TypeOK
  <1>12. pins' \in [Blocks -> Nat]
    <2>1. pins \in [Blocks -> Nat] /\ pins[b] + 1 \in Nat
      BY SMT, <1>0 DEF TypeOK
    <2>2. pins' = pins \/ pins' = [pins EXCEPT ![b] = pins[b] + 1]
      BY DEF LogWrite
    <2> QED
      BY <2>1, <2>2
  <1>13. CacheOK'
    <2>1. cache[b] # NotCached
      BY <1>0, <1>2 DEF CacheOK
    <2>2. new => ~Pending(b)
      BY <1>6
    <2>3. ~Full => Pending(b)'
      BY <1>6, <1>10
    <2> HIDE DEF new
    <2>4. \A c \in Blocks : pins'[c] = IF Pending(c)' THEN 1 ELSE 0
      BY SMT, <1>0, <1>6, <1>10, <1>11, <2>2 DEF CacheOK
    <2>5. \A c \in Blocks : Pending(c)' \/ Dirty(c)' => cache'[c] # NotCached
      BY <1>0, <1>1, <1>6, <1>8, <1>10, <2>1 DEF CacheOK
    <2>6. \A c \in Blocks : ~Pending(c)' /\ ~Dirty(c)' => cache'[c] \in {NotCached, Recovered'[c]}
      BY <1>0, <1>1, <1>6, <1>8, <1>9, <1>10, <2>3 DEF CacheOK
    <2> QED
      BY <1>6, <2>4, <2>5, <2>6 DEF CacheOK
  <1>14. Current' = Current
    BY <1>1, <1>6 DEF Current
  <1> QED
    BY <1>4, <1>6, <1>7, <1>12, <1>13, <1>14 DEF DataOK, SameBlocks


-----------------------------------------------------------------------------
(* Readers and the buffer cache's recycling                                *)

\* A clean, unpinned block may enter or leave the cache.
LEMMA CacheMoves ==
  ASSUME LogInv, NEW b \in Blocks, ~(boot = "up" /\ Pending(b)), ~Dirty(b),
         NEW v \in {NotCached, Recovered[b]}, cache' = [cache EXCEPT ![b] = v],
         UNCHANGED <<diskVars, pins, holder, lh, pc, tail, boot>>
  PROVE  DataOK' /\ SameBlocks
  <1>0. TypeOK /\ HoldersOK /\ CacheOK /\ LogOK
    BY DEF LogInv
  <1>1. Recovered' = Recovered
    BY DEF Recovered, diskVars
  <1>2. \A c \in Blocks : (Pending(c)' <=> Pending(c)) /\ (Dirty(c)' <=> Dirty(c))
    BY DEF Pending, Dirty
  <1>3. HoldersOK'
    BY <1>0 DEF HoldersOK
  <1>4. \A c \in Blocks : cache'[c] = IF c = b THEN v ELSE cache[c]
    BY <1>0 DEF TypeOK
  <1>5. CacheOK'
    BY <1>0, <1>1, <1>2, <1>4 DEF CacheOK
  <1>6. \A c \in Blocks : Current'[c] = Current[c]
    <2>1. cache[b] \in {NotCached, Recovered[b]}
      BY <1>0 DEF CacheOK
    <2> QED
      BY <1>1, <1>4, <2>1 DEF Current
  <1>7. Current' = Current
    BY <1>6 DEF Current
  <1>8. ASSUME NEW p \in Procs, Commits(p), NEW i \in 1 .. Len(lh), pc[p] = "install" => i >= tail
        PROVE  cache'[lh[i]] = cache[lh[i]]
    <2>1. boot = "up" /\ \A q \in Procs : Commits(q) => q = p
      BY <1>8, CommitPhase
    <2>2. (\E q \in Procs : pc[q] = "install") => i >= tail
      BY <1>8, <2>1 DEF Commits
    <2>3. lh[i] \in Blocks
      <3>1. lh \in Seq(Blocks)
        BY <1>0 DEF TypeOK
      <3> QED
        BY ONLY <3>1, i \in 1 .. Len(lh)
    <2>4. Pending(lh[i])
      BY <2>2 DEF Pending
    <2> QED
      BY <1>4, <2>1, <2>3, <2>4
  <1>9. LogOK'
    <2>0. /\ disk' = disk /\ logDisk' = logDisk /\ headDisk' = headDisk
          /\ lh' = lh /\ pc' = pc /\ tail' = tail /\ boot' = boot
      BY DEF diskVars
    <2>1. \A p \in Procs : pc[p] = "writeLog" =>
             \A i \in 1 .. Len(lh) : i < tail => logDisk[i] = cache'[lh[i]]
      <3> SUFFICES ASSUME NEW p \in Procs, pc[p] = "writeLog", NEW i \in 1 .. Len(lh), i < tail
                   PROVE  logDisk[i] = cache'[lh[i]]
        OBVIOUS
      <3>1. logDisk[i] = cache[lh[i]]
        BY <1>0 DEF LogOK
      <3>2. Commits(p) /\ pc[p] # "install"
        BY DEF Commits
      <3> QED
        BY <1>8, <3>1, <3>2
    <2>2. \A p \in Procs : pc[p] = "install" =>
             \A i \in 1 .. Len(lh) : IF i < tail THEN disk[lh[i]] = logDisk[i]
                                                  ELSE logDisk[i] = cache'[lh[i]]
      <3> SUFFICES ASSUME NEW p \in Procs, pc[p] = "install", NEW i \in 1 .. Len(lh)
                   PROVE  IF i < tail THEN disk[lh[i]] = logDisk[i] ELSE logDisk[i] = cache'[lh[i]]
        OBVIOUS
      <3>1. IF i < tail THEN disk[lh[i]] = logDisk[i] ELSE logDisk[i] = cache[lh[i]]
        BY <1>0 DEF LogOK
      <3>2. Commits(p) /\ (i < tail \/ i >= tail)
        BY SMT, <1>0 DEF Commits, TypeOK
      <3> QED
        BY <1>8, <3>1, <3>2
    <2>3. /\ Distinct(lh') /\ Distinct(headDisk') /\ Len(headDisk') <= Len(logDisk')
          /\ \A p \in Procs : pc[p] = "writeLog" => tail - 1 <= Len(logDisk) /\ tail <= Len(lh) + 1
          /\ \A p \in Procs : pc[p] = "install" => lh = headDisk
      BY <1>0, <2>0 DEF LogOK
    <2>4. /\ boot = "up" /\ (\A p \in Procs : pc[p] # "install") => headDisk = << >>
          /\ boot = "readHead" => lh = << >>
          /\ boot = "install" => lh = headDisk
          /\ boot = "install" => \A i \in 1 .. Len(lh) : i < tail => disk[lh[i]] = logDisk[i]
      BY <1>0 DEF LogOK
    <2>5. \A p \in Procs : pc'[p] = "writeLog" =>
             /\ tail' - 1 <= Len(logDisk') /\ tail' <= Len(lh') + 1
             /\ \A i \in 1 .. Len(lh') : i < tail' => logDisk'[i] = cache'[lh'[i]]
      BY ONLY Zenon, <2>0, <2>1, <2>3
    <2>6. \A p \in Procs : pc'[p] = "install" =>
             /\ lh' = headDisk'
             /\ \A i \in 1 .. Len(lh') : IF i < tail' THEN disk'[lh'[i]] = logDisk'[i]
                                                    ELSE logDisk'[i] = cache'[lh'[i]]
      BY ONLY Zenon, <2>0, <2>2, <2>3
    <2> QED
      BY ONLY Zenon, <2>0, <2>3, <2>4, <2>5, <2>6 DEF LogOK
  <1> QED
    BY <1>1, <1>3, <1>5, <1>7, <1>9 DEF DataOK, SameBlocks

\* bread() by a reader, and recycling by bget().
LEMMA LoadEvictStep ==
  ASSUME LogInv, NEW b \in Blocks, Load(b) \/ Evict(b)
  PROVE  DataOK' /\ SameBlocks
  <1>0. CacheOK
    BY DEF LogInv
  <1>1. ~Dirty(b) /\ UNCHANGED <<diskVars, pins, holder, lh, pc, tail, boot>>
    BY DEF Load, Evict, Dirty, logVars
  <1>2. CASE Load(b)
    <2>1. boot = "up" /\ ~Pending(b)
      BY <1>0, <1>2 DEF Load, CacheOK
    <2>2. cache' = [cache EXCEPT ![b] = Recovered[b]]
      BY <1>2, <2>1, DiskRecovered DEF Load
    <2> QED
      BY <1>1, <2>1, <2>2, CacheMoves
  <1>3. CASE Evict(b)
    <2>1. ~(boot = "up" /\ Pending(b)) /\ cache' = [cache EXCEPT ![b] = NotCached]
      BY SMT, <1>0, <1>3 DEF Evict, CacheOK
    <2> QED
      BY <1>1, <2>1, CacheMoves
  <1> QED
    BY <1>2, <1>3


-----------------------------------------------------------------------------
(* commit()                                                                *)

\* What a commit finds: the header on disk is empty while the log is written, and is the
\* log while it is installed; the block it comes to next is still pinned.
LEMMA Committing ==
  ASSUME LogInv, NEW p \in Procs, pc[p] \in {"writeLog", "install"}
  PROVE  /\ boot = "up" /\ \A b \in Blocks : holder[b] = Nobody /\ ~Dirty(b)
         /\ \A q \in Procs : pc[q] = "install" => q = p
         /\ \A q \in Procs : pc[q] = "writeLog" => q = p
         /\ pc[p] = "writeLog" => headDisk = << >>
         /\ pc[p] = "install" => headDisk = lh
         /\ tail \in Nat /\ Len(lh) \in Nat
         /\ tail <= Len(lh) => /\ tail \in 1 .. Len(lh) /\ lh[tail] \in Blocks
                               /\ Pending(lh[tail]) /\ cache[lh[tail]] \in Data
  <1>0. TypeOK /\ CacheOK /\ LogOK
    BY DEF LogInv
  <1>1. /\ boot = "up" /\ \A b \in Blocks : holder[b] = Nobody /\ ~Dirty(b)
        /\ \A q \in Procs : Commits(q) => q = p
    BY CommitPhase DEF Commits
  <1>2. \A q \in Procs : pc[q] \in {"writeLog", "install"} => q = p
    BY <1>1 DEF Commits
  <1>3. (pc[p] = "writeLog" => headDisk = << >>) /\ (pc[p] = "install" => headDisk = lh)
    BY <1>0, <1>1, <1>2 DEF LogOK
  <1>4. tail \in Nat /\ tail >= 1 /\ Len(lh) \in Nat
    BY SMT, <1>0 DEF TypeOK
  <1>5. ASSUME tail <= Len(lh)
        PROVE  /\ tail \in 1 .. Len(lh) /\ lh[tail] \in Blocks
               /\ Pending(lh[tail]) /\ cache[lh[tail]] \in Data
    <2>1. tail \in 1 .. Len(lh)
      BY SMT, <1>4, <1>5
    <2>2. lh[tail] \in Blocks
      BY SMT, <1>0, <2>1 DEF TypeOK
    <2>3. Pending(lh[tail])
      BY SMT, <1>4, <2>1 DEF Pending
    <2>4. cache[lh[tail]] # NotCached
      BY <1>0, <1>1, <2>2, <2>3 DEF CacheOK
    <2>5. cache[lh[tail]] \in Data
      BY <1>0, <2>2, <2>4 DEF TypeOK
    <2> QED
      BY <2>1, <2>2, <2>3, <2>5
  <1> QED
    BY <1>1, <1>2, <1>3, <1>4, <1>5

\* write_log() writes one block of the log.
LEMMA SetLogFacts ==
  ASSUME logDisk \in Seq(Data), NEW i \in Nat \ {0}, i - 1 <= Len(logDisk), NEW d \in Data, SetLog(i, d)
  PROVE  /\ logDisk' \in Seq(Data) /\ i <= Len(logDisk') /\ logDisk'[i] = d
         /\ \A j \in 1 .. Len(logDisk) : j # i => logDisk'[j] = logDisk[j]
  <1> DEFINE n == IF i > Len(logDisk) THEN i ELSE Len(logDisk)
             f == [j \in 1 .. n |-> IF j = i THEN d ELSE logDisk[j]]
  <1>1. n \in Nat /\ i \in 1 .. n /\ 1 .. Len(logDisk) \subseteq 1 .. n
    BY SMT
  <1>2. \A j \in 1 .. n : j # i => j \in 1 .. Len(logDisk)
    BY SMT
  <1>3. logDisk' = f
    BY DEF SetLog
  <1> HIDE DEF n
  <1>4. \A j \in 1 .. n : f[j] = (IF j = i THEN d ELSE logDisk[j]) /\ f[j] \in Data
    BY SMT, <1>2
  <1>5. f \in Seq(Data) /\ Len(f) = n
    BY SMT, <1>1, <1>4
  <1> QED
    BY SMT, <1>1, <1>3, <1>4, <1>5

\* write_log(): the next log block gets what the cache holds.
LEMMA WriteLogStep ==
  ASSUME LogInv, NEW p \in Procs, WriteLog(p)
  PROVE  DataOK' /\ SameBlocks /\ cache' = cache /\ logDisk' \in Seq(Data)
  <1>0. TypeOK /\ HoldersOK /\ CacheOK /\ LogOK
    BY DEF LogInv
  <1>1. /\ pc[p] = "writeLog" /\ tail <= Len(lh) /\ tail' = tail + 1
        /\ UNCHANGED <<disk, headDisk, pins, holder, lh, pc, boot>>
    BY DEF WriteLog, logVars
  <1> DEFINE b == lh[tail]
  <1>2. /\ boot = "up" /\ headDisk = << >> /\ tail \in 1 .. Len(lh) /\ b \in Blocks /\ cache[b] \in Data
        /\ \A q \in Procs : pc[q] # "install"
    <2>1. \A q \in Procs : pc[q] = "install" => q = p
      BY <1>1, Committing
    <2> QED
      BY <1>1, <2>1, Committing
  <1>3. Read(b) = cache[b]
    BY <1>2, LogAssumption DEF Read
  <1>4. cache' = cache
    BY <1>0, <1>2, <1>3 DEF WriteLog, TypeOK
  <1>5. SetLog(tail, cache[b]) /\ tail - 1 <= Len(logDisk) /\ tail \in Nat \ {0} /\ logDisk \in Seq(Data)
    BY <1>0, <1>1, <1>3 DEF WriteLog, TypeOK, LogOK
  <1>6. /\ logDisk' \in Seq(Data) /\ tail <= Len(logDisk') /\ logDisk'[tail] = cache[b]
        /\ \A j \in 1 .. Len(logDisk) : j # tail => logDisk'[j] = logDisk[j]
    BY <1>2, <1>5, SetLogFacts
  <1>7. Recovered' = Recovered
    <2>1. \A c \in Blocks : Recovered'[c] = disk[c] /\ Recovered[c] = disk[c]
      <3>1. \A j \in 1 .. Len(headDisk) : FALSE
        BY SMT, <1>2
      <3> QED
        BY <1>1, <3>1 DEF Recovered
    <2> QED
      BY <2>1, SameRecovered
  <1>8. Current' = Current
    BY <1>4, <1>7 DEF Current
  <1>9. HoldersOK'
    BY <1>0, <1>1 DEF HoldersOK
  <1>10. \A c \in Blocks : (Pending(c)' <=> Pending(c)) /\ (Dirty(c)' <=> Dirty(c))
    BY <1>1, <1>2 DEF Pending, Dirty
  <1>11. CacheOK'
    BY <1>0, <1>1, <1>4, <1>7, <1>10 DEF CacheOK
  <1>12. LogOK'
    <2>1. tail' - 1 <= Len(logDisk') /\ tail' <= Len(lh) + 1
      BY SMT, <1>1, <1>2, <1>6
    <2>2. \A j \in 1 .. Len(lh) : j < tail' => logDisk'[j] = cache[lh[j]]
      <3> SUFFICES ASSUME NEW j \in 1 .. Len(lh), j < tail'
                   PROVE  logDisk'[j] = cache[lh[j]]
        OBVIOUS
      <3>1. CASE j = tail
        BY <1>6, <3>1
      <3>2. CASE j # tail
        <4>1. j < tail /\ j \in 1 .. Len(logDisk)
          BY SMT, <1>1, <1>2, <1>5, <3>2
        <4>2. logDisk[j] = cache[lh[j]]
          BY <1>0, <1>1, <4>1 DEF LogOK
        <4> QED
          BY <1>6, <3>2, <4>1, <4>2
      <3> QED
        BY <3>1, <3>2
    <2>3. Distinct(lh') /\ Distinct(headDisk') /\ Len(headDisk') <= Len(logDisk')
      <3>1. Distinct(lh) /\ Distinct(headDisk)
        BY <1>0 DEF LogOK
      <3>2. Len(headDisk) = 0 /\ Len(logDisk') \in Nat
        BY SMT, <1>2, <1>6
      <3> QED
        BY SMT, <1>1, <3>1, <3>2
    <2> QED
      BY <1>1, <1>2, <1>4, <2>1, <2>2, <2>3 DEF LogOK, Distinct
  <1> QED
    BY <1>4, <1>6, <1>7, <1>8, <1>9, <1>11, <1>12 DEF DataOK, SameBlocks

-----------------------------------------------------------------------------
(* Commit, recovery and crash; the theorems                                *)

\* write_head(), the commit point: from now on a crash keeps what the file system reads.
LEMMA WriteHeadStep ==
  ASSUME LogInv, NEW p \in Procs, WriteHead(p)
  PROVE  DataOK' /\ Recovered' = Current /\ Current' = Current
  <1>0. TypeOK /\ HoldersOK /\ CacheOK /\ LogOK
    BY DEF LogInv
  <1>1. /\ pc[p] = "writeLog" /\ tail > Len(lh) /\ tail' = 1 /\ headDisk' = lh
        /\ UNCHANGED <<disk, logDisk, cache, pins, holder, lh, boot>>
        /\ \A q \in Procs : pc'[q] = IF q = p THEN "install" ELSE pc[q]
    BY <1>0 DEF WriteHead, cacheVars, logVars, Goto, TypeOK
  <1>2. /\ boot = "up" /\ headDisk = << >> /\ \A b \in Blocks : holder[b] = Nobody /\ ~Dirty(b)
        /\ \A q \in Procs : pc[q] # "install"
        /\ \A q \in Procs : pc[q] = "writeLog" => q = p
        /\ tail \in Nat /\ Len(lh) \in Nat
    <2>1. \A q \in Procs : pc[q] = "install" => q = p
      BY <1>1, Committing
    <2> QED
      BY <1>1, <2>1, Committing
  <1>3. \A i \in 1 .. Len(lh) : logDisk[i] = cache[lh[i]] /\ lh[i] \in Blocks
    BY SMT, <1>0, <1>1, <1>2 DEF LogOK, TypeOK
  <1>4. Len(lh) <= Len(logDisk)
    BY SMT, <1>0, <1>1, <1>2 DEF LogOK, TypeOK
  <1>5. \A b \in Blocks : Pending(b) <=> InLog(b)
    BY <1>2 DEF Pending, InLog
  <1>6. \A b \in Blocks : Pending(b)' <=> InLog(b)
    <2>1. \A i \in 1 .. Len(lh) : i >= 1
      BY SMT
    <2> QED
      BY <1>1, <2>1 DEF Pending, InLog
  <1>7. \A b \in Blocks : ~Dirty(b)'
    BY <1>1, <1>2 DEF Dirty
  <1>8. ASSUME NEW b \in Blocks
        PROVE  Recovered'[b] = Current[b] /\ (~InLog(b) => Recovered'[b] = Recovered[b])
    <2>1. CASE InLog(b)
      <3>1. PICK i \in 1 .. Len(lh) : lh[i] = b
        BY <2>1 DEF InLog
      <3>2. \A j \in 1 .. Len(lh) : lh[j] = b => j = i
        BY <1>0, <3>1 DEF LogOK, Distinct
      <3>3. (CHOOSE j \in 1 .. Len(lh) : lh[j] = b) = i
        BY <3>1, <3>2
      <3>4. Recovered'[b] = logDisk[i]
        BY <1>1, <3>1, <3>3 DEF Recovered
      <3>5. cache[b] # NotCached
        BY <1>0, <1>2, <1>5, <2>1 DEF CacheOK
      <3>6. Recovered'[b] = cache[b]
        BY <1>3, <3>1, <3>4
      <3> QED
        BY <2>1, <3>5, <3>6 DEF Current
    <2>2. CASE ~InLog(b)
      <3>1. Recovered'[b] = disk[b]
        BY <1>1, <2>2 DEF Recovered, InLog
      <3>2. Recovered[b] = disk[b]
        BY <1>2, RecoveredEmpty
      <3>3. cache[b] \in {NotCached, Recovered[b]}
        BY <1>0, <1>2, <1>5, <2>2 DEF CacheOK
      <3> QED
        BY <3>1, <3>2, <3>3 DEF Current
    <2> QED
      BY <2>1, <2>2
  <1>9. Recovered' = Current
    BY <1>8 DEF Recovered, Current
  <1>10. \A b \in Blocks : Current'[b] = Current[b]
    BY <1>1, <1>8 DEF Current
  <1>11. Current' = Current
    BY <1>10 DEF Current
  <1>12. HoldersOK'
    BY <1>0, <1>1, <1>2 DEF HoldersOK
  <1>13. CacheOK'
    BY <1>0, <1>1, <1>2, <1>5, <1>6, <1>7, <1>8 DEF CacheOK
  <1>14. LogOK'
    <2>1. Distinct(lh') /\ Distinct(headDisk') /\ Len(headDisk') <= Len(logDisk')
      BY SMT, <1>0, <1>1, <1>4 DEF LogOK, Distinct
    <2>2. \A i \in 1 .. Len(lh) : ~(i < 1)
      BY SMT
    <2>3. \A q \in Procs : pc'[q] # "writeLog"
      BY <1>1, <1>2
    <2> QED
      BY <1>1, <1>2, <1>3, <2>1, <2>2, <2>3 DEF LogOK, Distinct
  <1> QED
    BY <1>9, <1>11, <1>12, <1>13, <1>14 DEF DataOK

\* install_trans(): the next block reaches its home and is unpinned.
LEMMA InstallStep ==
  ASSUME LogInv, NEW p \in Procs, Install(p)
  PROVE  /\ DataOK' /\ SameBlocks /\ cache' = cache
         /\ disk' \in [Blocks -> Data] /\ pins' \in [Blocks -> Nat]
  <1>0. TypeOK /\ HoldersOK /\ CacheOK /\ LogOK
    BY DEF LogInv
  <1> DEFINE b == lh[tail]
  <1>1. /\ pc[p] = "install" /\ tail <= Len(lh) /\ tail' = tail + 1
        /\ cache' = [cache EXCEPT ![b] = logDisk[tail]]
        /\ disk' = [disk EXCEPT ![b] = logDisk[tail]]
        /\ pins' = [pins EXCEPT ![b] = pins[b] - 1]
        /\ UNCHANGED <<logDisk, headDisk, holder, lh, pc, boot>>
    BY DEF Install, logVars
  <1>2. /\ boot = "up" /\ headDisk = lh /\ tail \in 1 .. Len(lh) /\ b \in Blocks
        /\ cache[b] \in Data /\ Pending(b)
        /\ \A c \in Blocks : ~Dirty(c)
        /\ \A q \in Procs : pc[q] = "install" => q = p
        /\ \A q \in Procs : pc[q] # "writeLog"
    <2>1. \A q \in Procs : pc[q] = "writeLog" => q = p
      BY <1>1, Committing
    <2> QED
      BY <1>1, <2>1, Committing
  <1>3. logDisk[tail] = cache[b]
    BY SMT, <1>0, <1>1, <1>2 DEF LogOK
  <1>4. cache' = cache
    BY <1>0, <1>1, <1>2, <1>3 DEF TypeOK
  <1>5. /\ disk' \in [Blocks -> Data]
        /\ \A c \in Blocks : disk'[c] = IF c = b THEN logDisk[tail] ELSE disk[c]
    BY <1>0, <1>1, <1>2, <1>3 DEF TypeOK
  <1>6. pins[b] = 1
    BY <1>0, <1>2 DEF CacheOK
  <1>7. \A c \in Blocks : pins'[c] = IF c = b THEN 0 ELSE pins[c]
    BY SMT, <1>0, <1>1, <1>6 DEF TypeOK
  <1>8. pins' \in [Blocks -> Nat]
    <2>1. pins' = [pins EXCEPT ![b] = 0]
      BY SMT, <1>1, <1>6
    <2> QED
      BY <1>0, <2>1 DEF TypeOK
  <1>9. \A i \in 1 .. Len(lh) : lh[i] = b => i = tail
    BY SMT, <1>0, <1>2 DEF LogOK, Distinct
  <1>10. \A c \in Blocks : Pending(c)' <=> Pending(c) /\ c # b
    <2>1. \A i \in 1 .. Len(lh) : i >= tail + 1 <=> i >= tail /\ i # tail
      BY SMT, <1>2
    <2>2. \A c \in Blocks : Pending(c) <=> \E i \in 1 .. Len(lh) : lh[i] = c /\ i >= tail
      BY <1>1 DEF Pending
    <2>3. \A c \in Blocks : Pending(c)' <=> \E i \in 1 .. Len(lh) : lh[i] = c /\ i >= tail + 1
      BY <1>1 DEF Pending
    <2> QED
      BY <1>9, <2>1, <2>2, <2>3
  <1>11. Recovered' = Recovered
    <2>1. \A c \in Blocks : (\A i \in 1 .. Len(headDisk) : headDisk[i] # c) => disk'[c] = disk[c]
      BY <1>2, <1>5
    <2> QED
      BY <1>1, <2>1 DEF Recovered
  <1>12. Recovered[b] = cache[b]
    BY <1>0, <1>2, <1>3, RecoveredIn DEF LogOK
  <1>13. Current' = Current
    BY <1>4, <1>11 DEF Current
  <1>14. HoldersOK'
    BY <1>0, <1>1 DEF HoldersOK
  <1>15. \A c \in Blocks : ~Dirty(c)'
    BY <1>1, <1>2 DEF Dirty
  <1>16. CacheOK'
    BY SMT, <1>0, <1>1, <1>2, <1>4, <1>7, <1>10, <1>11, <1>12, <1>15 DEF CacheOK
  <1>17. LogOK'
    <2>1. Distinct(lh') /\ Distinct(headDisk') /\ Len(headDisk') <= Len(logDisk')
      BY SMT, <1>0, <1>1 DEF LogOK, Distinct
    <2>2. \A i \in 1 .. Len(lh) : IF i < tail THEN disk[lh[i]] = logDisk[i] ELSE logDisk[i] = cache[lh[i]]
      BY <1>0, <1>1 DEF LogOK
    <2>3. \A i \in 1 .. Len(lh) : IF i < tail + 1 THEN disk'[lh[i]] = logDisk[i] ELSE logDisk[i] = cache[lh[i]]
      <3> SUFFICES ASSUME NEW i \in 1 .. Len(lh)
                   PROVE  IF i < tail + 1 THEN disk'[lh[i]] = logDisk[i] ELSE logDisk[i] = cache[lh[i]]
        OBVIOUS
      <3>0. lh[i] \in Blocks
        BY SMT, <1>0 DEF TypeOK
      <3>1. CASE i = tail
        BY SMT, <1>2, <1>5, <3>1
      <3>2. CASE i # tail
        <4>1. i < tail + 1 <=> i < tail
          BY SMT, <1>2, <3>2
        <4> QED
          BY <1>5, <1>9, <2>2, <3>0, <3>2, <4>1
      <3> QED
        BY <3>1, <3>2
    <2> QED
      BY <1>1, <1>2, <1>4, <2>1, <2>3 DEF LogOK, Distinct
  <1> QED
    BY <1>4, <1>5, <1>8, <1>11, <1>13, <1>14, <1>16, <1>17 DEF DataOK, SameBlocks

\* The header on disk is cleared once every block it names has been installed.
LEMMA HeaderCleared ==
  ASSUME LogInv, headDisk = lh, tail > Len(lh), \A b \in Blocks : ~Dirty(b),
         \A i \in 1 .. Len(lh) : i < tail => disk[lh[i]] = logDisk[i],
         \A b \in Blocks : ~(boot = "up" /\ Pending(b)),
         lh' = << >>, headDisk' = << >>, boot' = "up", UNCHANGED <<disk, logDisk, cacheVars>>,
         \A q \in Procs : pc'[q] \notin {"install", "writeLog"},
         \A b \in Blocks : holder[b] = Nobody
  PROVE  DataOK' /\ SameBlocks
  <1>0. TypeOK /\ HoldersOK /\ CacheOK /\ LogOK
    BY DEF LogInv
  <1>1. cache' = cache /\ pins' = pins /\ holder' = holder
    BY DEF cacheVars
  <1>2. \A i \in 1 .. Len(lh) : disk[lh[i]] = logDisk[i]
    BY SMT, <1>0 DEF TypeOK
  <1>3. ASSUME NEW b \in Blocks
        PROVE  Recovered[b] = disk[b] /\ Recovered'[b] = disk[b]
    <2>1. Recovered'[b] = disk[b]
      BY SMT DEF Recovered
    <2>2. CASE \E i \in 1 .. Len(lh) : lh[i] = b
      <3>1. PICK i \in 1 .. Len(lh) : lh[i] = b
        BY <2>2
      <3>2. Recovered[b] = logDisk[i]
        BY <1>0, <3>1, RecoveredIn DEF LogOK
      <3> QED
        BY <1>2, <2>1, <3>1, <3>2
    <2>3. CASE \A i \in 1 .. Len(lh) : lh[i] # b
      BY <2>1, <2>3, RecoveredOut
    <2> QED
      BY <2>2, <2>3
  <1>4. Recovered' = Recovered
    BY SMT, <1>3 DEF Recovered
  <1>5. Current' = Current
    BY <1>1, <1>4 DEF Current
  <1>6. HoldersOK'
    BY <1>0, <1>1 DEF HoldersOK
  <1>7. \A b \in Blocks : ~Pending(b)' /\ ~Dirty(b)'
    BY SMT, <1>1 DEF Pending, Dirty
  <1>8. CacheOK'
    BY <1>0, <1>1, <1>4, <1>7 DEF CacheOK
  <1>9. LogOK'
    <2>1. Len(headDisk') <= Len(logDisk')
      BY SMT, <1>0 DEF TypeOK
    <2> QED
      BY SMT, <2>1 DEF LogOK, Distinct
  <1> QED
    BY <1>4, <1>5, <1>6, <1>8, <1>9 DEF DataOK, SameBlocks

\* commit() erases the header once all blocks are installed.
LEMMA ClearLogStep ==
  ASSUME LogInv, NEW p \in Procs, ClearLog(p)
  PROVE  DataOK' /\ SameBlocks
  <1>0. TypeOK /\ LogOK
    BY DEF LogInv
  <1>1. /\ pc[p] = "install" /\ tail > Len(lh) /\ lh' = << >> /\ headDisk' = << >>
        /\ UNCHANGED <<disk, logDisk, cacheVars>> /\ boot' = boot
        /\ \A q \in Procs : pc'[q] = IF q = p THEN "committed" ELSE pc[q]
    BY <1>0 DEF ClearLog, Goto, TypeOK
  <1>2. /\ boot = "up" /\ headDisk = lh /\ tail \in Nat /\ Len(lh) \in Nat
        /\ \A b \in Blocks : ~Dirty(b)
        /\ \A b \in Blocks : holder[b] = Nobody
        /\ \A q \in Procs : pc[q] = "install" => q = p
        /\ \A q \in Procs : pc[q] = "writeLog" => q = p
    BY <1>1, Committing
  <1>3. \A i \in 1 .. Len(lh) : i < tail => disk[lh[i]] = logDisk[i]
    BY <1>0, <1>1 DEF LogOK
  <1>4. \A b \in Blocks : ~Pending(b)
    <2>1. \A i \in 1 .. Len(lh) : ~(i >= tail)
      BY SMT, <1>1, <1>2
    <2> QED
      BY <1>1, <2>1 DEF Pending
  <1>5. \A q \in Procs : pc'[q] \notin {"install", "writeLog"}
    BY <1>1, <1>2
  <1> QED
    BY <1>1, <1>2, <1>3, <1>4, <1>5, HeaderCleared

-----------------------------------------------------------------------------
(* Recovery and crash                                                      *)

\* Before the log is recovered no process runs.
LEMMA Booting ==
  ASSUME LogInv, boot # "up"
  PROVE  /\ \A q \in Procs : pc[q] = "idle"
         /\ \A b \in Blocks : holder[b] = Nobody /\ ~Dirty(b)
  <1>1. \A q \in Procs : pc[q] = "idle"
    BY DEF LogInv, ControlOK
  <1>2. \A b \in Blocks : holder[b] = Nobody
    BY <1>1 DEF LogInv, HoldersOK, TypeOK
  <1> QED
    BY <1>1, <1>2 DEF Dirty

\* recover_from_log() reads the header.
LEMMA RecoverReadStep ==
  ASSUME LogInv, RecoverRead
  PROVE  DataOK' /\ SameBlocks
  <1>0. TypeOK /\ HoldersOK /\ CacheOK /\ LogOK
    BY DEF LogInv
  <1>1. /\ boot = "readHead" /\ boot' = "install" /\ lh' = headDisk /\ tail' = 1
        /\ UNCHANGED <<disk, logDisk, headDisk, cache, pins, holder, pc>>
    BY DEF RecoverRead, diskVars, cacheVars
  <1>2. (\A q \in Procs : pc[q] = "idle") /\ \A b \in Blocks : ~Dirty(b)
    BY <1>1, Booting
  <1>3. Recovered' = Recovered
    BY <1>1 DEF Recovered
  <1>4. Current' = Current
    BY <1>1, <1>3 DEF Current
  <1>5. \A b \in Blocks : ~Dirty(b)'
    BY <1>1, <1>2 DEF Dirty
  <1>6. HoldersOK'
    BY <1>0, <1>1 DEF HoldersOK
  <1>7. CacheOK'
    BY <1>0, <1>1, <1>2, <1>3, <1>5 DEF CacheOK
  <1>8. LogOK'
    <2>1. \A i \in 1 .. Len(headDisk) : ~(i < 1)
      BY SMT
    <2> QED
      BY SMT, <1>0, <1>1, <1>2, <2>1 DEF LogOK, Distinct
  <1> QED
    BY <1>3, <1>4, <1>6, <1>7, <1>8 DEF DataOK, SameBlocks

\* install_trans() at boot installs one block.
LEMMA RecoverInstallStep ==
  ASSUME LogInv, RecoverInstall
  PROVE  /\ DataOK' /\ SameBlocks
         /\ disk' \in [Blocks -> Data] /\ cache' \in [Blocks -> Data \cup {NotCached}]
  <1>0. TypeOK /\ HoldersOK /\ CacheOK /\ LogOK
    BY DEF LogInv
  <1> DEFINE b == lh[tail]
  <1>1. /\ boot = "install" /\ tail <= Len(lh) /\ tail' = tail + 1
        /\ cache' = [cache EXCEPT ![b] = logDisk[tail]]
        /\ disk' = [disk EXCEPT ![b] = logDisk[tail]]
        /\ UNCHANGED <<logDisk, headDisk, pins, holder, lh, pc, boot>>
    BY DEF RecoverInstall, logVars
  <1>2. (\A q \in Procs : pc[q] = "idle") /\ \A c \in Blocks : ~Dirty(c)
    BY <1>1, Booting
  <1>3. headDisk = lh /\ Len(lh) <= Len(logDisk) /\ tail \in 1 .. Len(lh) /\ b \in Blocks
    BY SMT, <1>0, <1>1 DEF LogOK, TypeOK
  <1>4. logDisk[tail] \in Data
    BY SMT, <1>0, <1>3 DEF TypeOK
  <1>5. /\ disk' \in [Blocks -> Data] /\ cache' \in [Blocks -> Data \cup {NotCached}]
        /\ \A c \in Blocks : disk'[c] = IF c = b THEN logDisk[tail] ELSE disk[c]
        /\ \A c \in Blocks : cache'[c] = IF c = b THEN logDisk[tail] ELSE cache[c]
    BY <1>0, <1>1, <1>3, <1>4 DEF TypeOK
  <1>6. Recovered[b] = logDisk[tail]
    BY <1>0, <1>3, RecoveredIn DEF LogOK
  <1>7. Recovered' = Recovered
    <2>1. \A c \in Blocks : (\A i \in 1 .. Len(headDisk) : headDisk[i] # c) => disk'[c] = disk[c]
      BY <1>3, <1>5
    <2> QED
      BY <1>1, <2>1 DEF Recovered
  <1>8. \A c \in Blocks : Current'[c] = Current[c]
    <2>1. cache[b] \in {NotCached, Recovered[b]}
      BY <1>0, <1>1, <1>2, <1>3 DEF CacheOK
    <2> QED
      BY <1>5, <1>6, <1>7, <2>1 DEF Current
  <1>9. Current' = Current
    BY <1>8 DEF Current
  <1>10. HoldersOK'
    BY <1>0, <1>1 DEF HoldersOK
  <1>11. \A c \in Blocks : ~Dirty(c)'
    BY <1>1, <1>2 DEF Dirty
  <1>12. CacheOK'
    BY <1>0, <1>1, <1>2, <1>5, <1>6, <1>7, <1>11 DEF CacheOK
  <1>13. LogOK'
    <2>1. Distinct(lh') /\ Distinct(headDisk') /\ Len(headDisk') <= Len(logDisk')
      BY SMT, <1>0, <1>1 DEF LogOK, Distinct
    <2>2. \A i \in 1 .. Len(lh) : i < tail + 1 => disk'[lh[i]] = logDisk[i]
      <3> SUFFICES ASSUME NEW i \in 1 .. Len(lh), i < tail + 1
                   PROVE  disk'[lh[i]] = logDisk[i]
        OBVIOUS
      <3>0. lh[i] \in Blocks /\ (lh[i] = b => i = tail)
        BY SMT, <1>0, <1>3 DEF TypeOK, LogOK, Distinct
      <3>1. CASE i = tail
        BY <1>3, <1>5, <3>1
      <3>2. CASE i # tail
        <4>1. i < tail
          BY SMT, <1>3, <3>2
        <4>2. disk[lh[i]] = logDisk[i]
          BY <1>0, <1>1, <4>1 DEF LogOK
        <4> QED
          BY <1>5, <3>0, <3>2, <4>2
      <3> QED
        BY <3>1, <3>2
    <2> QED
      BY <1>1, <1>2, <1>3, <2>1, <2>2 DEF LogOK, Distinct
  <1> QED
    BY <1>5, <1>7, <1>9, <1>10, <1>12, <1>13 DEF DataOK, SameBlocks

\* recover_from_log() erases the header.
LEMMA RecoverClearStep ==
  ASSUME LogInv, RecoverClear
  PROVE  DataOK' /\ SameBlocks
  <1>0. TypeOK /\ LogOK
    BY DEF LogInv
  <1>1. /\ boot = "install" /\ tail > Len(lh) /\ lh' = << >> /\ headDisk' = << >> /\ boot' = "up"
        /\ UNCHANGED <<disk, logDisk, cacheVars>> /\ pc' = pc
    BY DEF RecoverClear
  <1>2. /\ \A q \in Procs : pc[q] = "idle"
        /\ \A b \in Blocks : holder[b] = Nobody /\ ~Dirty(b)
    BY <1>1, Booting
  <1>3. headDisk = lh /\ \A i \in 1 .. Len(lh) : i < tail => disk[lh[i]] = logDisk[i]
    BY <1>0, <1>1 DEF LogOK
  <1> QED
    BY <1>1, <1>2, <1>3, HeaderCleared

\* The memory is lost: the file system reads what the disk and the log on it have.
LEMMA CrashStep ==
  ASSUME LogInv, Crash
  PROVE  DataOK' /\ Recovered' = Recovered /\ Current' = Recovered
  <1>0. TypeOK /\ LogOK
    BY DEF LogInv
  <1>1. /\ UNCHANGED <<disk, logDisk, headDisk>> /\ lh' = << >> /\ boot' = "readHead"
        /\ \A b \in Blocks : cache'[b] = NotCached /\ pins'[b] = 0 /\ holder'[b] = Nobody
        /\ \A q \in Procs : pc'[q] = "idle"
    BY DEF Crash, diskVars
  <1>2. Recovered' = Recovered
    BY <1>1 DEF Recovered
  <1>3. Current' = Recovered
    BY <1>1, <1>2 DEF Current, Recovered
  <1>4. HoldersOK'
    BY <1>1 DEF HoldersOK
  <1>5. \A b \in Blocks : ~Dirty(b)'
    BY <1>1 DEF Dirty
  <1>6. CacheOK'
    BY <1>1, <1>5 DEF CacheOK
  <1>7. LogOK'
    BY SMT, <1>0, <1>1 DEF LogOK, Distinct
  <1> QED
    BY <1>2, <1>3, <1>4, <1>6, <1>7 DEF DataOK


-----------------------------------------------------------------------------
(* Types                                                                   *)

\* The types, after a step of a call, ...
LEMMA CallTypes ==
  ASSUME LogInv, NEW p \in Procs, OpStep(p)
  PROVE  TypeOK'
  <1>0. TypeOK
    BY DEF LogInv
  <1>1. CASE BeginSleep(p) \/ BeginOp(p)
    <2>1. pc' \in [Procs -> Labels]
      BY <1>0, <1>1 DEF TypeOK, BeginSleep, BeginOp, Goto, Labels
    <2>2. outstanding' \in Nat /\ UNCHANGED <<diskVars, cacheVars, lh, committing, wrote, tail, boot>>
      BY SMT, <1>0, <1>1 DEF TypeOK, BeginSleep, BeginOp, logVars
    <2> QED
      BY <1>0, <2>1, <2>2 DEF TypeOK, Labels, diskVars, cacheVars
  <1>2. ASSUME NEW b \in Blocks, Bread(p, b)
        PROVE  TypeOK'
    <2>1. Read(b) \in Data \cup {NotCached}
      BY <1>0 DEF Read, TypeOK
    <2>2. /\ cache' \in [Blocks -> Data \cup {NotCached}] /\ holder' \in [Blocks -> Procs \cup {Nobody}]
          /\ pc' \in [Procs -> Labels]
      BY <1>0, <1>2, <2>1 DEF TypeOK, Bread, Goto, Labels
    <2> QED
      BY <1>0, <1>2, <2>2 DEF TypeOK, Bread, Labels, diskVars, logVars
  <1>3. ASSUME NEW b \in Blocks, LogWrite(p, b)
        PROVE  TypeOK'
    <2>1. lh' \in Seq(Blocks) /\ pins' \in [Blocks -> Nat]
      BY <1>3, LogWriteStep
    <2>2. pc' \in [Procs -> Labels]
      BY <1>0, <1>3 DEF TypeOK, LogWrite, Goto, Labels
    <2> QED
      BY <1>0, <1>3, <2>1, <2>2 DEF TypeOK, LogWrite, Labels, diskVars
  <1>4. ASSUME NEW b \in Blocks, Brelse(p, b)
        PROVE  TypeOK'
    BY <1>0, <1>4 DEF TypeOK, Brelse, Goto, diskVars, logVars
  <1>5. ASSUME NEW b \in Blocks, NEW d \in Data, Modify(p, b, d)
        PROVE  TypeOK'
    <2>1. /\ cache' \in [Blocks -> Data \cup {NotCached}] /\ wrote' \in [Procs -> SUBSET Blocks]
          /\ pc' \in [Procs -> Labels]
      BY <1>0, <1>5 DEF TypeOK, Modify, Goto, Labels
    <2> QED
      BY <1>0, <1>5, <2>1 DEF TypeOK, Modify, Labels, diskVars, logVars
  <1>6. CASE EndOp(p)
    <2>1. pc' \in [Procs -> Labels] /\ wrote' \in [Procs -> SUBSET Blocks]
      BY <1>0, <1>6 DEF TypeOK, EndOp, GotoWaking, Labels
    <2>2. outstanding' \in Nat
      BY SMT, <1>0, <1>6 DEF TypeOK, EndOp
    <2> QED
      BY <1>0, <1>6, <2>1, <2>2 DEF TypeOK, EndOp, Labels, diskVars, cacheVars
  <1>7. CASE EndOpCommit(p)
    <2>1. pc' \in [Procs -> Labels] /\ wrote' \in [Procs -> SUBSET Blocks]
      BY <1>0, <1>7 DEF TypeOK, EndOpCommit, Goto, Labels
    <2> QED
      BY SMT, <1>0, <1>7, <2>1 DEF TypeOK, EndOpCommit, Labels, diskVars, cacheVars
  <1> QED
    BY <1>1, <1>2, <1>3, <1>4, <1>5, <1>6, <1>7 DEF OpStep

\* ... of a commit, ...
LEMMA CommitTypes ==
  ASSUME LogInv, NEW p \in Procs, CommitStep(p)
  PROVE  TypeOK'
  <1>0. TypeOK
    BY DEF LogInv
  <1>1. CASE WriteLog(p)
    <2>1. cache' = cache /\ logDisk' \in Seq(Data)
      BY <1>1, WriteLogStep
    <2> QED
      BY SMT, <1>0, <1>1, <2>1 DEF TypeOK, WriteLog, logVars
  <1>2. CASE WriteHead(p)
    BY SMT, <1>0, <1>2 DEF TypeOK, WriteHead, Goto, cacheVars, logVars
  <1>3. CASE Install(p)
    <2>1. cache' = cache /\ disk' \in [Blocks -> Data] /\ pins' \in [Blocks -> Nat]
      BY <1>3, InstallStep
    <2>2. tail' = tail + 1 /\ UNCHANGED <<logDisk, headDisk, holder, logVars, pc, wrote, boot>>
      BY <1>3 DEF Install
    <2> QED
      BY SMT, <1>0, <2>1, <2>2 DEF TypeOK, logVars
  <1>4. CASE ClearLog(p)
    BY SMT, <1>0, <1>4 DEF TypeOK, ClearLog, Goto, cacheVars
  <1>5. CASE CommitDone(p)
    <2>1. pc' \in [Procs -> Labels]
      BY <1>0, <1>5 DEF TypeOK, CommitDone, GotoWaking, Labels
    <2> QED
      BY <1>0, <1>5, <2>1 DEF TypeOK, CommitDone, Labels, diskVars, cacheVars
  <1> QED
    BY <1>1, <1>2, <1>3, <1>4, <1>5 DEF CommitStep

\* ... and of the cache, the recovery or a crash.
LEMMA OtherTypes ==
  ASSUME LogInv, (\E b \in Blocks : Load(b) \/ Evict(b)) \/ Recover \/ Crash
  PROVE  TypeOK'
  <1>0. TypeOK
    BY DEF LogInv
  <1>1. ASSUME NEW b \in Blocks, Load(b) \/ Evict(b)
        PROVE  TypeOK'
    <2>1. cache' \in [Blocks -> Data \cup {NotCached}]
      BY <1>0, <1>1 DEF TypeOK, Load, Evict
    <2> QED
      BY <1>0, <1>1, <2>1 DEF TypeOK, Load, Evict, diskVars, logVars
  <1>2. CASE RecoverRead
    BY SMT, <1>0, <1>2 DEF TypeOK, RecoverRead, diskVars, cacheVars
  <1>3. CASE RecoverInstall
    <2>1. disk' \in [Blocks -> Data] /\ cache' \in [Blocks -> Data \cup {NotCached}]
      BY <1>3, RecoverInstallStep
    <2>2. tail' = tail + 1 /\ UNCHANGED <<logDisk, headDisk, pins, holder, logVars, pc, wrote, boot>>
      BY <1>3 DEF RecoverInstall
    <2> QED
      BY SMT, <1>0, <2>1, <2>2 DEF TypeOK, logVars
  <1>4. CASE RecoverClear
    BY SMT, <1>0, <1>4 DEF TypeOK, RecoverClear, cacheVars
  <1>5. CASE Crash
    <2>1. /\ cache' \in [Blocks -> Data \cup {NotCached}] /\ pins' \in [Blocks -> Nat]
          /\ holder' \in [Blocks -> Procs \cup {Nobody}]
          /\ pc' \in [Procs -> Labels] /\ wrote' \in [Procs -> SUBSET Blocks]
      BY <1>5 DEF Crash, Labels
    <2>2. /\ lh' = << >> /\ outstanding' = 0 /\ committing' = FALSE /\ tail' = 1 /\ boot' = "readHead"
          /\ disk' = disk /\ logDisk' = logDisk /\ headDisk' = headDisk
      BY <1>5 DEF Crash, diskVars
    <2>3. << >> \in Seq(Blocks) /\ 0 \in Nat /\ 1 \in Nat \ {0} /\ FALSE \in BOOLEAN
      BY SMT
    <2> QED
      BY <1>0, <2>1, <2>2, <2>3 DEF TypeOK, Labels
  <1> QED
    BY <1>1, <1>2, <1>3, <1>4, <1>5 DEF Recover

-----------------------------------------------------------------------------
(* The room in the log                                                     *)

\* What is left of the reservations is finite, and within what begin_op() reserved.
SlackBound == /\ IsFiniteSet(Slack) /\ Cardinality(Slack) \in Nat
              /\ Cardinality(Slack) <= outstanding * MAXOPBLOCKS

\* There are at most MAXOPBLOCKS reserved blocks per outstanding call.
LEMMA SlackFinite == ControlOK => SlackBound
  <1> SUFFICES ASSUME ControlOK PROVE SlackBound
    OBVIOUS
  <1> DEFINE R == Active \X (1 .. MAXOPBLOCKS)
  <1>1. MAXOPBLOCKS \in Nat \ {0}
    BY LogAssumption
  <1>2. IsFiniteSet(1 .. MAXOPBLOCKS) /\ Cardinality(1 .. MAXOPBLOCKS) = MAXOPBLOCKS
    BY SMT, <1>1, FS_Interval
  <1>3. IsFiniteSet(Active) /\ Cardinality(Active) = outstanding
    BY DEF ControlOK
  <1>4. IsFiniteSet(R) /\ Cardinality(R) = outstanding * MAXOPBLOCKS
    BY <1>2, <1>3, FS_Product
  <1>5. Slack \in SUBSET R
    BY DEF Slack
  <1>6. IsFiniteSet(Slack) /\ Cardinality(Slack) <= Cardinality(R)
    BY <1>4, <1>5, FS_Subset
  <1>7. Cardinality(Slack) \in Nat
    BY <1>6, FS_CardinalityType
  <1> QED
    BY <1>4, <1>6, <1>7 DEF SlackBound

\* No call is active: nothing is reserved.
NoCall == Active = {}
NothingLeft == Slack = {} /\ Cardinality(Slack) = 0

\* Nothing is reserved when no call is outstanding.
LEMMA SlackNone == NoCall => NothingLeft
  <1> SUFFICES ASSUME Active = {} PROVE NothingLeft
    BY DEF NoCall
  <1>1. Slack = {}
    BY DEF Slack
  <1> QED
    BY <1>1, FS_EmptySet DEF NothingLeft

\* What a call has spent grows with what it wrote and with the log.
LEMMA SpentGrows ==
  ASSUME NEW p \in Procs, IsFiniteSet(wrote'[p]), wrote[p] \subseteq wrote'[p],
         \A b : InLog(b) => InLog(b)'
  PROVE  /\ Spent(p) \in Nat /\ Spent(p)' \in Nat /\ Spent(p) <= Spent(p)'
  <1> DEFINE S == {b \in wrote[p] : InLog(b)}
             T == {b \in wrote'[p] : InLog(b)'}
  <1>1. S \in SUBSET T /\ T \in SUBSET wrote'[p]
    OBVIOUS
  <1>2. IsFiniteSet(T)
    BY <1>1, FS_Subset
  <1>3. IsFiniteSet(S) /\ Cardinality(S) <= Cardinality(T)
    BY <1>1, <1>2, FS_Subset
  <1>4. Cardinality(S) \in Nat /\ Cardinality(T) \in Nat
    BY <1>2, <1>3, FS_CardinalityType
  <1> QED
    BY <1>3, <1>4 DEF Spent

\* The reservations shrink when calls only end or write more.
LEMMA SlackShrinks ==
  ASSUME ControlOK, Active' \subseteq Active,
         \A p \in Active' : IsFiniteSet(wrote'[p]) /\ wrote[p] \subseteq wrote'[p],
         \A b : InLog(b) => InLog(b)'
  PROVE  /\ Slack' \subseteq Slack
         /\ IsFiniteSet(Slack') /\ Cardinality(Slack') \in Nat
         /\ Cardinality(Slack') <= Cardinality(Slack)
  <1>1. ASSUME NEW r \in Slack' PROVE r \in Slack
    <2>1. r \in Active' \X (1 .. MAXOPBLOCKS) /\ r[2] > Spent(r[1])'
      BY <1>1 DEF Slack
    <2>2. PICK q \in Active', i \in 1 .. MAXOPBLOCKS : r = <<q, i>>
      BY SMT, <2>1
    <2>3. r[1] = q /\ r[2] = i /\ q \in Active /\ q \in Procs /\ i \in Nat /\ i > Spent(q)'
      <3>1. r[1] = q /\ r[2] = i /\ i \in Nat
        BY SMT, <2>2
      <3>2. q \in Active /\ q \in Procs
        BY <2>2 DEF Active
      <3> QED
        BY <2>1, <3>1, <3>2
    <2>4. Spent(q) \in Nat /\ Spent(q)' \in Nat /\ Spent(q) <= Spent(q)'
      BY <2>2, <2>3, SpentGrows
    <2>5. i > Spent(q)
      BY SMT, <2>3, <2>4
    <2> QED
      BY <2>2, <2>3, <2>5 DEF Slack
  <1>2. Slack' \in SUBSET Slack /\ IsFiniteSet(Slack)
    BY <1>1, SlackFinite DEF SlackBound
  <1>3. IsFiniteSet(Slack') /\ Cardinality(Slack') <= Cardinality(Slack)
    BY <1>2, FS_Subset
  <1> QED
    BY <1>2, <1>3, FS_CardinalityType

\* A step of the calls or of a commit that makes the log no longer and lets calls only end.
LEMMA RoomKept ==
  ASSUME ControlOK, RoomOK, lh \in Seq(Blocks), Active' \subseteq Active, lh' = lh,
         \A p \in Active' : wrote[p] \subseteq wrote'[p],
         \A p \in Procs : IsFiniteSet(wrote'[p]) /\ Cardinality(wrote'[p]) <= OpBlocks,
         \A b \in Blocks : Dirty(b)' => b \in wrote'[holder'[b]],
         boot' = boot
  PROVE  RoomOK'
  <1>1. \A b : InLog(b) => InLog(b)'
    BY DEF InLog
  <1>2. \A p \in Active' : p \in Procs
    BY DEF Active
  <1>3. Cardinality(Slack') \in Nat /\ Cardinality(Slack') <= Cardinality(Slack)
    BY <1>1, <1>2, SlackShrinks
  <1>4. Cardinality(Slack) \in Nat
    BY SlackFinite DEF SlackBound
  <1>5. boot' = "up" => Len(lh') + Cardinality(Slack') <= LOGSIZE
    <2>1. boot = "up" => Len(lh) + Cardinality(Slack) <= LOGSIZE
      BY DEF RoomOK
    <2>2. Len(lh) \in Nat /\ LOGSIZE \in Nat
      BY SMT, LogAssumption
    <2> QED
      BY SMT, <1>3, <1>4, <2>1, <2>2
  <1> QED
    BY <1>5 DEF RoomOK
\* A process that is not in a call before and after, or is in it before and after, moves;
\* who is dirty stays so only with a block it wrote.
LEMMA RoomQuiet ==
  ASSUME LogInv, Active' \subseteq Active, UNCHANGED <<lh, wrote, boot>>,
         \A b \in Blocks : Dirty(b)' => Dirty(b) /\ holder'[b] = holder[b]
  PROVE  RoomOK'
  <1>1. ControlOK /\ RoomOK /\ lh \in Seq(Blocks)
    BY DEF LogInv, TypeOK
  <1>2. \A p \in Procs : IsFiniteSet(wrote'[p]) /\ Cardinality(wrote'[p]) <= OpBlocks
    BY <1>1 DEF RoomOK
  <1>3. \A b \in Blocks : Dirty(b)' => b \in wrote'[holder'[b]]
    BY <1>1 DEF RoomOK
  <1>4. \A p \in Active' : wrote[p] \subseteq wrote'[p]
    OBVIOUS
  <1> QED
    BY <1>1, <1>2, <1>3, <1>4, RoomKept

\* begin_op() reserves the blocks of one more call only where they fit.
LEMMA BeginOpRoom ==
  ASSUME LogInv, NEW p \in Procs, BeginOp(p)
  PROVE  RoomOK'
  <1>1. ControlOK /\ RoomOK /\ TypeOK
    BY DEF LogInv
  <1>2. ControlOK'
    BY <1>1, BeginOpControl, TypeControl
  <1>3. /\ UNCHANGED <<lh, wrote, holder, boot>> /\ outstanding' = outstanding + 1
        /\ Len(lh) + (outstanding + 1) * MAXOPBLOCKS <= LOGSIZE
    <2>1. UNCHANGED <<lh, wrote, holder, boot>> /\ outstanding' = outstanding + 1
      BY DEF BeginOp, cacheVars
    <2>2. ~(Len(lh) + (outstanding + 1) * MAXOPBLOCKS > LOGSIZE)
      BY DEF BeginOp, MustWait
    <2>3. Len(lh) \in Nat /\ outstanding \in Nat /\ MAXOPBLOCKS \in Nat /\ LOGSIZE \in Nat
      BY SMT, <1>1, LogAssumption DEF TypeOK
    <2>4. (outstanding + 1) * MAXOPBLOCKS \in Nat
      BY SMT, <2>3
    <2> QED
      BY SMT, <2>1, <2>2, <2>3, <2>4
  <1>4. Cardinality(Slack') \in Nat /\ Cardinality(Slack') <= outstanding' * MAXOPBLOCKS
    <2>1. SlackBound'
      BY <1>2, SlackFinite, PTL
    <2> QED
      BY <2>1 DEF SlackBound
  <1>5. Len(lh') + Cardinality(Slack') <= LOGSIZE
    <2>1. Len(lh) \in Nat /\ outstanding \in Nat /\ MAXOPBLOCKS \in Nat /\ LOGSIZE \in Nat
      BY SMT, <1>1, LogAssumption DEF TypeOK
    <2>2. (outstanding + 1) * MAXOPBLOCKS \in Nat
      BY SMT, <2>1
    <2> DEFINE k == (outstanding + 1) * MAXOPBLOCKS
    <2>3. k \in Nat /\ Len(lh) + k <= LOGSIZE /\ Cardinality(Slack') <= k /\ lh' = lh
      BY <1>3, <1>4, <2>2
    <2> HIDE DEF k
    <2> QED
      BY SMT, <1>4, <2>1, <2>3
  <1>6. \A q \in Procs : pc'[q] = IF q = p THEN "op" ELSE pc[q]
    BY <1>1 DEF BeginOp, Goto, TypeOK
  <1>7. \A b \in Blocks : Dirty(b)' => Dirty(b)
    BY <1>1, <1>3, <1>6 DEF Dirty, TypeOK
  <1> QED
    BY <1>1, <1>3, <1>5, <1>7 DEF RoomOK

\* Modifying a block that is in the log already spends one of the reserved blocks.
LEMMA ModifyRoom ==
  ASSUME LogInv, NEW p \in Procs, NEW b \in Blocks, NEW d \in Data, Modify(p, b, d)
  PROVE  RoomOK'
  <1>1. ControlOK /\ RoomOK /\ TypeOK /\ HoldersOK
    BY DEF LogInv
  <1>2. /\ UNCHANGED <<lh, holder, boot>> /\ pc[p] = "hold" /\ holder[b] = p
        /\ b \in wrote[p] \/ Cardinality(wrote[p]) < OpBlocks
        /\ \A q \in Procs : wrote'[q] = IF q = p THEN wrote[p] \cup {b} ELSE wrote[q]
        /\ \A q \in Procs : pc'[q] = IF q = p THEN "dirty" ELSE pc[q]
    BY <1>1 DEF Modify, Goto, TypeOK, logVars
  <1>3. Active' \subseteq Active
    BY <1>2 DEF Active
  <1>4. \A q \in Active' : q \in Procs /\ wrote[q] \subseteq wrote'[q]
    BY <1>2 DEF Active
  <1>5. ASSUME NEW q \in Procs PROVE IsFiniteSet(wrote'[q]) /\ Cardinality(wrote'[q]) <= OpBlocks
    <2>1. IsFiniteSet(wrote[q]) /\ Cardinality(wrote[q]) <= OpBlocks
      BY <1>1 DEF RoomOK
    <2>2. CASE q # p
      BY <1>2, <2>1, <2>2
    <2>3. CASE q = p
      <3>1. /\ IsFiniteSet(wrote[p] \cup {b})
            /\ Cardinality(wrote[p] \cup {b})
                 = IF b \in wrote[p] THEN Cardinality(wrote[p]) ELSE Cardinality(wrote[p]) + 1
        BY <2>1, <2>3, FS_AddElement
      <3>2. Cardinality(wrote[p]) \in Nat /\ OpBlocks \in Nat
        BY <2>1, <2>3, FS_CardinalityType, LogAssumption
      <3> QED
        BY SMT, <1>2, <2>1, <2>3, <3>1, <3>2
    <2> QED
      BY <2>2, <2>3
  <1>6. ASSUME NEW c \in Blocks, Dirty(c)' PROVE c \in wrote'[holder'[c]]
    <2>1. holder[c] \in Procs /\ holder'[c] = holder[c]
      BY <1>1, <1>2, <1>6, LogAssumption DEF Dirty, TypeOK
    <2>2. CASE holder[c] = p
      <3>1. c = b
        BY SMT, <1>1, <1>2, <2>2, LogAssumption DEF HoldersOK
      <3> QED
        BY <1>2, <2>1, <2>2, <3>1
    <2>3. CASE holder[c] # p
      <3>1. Dirty(c)
        BY <1>2, <1>6, <2>1, <2>3 DEF Dirty
      <3> QED
        BY <1>1, <1>2, <2>1, <2>3, <3>1 DEF RoomOK
    <2> QED
      BY <2>2, <2>3
  <1>7. lh \in Seq(Blocks) /\ lh' = lh /\ boot' = boot
    BY <1>1, <1>2 DEF TypeOK
  <1> QED
    BY <1>1, <1>3, <1>4, <1>5, <1>6, <1>7, RoomKept

\* While log_write() is called there is room, where a call logs fewer blocks than it reserved.
LEMMA NotFull ==
  ASSUME LogInv, LogRoom, NEW p \in Active
  PROVE  ~Full
  <1> DEFINE T == {p} \X ((OpBlocks + 1) .. MAXOPBLOCKS)
  <1>1. ControlOK /\ RoomOK /\ TypeOK /\ p \in Procs
    BY DEF LogInv, Active
  <1>2. boot = "up"
    BY <1>1, ActiveCounts, TypeControl
  <1>3. /\ OpBlocks \in Nat /\ MAXOPBLOCKS \in Nat /\ LOGSIZE \in Nat /\ logSize \in Nat
        /\ OpBlocks < MAXOPBLOCKS /\ LOGSIZE + OpBlocks + 1 < logSize + MAXOPBLOCKS
    BY LogAssumption DEF LogRoom
  <1>4. Spent(p) \in Nat /\ Spent(p) <= OpBlocks
    <2> DEFINE S == {b \in wrote[p] : InLog(b)}
    <2>1. IsFiniteSet(wrote[p]) /\ Cardinality(wrote[p]) <= OpBlocks /\ S \in SUBSET wrote[p]
      BY <1>1 DEF RoomOK
    <2>2. IsFiniteSet(S) /\ Cardinality(S) <= Cardinality(wrote[p])
      BY <2>1, FS_Subset
    <2>3. Cardinality(S) \in Nat /\ Cardinality(wrote[p]) \in Nat
      BY <2>1, <2>2, FS_CardinalityType
    <2>4. Cardinality(S) <= OpBlocks
      BY SMT, <1>3, <2>1, <2>2, <2>3
    <2> QED
      BY <2>3, <2>4 DEF Spent
  <1>5. ASSUME NEW r \in T PROVE r \in Slack
    <2>1. PICK i \in (OpBlocks + 1) .. MAXOPBLOCKS : r = <<p, i>>
      BY SMT
    <2>2. i \in 1 .. MAXOPBLOCKS /\ i > Spent(p)
      BY SMT, <1>3, <1>4
    <2> QED
      BY <2>1, <2>2 DEF Slack
  <1>6. Cardinality(T) = MAXOPBLOCKS - OpBlocks
    <2>1. IsFiniteSet({p}) /\ Cardinality({p}) = 1
      BY FS_Singleton
    <2>2. /\ IsFiniteSet((OpBlocks + 1) .. MAXOPBLOCKS)
          /\ Cardinality((OpBlocks + 1) .. MAXOPBLOCKS) = MAXOPBLOCKS - OpBlocks
      BY SMT, <1>3, FS_Interval
    <2>3. Cardinality(T) = Cardinality({p}) * Cardinality((OpBlocks + 1) .. MAXOPBLOCKS)
      BY <2>1, <2>2, FS_Product
    <2> QED
      BY SMT, <1>3, <2>1, <2>2, <2>3
  <1>7. T \in SUBSET Slack /\ IsFiniteSet(Slack) /\ Cardinality(Slack) \in Nat
    BY <1>1, <1>5, SlackFinite DEF SlackBound
  <1>8. Cardinality(T) <= Cardinality(Slack)
    BY <1>7, FS_Subset
  <1>9. Len(lh) + Cardinality(Slack) <= LOGSIZE /\ Len(lh) \in Nat
    BY SMT, <1>1, <1>2 DEF RoomOK, TypeOK
  <1>10. Len(lh) + (MAXOPBLOCKS - OpBlocks) <= LOGSIZE
    BY SMT, <1>3, <1>6, <1>7, <1>8, <1>9
  <1>11. Len(lh) < LOGSIZE /\ Len(lh) < logSize - 1
    BY SMT, <1>3, <1>9, <1>10
  <1> QED
    BY SMT, <1>3, <1>9, <1>11 DEF Full

\* log_write() appends a block the caller has reserved.
LEMMA LogWriteRoom ==
  ASSUME LogInv, NEW p \in Procs, NEW b \in Blocks, LogWrite(p, b)
  PROVE  RoomOK'
  <1>1. ControlOK /\ RoomOK /\ TypeOK
    BY DEF LogInv
  <1>2. /\ UNCHANGED <<wrote, holder, boot>> /\ pc[p] = "dirty" /\ holder[b] = p
        /\ \A q \in Procs : pc'[q] = IF q = p THEN (IF Full THEN "panic" ELSE "logged") ELSE pc[q]
    BY <1>1 DEF LogWrite, Goto, TypeOK
  <1>3. Active' = Active /\ p \in Active
    BY <1>2 DEF Active
  <1>4. \A c \in Blocks : Dirty(c)' => Dirty(c) /\ holder'[c] = holder[c]
    BY <1>1, <1>2 DEF Dirty, TypeOK
  <1>5. CASE Full \/ InLog(b)
    <2>1. lh' = lh
      BY <1>5 DEF LogWrite
    <2> QED
      BY <1>2, <1>3, <1>4, <2>1, RoomQuiet
  <1>6. CASE ~(Full \/ InLog(b))
    <2>1. lh' = Append(lh, b) /\ lh \in Seq(Blocks)
      BY <1>1, <1>6 DEF LogWrite, TypeOK
    <2>2. Len(lh') = Len(lh) + 1 /\ lh'[Len(lh) + 1] = b /\ \A i \in 1 .. Len(lh) : lh'[i] = lh[i]
      BY SMT, <2>1
    <2>3. Len(lh) \in Nat
      BY SMT, <2>1
    <2>4. (\A c : InLog(c) => InLog(c)') /\ InLog(b)'
      BY SMT, <2>2, <2>3 DEF InLog
    <2>5. \A q \in Procs : /\ IsFiniteSet(wrote[q]) /\ Cardinality(wrote[q]) <= OpBlocks
                           /\ wrote'[q] = wrote[q]
      BY <1>1, <1>2 DEF RoomOK
    <2>6. /\ Slack' \subseteq Slack
          /\ IsFiniteSet(Slack') /\ Cardinality(Slack') \in Nat
      <3>1. Active' \subseteq Active
        BY <1>3
      <3>2. \A q \in Active' : IsFiniteSet(wrote'[q]) /\ wrote[q] \subseteq wrote'[q]
        BY <2>5 DEF Active
      <3> QED
        BY <1>1, <2>4, <3>1, <3>2, SlackShrinks
    <2> DEFINE S == {c \in wrote[p] : InLog(c)}
               k == Spent(p) + 1
    <2>7. /\ Spent(p) \in Nat /\ Spent(p)' \in Nat /\ Spent(p) + 1 <= Spent(p)'
          /\ Spent(p)' <= OpBlocks
      <3> DEFINE T == {c \in wrote'[p] : InLog(c)'}
      <3>1. b \in wrote[p] /\ wrote'[p] = wrote[p]
        <4>1. Dirty(b)
          BY <1>2, LogAssumption DEF Dirty
        <4> QED
          BY <1>1, <1>2, <4>1 DEF RoomOK
      <3>2. S \cup {b} \in SUBSET T /\ T \in SUBSET wrote[p] /\ S \in SUBSET wrote[p] /\ b \notin S
        BY <1>6, <2>4, <3>1
      <3>3. IsFiniteSet(T) /\ Cardinality(T) <= Cardinality(wrote[p])
        BY <2>5, <3>2, FS_Subset
      <3>4. IsFiniteSet(S)
        BY <2>5, <3>2, FS_Subset
      <3>5. Cardinality(S \cup {b}) = Cardinality(S) + 1
        BY <3>2, <3>4, FS_AddElement
      <3>6. Cardinality(S \cup {b}) <= Cardinality(T)
        BY <3>2, <3>3, FS_Subset
      <3>7. /\ Cardinality(S) \in Nat /\ Cardinality(T) \in Nat /\ Cardinality(wrote[p]) \in Nat
            /\ OpBlocks \in Nat
        BY <2>5, <3>3, <3>4, FS_CardinalityType, LogAssumption
      <3>8. Cardinality(S) + 1 <= Cardinality(T) /\ Cardinality(T) <= OpBlocks
        BY SMT, <2>5, <3>3, <3>5, <3>6, <3>7
      <3> QED
        BY <3>7, <3>8 DEF Spent
    <2> HIDE DEF S
    <2>8. k \in 1 .. MAXOPBLOCKS /\ k > Spent(p) /\ ~(k > Spent(p)')
      BY SMT, <2>7, LogAssumption
    <2>9. <<p, k>> \in Slack
      BY <1>3, <2>8 DEF Slack
    <2>10. <<p, k>> \notin Slack'
      <3>1. SUFFICES ASSUME <<p, k>> \in Slack' PROVE FALSE
        OBVIOUS
      <3>2. <<p, k>>[2] > Spent(<<p, k>>[1])'
        BY <3>1 DEF Slack
      <3>3. <<p, k>>[1] = p /\ <<p, k>>[2] = k
        OBVIOUS
      <3>4. k > Spent(p)'
        BY <3>2, <3>3
      <3> QED
        BY <2>8, <3>4
    <2>11. Cardinality(Slack') + 1 <= Cardinality(Slack) /\ Cardinality(Slack) \in Nat
      <3>1. IsFiniteSet(Slack) /\ Cardinality(Slack) \in Nat
        BY <1>1, SlackFinite DEF SlackBound
      <3>2. Slack' \in SUBSET (Slack \ {<<p, k>>})
        BY <2>6, <2>10
      <3>3. /\ IsFiniteSet(Slack \ {<<p, k>>})
            /\ Cardinality(Slack \ {<<p, k>>}) = Cardinality(Slack) - 1
        BY <2>9, <3>1, FS_RemoveElement
      <3>4. Cardinality(Slack') <= Cardinality(Slack \ {<<p, k>>})
        BY <3>2, <3>3, FS_Subset
      <3> QED
        BY SMT, <2>6, <3>1, <3>3, <3>4
    <2>12. boot' = "up" => Len(lh') + Cardinality(Slack') <= LOGSIZE
      <3>1. boot' = "up" => Len(lh) + Cardinality(Slack) <= LOGSIZE
        BY <1>1, <1>2 DEF RoomOK
      <3>2. LOGSIZE \in Nat
        BY LogAssumption
      <3>3. \A i, j, k1, m, n \in Nat : m + 1 <= k1 /\ i + k1 <= n /\ j = i + 1 => j + m <= n
        BY SMT
      <3>4. Len(lh) \in Nat /\ Len(lh') \in Nat /\ Len(lh') = Len(lh) + 1
        BY SMT, <2>2, <2>3
      <3>5. QED
        BY <2>6, <2>11, <3>1, <3>2, <3>3, <3>4
    <2>13. \A c \in Blocks : Dirty(c)' => c \in wrote'[holder'[c]]
      BY <1>1, <1>2, <1>4 DEF RoomOK
    <2> QED
      BY <2>5, <2>12, <2>13 DEF RoomOK
  <1> QED
    BY <1>5, <1>6

\* end_op() gives back what its call did not use.
LEMMA EndOpRoom ==
  ASSUME LogInv, NEW p \in Procs, EndOp(p) \/ EndOpCommit(p)
  PROVE  RoomOK'
  <1>1. ControlOK /\ RoomOK /\ TypeOK
    BY DEF LogInv
  <1>2. /\ UNCHANGED <<lh, holder, boot>> /\ pc[p] = "op"
        /\ \A q \in Procs : wrote'[q] = IF q = p THEN {} ELSE wrote[q]
    BY <1>1 DEF EndOp, EndOpCommit, TypeOK, cacheVars
  <1>3. \A q \in Procs : /\ q = p => pc'[q] \in {"idle", "committed", "writeLog"}
                         /\ q # p => pc'[q] = pc[q] \/ pc'[q] = "begin"
    BY SMT, <1>1 DEF EndOp, EndOpCommit, Goto, GotoWaking, TypeOK
  <1>4. Active' \subseteq Active /\ p \notin Active'
    BY <1>3 DEF Active
  <1>5. \A q \in Active' : wrote[q] \subseteq wrote'[q]
    BY <1>2, <1>4 DEF Active
  <1>6. \A q \in Procs : IsFiniteSet(wrote'[q]) /\ Cardinality(wrote'[q]) <= OpBlocks
    <2>1. IsFiniteSet({}) /\ Cardinality({}) = 0 /\ 0 <= OpBlocks
      BY SMT, FS_EmptySet, LogAssumption
    <2> QED
      BY <1>1, <1>2, <2>1 DEF RoomOK
  <1>7. ASSUME NEW b \in Blocks, Dirty(b)' PROVE b \in wrote'[holder'[b]]
    <2>1. holder[b] \in Procs /\ holder'[b] = holder[b] /\ pc'[holder[b]] \in {"dirty", "panic"}
      BY <1>1, <1>2, <1>7, LogAssumption DEF Dirty, TypeOK
    <2>2. holder[b] # p /\ pc[holder[b]] \in {"dirty", "panic"}
      BY <1>3, <2>1
    <2>3. Dirty(b)
      BY <1>2, <1>7, <2>1, <2>2 DEF Dirty
    <2> QED
      BY <1>1, <1>2, <2>1, <2>2, <2>3 DEF RoomOK
  <1>8. lh \in Seq(Blocks) /\ lh' = lh /\ boot' = boot
    BY <1>1, <1>2 DEF TypeOK
  <1> QED
    BY <1>1, <1>4, <1>5, <1>6, <1>7, <1>8, RoomKept

\* The steps of a commit: no call is active, and the log gets no longer.
LEMMA CommitRoom ==
  ASSUME LogInv, NEW p \in Procs, CommitStep(p)
  PROVE  RoomOK'
  <1>1. ControlOK /\ RoomOK /\ TypeOK
    BY DEF LogInv
  <1>2. Commits(p)
    BY DEF CommitStep, WriteLog, WriteHead, Install, ClearLog, CommitDone, Commits
  <1>3. /\ boot = "up" /\ committing /\ \A b \in Blocks : holder[b] = Nobody
    BY <1>2, CommitPhase
  <1>4. Active = {}
    BY <1>1, <1>3, NoneActive, TypeControl
  <1>5. UNCHANGED <<holder, wrote, boot>> /\ lh' \in {lh, << >>}
    BY DEF CommitStep, WriteLog, WriteHead, Install, ClearLog, CommitDone, cacheVars, logVars
  <1>6. \A q \in Procs : pc'[q] = pc[q] \/ pc'[q] \in {"idle", "begin", "install", "committed"}
    BY <1>1 DEF CommitStep, WriteLog, WriteHead, Install, ClearLog, CommitDone, Goto, GotoWaking, TypeOK
  <1>7. Active' = {}
    BY <1>4, <1>6 DEF Active
  <1>8. Cardinality(Slack) = 0 /\ Cardinality(Slack') = 0
    <2>1. Cardinality(Slack) = 0
      BY <1>4, SlackNone DEF NoCall, NothingLeft
    <2>2. NothingLeft'
      <3>1. NoCall'
        BY <1>7 DEF NoCall
      <3> QED
        BY <3>1, SlackNone, PTL
    <2> QED
      BY <2>1, <2>2 DEF NothingLeft
  <1>9. Len(lh') + Cardinality(Slack') <= LOGSIZE
    <2>1. Len(lh) + Cardinality(Slack) <= LOGSIZE /\ Len(lh) \in Nat /\ LOGSIZE \in Nat
      BY SMT, <1>1, <1>3, LogAssumption DEF RoomOK, TypeOK
    <2>2. Len(<< >>) = 0
      OBVIOUS
    <2> QED
      BY SMT, <1>5, <1>8, <2>1, <2>2
  <1>10. \A b \in Blocks : ~Dirty(b)'
    BY <1>3, <1>5 DEF Dirty
  <1> QED
    BY <1>1, <1>5, <1>9, <1>10 DEF RoomOK

\* Outside the calls: readers and evictions, a crash, and recovery, after which the log is
\* empty and no call has begun.
LEMMA OtherRoom ==
  ASSUME LogInv, (\E b \in Blocks : Load(b) \/ Evict(b)) \/ Recover \/ Crash
  PROVE  RoomOK'
  <1>1. ControlOK /\ RoomOK /\ TypeOK
    BY DEF LogInv
  <1>2. ASSUME NEW b \in Blocks, Load(b) \/ Evict(b) PROVE RoomOK'
    <2>1. UNCHANGED <<lh, wrote, boot, pc, holder>>
      BY <1>2 DEF Load, Evict, logVars
    <2>2. Active' \subseteq Active /\ \A c \in Blocks : Dirty(c)' => Dirty(c) /\ holder'[c] = holder[c]
      BY <2>1 DEF Active, Dirty
    <2> QED
      BY <2>1, <2>2, RoomQuiet
  <1>3. CASE Recover
    <2>1. UNCHANGED <<wrote, pc, holder>> /\ boot # "up"
      BY <1>3 DEF Recover, RecoverRead, RecoverInstall, RecoverClear, cacheVars
    <2>2. Active' = {}
      BY <1>1, <2>1 DEF Active, ControlOK
    <2>3. NothingLeft'
      <3>1. NoCall'
        BY <2>2 DEF NoCall
      <3> QED
        BY <3>1, SlackNone, PTL
    <2>4. boot' = "up" => lh' = << >>
      BY <1>3, <2>1 DEF Recover, RecoverRead, RecoverInstall, RecoverClear
    <2>5. boot' = "up" => Len(lh') + Cardinality(Slack') <= LOGSIZE
      <3>1. Cardinality(Slack') = 0 /\ LOGSIZE \in Nat
        BY <2>3, LogAssumption DEF NothingLeft
      <3>2. Len(<< >>) = 0
        OBVIOUS
      <3> QED
        BY SMT, <2>4, <3>1, <3>2
    <2>6. \A c \in Blocks : Dirty(c)' => Dirty(c)
      BY <2>1 DEF Dirty
    <2> QED
      BY <1>1, <2>1, <2>5, <2>6 DEF RoomOK
  <1>4. CASE Crash
    <2>1. /\ \A q \in Procs : wrote'[q] = {}
          /\ \A c \in Blocks : holder'[c] = Nobody
          /\ boot' = "readHead"
      BY <1>4 DEF Crash
    <2>2. IsFiniteSet({}) /\ Cardinality({}) = 0 /\ 0 <= OpBlocks
      BY SMT, FS_EmptySet, LogAssumption
    <2>3. \A c \in Blocks : ~Dirty(c)'
      BY <2>1 DEF Dirty
    <2> QED
      BY <2>1, <2>2, <2>3 DEF RoomOK
  <1> QED
    BY <1>2, <1>3, <1>4

\* The log and the reservations fit in the header after every step.
LEMMA RoomNext ==
  ASSUME LogInv, [Next]_vars
  PROVE  RoomOK'
  <1>1. TypeOK
    BY DEF LogInv
  <1>2. ASSUME NEW p \in Procs, OpStep(p) PROVE RoomOK'
    <2>1. CASE BeginSleep(p)
      <3>1. UNCHANGED <<lh, wrote, boot, holder>>
        BY <2>1 DEF BeginSleep, logVars, cacheVars
      <3>2. \A q \in Procs : pc'[q] = pc[q] \/ pc'[q] = "asleep"
        BY <1>1, <2>1 DEF BeginSleep, Goto, TypeOK
      <3>3. Active' \subseteq Active
        BY <3>2 DEF Active
      <3>4. \A c \in Blocks : Dirty(c)' => Dirty(c) /\ holder'[c] = holder[c]
        BY <1>1, <3>1, <3>2 DEF Dirty, TypeOK
      <3> QED
        BY <3>1, <3>3, <3>4, RoomQuiet
    <2>2. ASSUME NEW b \in Blocks, Bread(p, b) PROVE RoomOK'
      <3>1. /\ UNCHANGED <<lh, wrote, boot>> /\ pc[p] = "op"
            /\ \A c \in Blocks : holder'[c] = IF c = b THEN p ELSE holder[c]
            /\ \A q \in Procs : pc'[q] = IF q = p THEN "hold" ELSE pc[q]
        BY <1>1, <2>2 DEF Bread, Goto, TypeOK, logVars
      <3>2. Active' \subseteq Active
        BY <3>1 DEF Active
      <3>3. \A c \in Blocks : Dirty(c)' => Dirty(c) /\ holder'[c] = holder[c]
        BY <1>1, <3>1 DEF Dirty, TypeOK
      <3> QED
        BY <3>1, <3>2, <3>3, RoomQuiet
    <2>3. ASSUME NEW b \in Blocks, Brelse(p, b) PROVE RoomOK'
      <3>1. /\ UNCHANGED <<lh, wrote, boot>> /\ pc[p] \in {"hold", "logged"}
            /\ \A c \in Blocks : holder'[c] = IF c = b THEN Nobody ELSE holder[c]
            /\ \A q \in Procs : pc'[q] = IF q = p THEN "op" ELSE pc[q]
        BY <1>1, <2>3 DEF Brelse, Goto, TypeOK, logVars
      <3>2. Active' \subseteq Active
        BY <3>1 DEF Active
      <3>3. \A c \in Blocks : Dirty(c)' => Dirty(c) /\ holder'[c] = holder[c]
        BY <1>1, <3>1 DEF Dirty, TypeOK
      <3> QED
        BY <3>1, <3>2, <3>3, RoomQuiet
    <2> QED
      BY <1>2, <2>1, <2>2, <2>3, BeginOpRoom, ModifyRoom, LogWriteRoom, EndOpRoom DEF OpStep
  <1>3. CASE UNCHANGED vars
    <2>1. UNCHANGED <<lh, wrote, boot, pc, holder>>
      BY <1>3 DEF vars, logVars, cacheVars
    <2>2. Active' \subseteq Active /\ \A c \in Blocks : Dirty(c)' => Dirty(c) /\ holder'[c] = holder[c]
      BY <2>1 DEF Active, Dirty
    <2> QED
      BY <2>1, <2>2, RoomQuiet
  <1> QED
    BY <1>2, <1>3, CommitRoom, OtherRoom DEF Next

-----------------------------------------------------------------------------
(* The theorems                                                            *)

\* What every step does to the blocks, as LogSpec sees them.
PromiseStep == [Promise!SpecNext]_<<Current, Recovered, outstanding>>

\* Every step keeps the data right and is a step of LogSpec or none.
LEMMA LogStep ==
  ASSUME LogInv, [Next]_vars
  PROVE  DataOK' /\ TypeOK' /\ PromiseStep
  <1>0. TypeOK /\ HoldersOK /\ CacheOK /\ LogOK
    BY DEF LogInv
  <1>1. ASSUME NEW p \in Procs, BeginSleep(p) \/ BeginOp(p) \/ EndOp(p) \/ EndOpCommit(p)
        PROVE  DataOK' /\ PromiseStep
    <2>1. DataOK' /\ SameBlocks
      BY <1>1, BeginEndStep
    <2>2. \/ outstanding' = outstanding \/ outstanding' = outstanding + 1
          \/ outstanding > 0 /\ outstanding' = outstanding - 1
      BY SMT, <1>0, <1>1 DEF BeginSleep, BeginOp, EndOp, EndOpCommit, logVars, TypeOK
    <2> QED
      BY <2>1, <2>2 DEF PromiseStep, SameBlocks, Promise!SpecNext, Promise!Begin, Promise!End
  <1>2. ASSUME NEW p \in Procs, NEW b \in Blocks, Bread(p, b) \/ LogWrite(p, b) \/ Brelse(p, b)
        PROVE  DataOK' /\ PromiseStep
    <2>1. DataOK' /\ SameBlocks
      BY <1>2, BreadStep, LogWriteStep, BrelseStep
    <2>2. outstanding' = outstanding
      BY <1>2 DEF Bread, LogWrite, Brelse, logVars
    <2> QED
      BY <2>1, <2>2 DEF PromiseStep, SameBlocks
  <1>3. ASSUME NEW p \in Procs, NEW b \in Blocks, NEW d \in Data, Modify(p, b, d)
        PROVE  DataOK' /\ PromiseStep
    <2>1. DataOK' /\ Recovered' = Recovered /\ Current' = [Current EXCEPT ![b] = d]
      BY <1>3, ModifyStep
    <2>2. outstanding' = outstanding /\ p \in Active
      BY <1>3 DEF Modify, logVars, Active
    <2>3. outstanding > 0
      BY <2>2, ActivePhase
    <2> QED
      BY <2>1, <2>2, <2>3 DEF PromiseStep, Promise!SpecNext, Promise!Write
  <1>4. ASSUME NEW p \in Procs, WriteLog(p) \/ Install(p) \/ ClearLog(p) \/ CommitDone(p)
        PROVE  DataOK' /\ PromiseStep
    <2>1. DataOK' /\ SameBlocks
      BY <1>4, WriteLogStep, InstallStep, ClearLogStep, BeginEndStep
    <2>2. outstanding' = outstanding
      BY <1>4 DEF WriteLog, Install, ClearLog, CommitDone, logVars
    <2> QED
      BY <2>1, <2>2 DEF PromiseStep, SameBlocks
  <1>5. ASSUME NEW p \in Procs, WriteHead(p)
        PROVE  DataOK' /\ PromiseStep
    <2>1. DataOK' /\ Recovered' = Current /\ Current' = Current
      BY <1>5, WriteHeadStep
    <2>2. outstanding' = outstanding /\ Commits(p)
      BY <1>5 DEF WriteHead, logVars, Commits
    <2>3. outstanding = 0
      BY <2>2, CommitPhase
    <2> QED
      BY <2>1, <2>2, <2>3 DEF PromiseStep, Promise!SpecNext, Promise!Commit
  <1>6. ASSUME NEW b \in Blocks, Load(b) \/ Evict(b)
        PROVE  DataOK' /\ PromiseStep
    <2>1. DataOK' /\ SameBlocks
      BY <1>6, LoadEvictStep
    <2>2. outstanding' = outstanding
      BY <1>6 DEF Load, Evict, logVars
    <2> QED
      BY <2>1, <2>2 DEF PromiseStep, SameBlocks
  <1>7. ASSUME Recover
        PROVE  DataOK' /\ PromiseStep
    <2>1. DataOK' /\ SameBlocks
      BY <1>7, RecoverReadStep, RecoverInstallStep, RecoverClearStep DEF Recover
    <2>2. outstanding' = outstanding
      BY <1>7 DEF Recover, RecoverRead, RecoverInstall, RecoverClear, logVars
    <2> QED
      BY <2>1, <2>2 DEF PromiseStep, SameBlocks
  <1>8. ASSUME Crash
        PROVE  DataOK' /\ PromiseStep
    <2>1. DataOK' /\ Recovered' = Recovered /\ Current' = Recovered
      BY <1>8, CrashStep
    <2>2. outstanding' = 0
      BY <1>8 DEF Crash
    <2> QED
      BY <2>1, <2>2 DEF PromiseStep, Promise!SpecNext, Promise!Crash
  <1>9. CASE UNCHANGED vars
    <2>1. DataOK' /\ SameBlocks
      BY <1>9, QuietStep DEF vars, logVars
    <2>2. outstanding' = outstanding
      BY <1>9 DEF vars, logVars
    <2>3. TypeOK'
      BY <1>0, <1>9 DEF TypeOK, vars, diskVars, cacheVars, logVars
    <2> QED
      BY <2>1, <2>2, <2>3 DEF PromiseStep, SameBlocks
  <1>10. CASE Next
    <2>1. DataOK' /\ PromiseStep
      BY <1>1, <1>2, <1>3, <1>4, <1>5, <1>6, <1>7, <1>8, <1>10 DEF Next, OpStep, CommitStep
    <2>2. TypeOK'
      BY <1>10, CallTypes, CommitTypes, OtherTypes DEF Next
    <2> QED
      BY <2>1, <2>2
  <1> QED
    BY <1>9, <1>10


\* mkfs leaves a state that satisfies the invariant, initial for LogSpec.
LEMMA LogInit ==
  ASSUME Init
  PROVE  LogInv /\ Promise!SpecInit
  <1>1. TypeOK
    <2>1. /\ cache \in [Blocks -> Data \cup {NotCached}] /\ pins \in [Blocks -> Nat]
          /\ holder \in [Blocks -> Procs \cup {Nobody}]
          /\ pc \in [Procs -> Labels] /\ wrote \in [Procs -> SUBSET Blocks]
      BY DEF Init, Labels
    <2>2. << >> \in Seq(Data) /\ << >> \in Seq(Blocks) /\ 0 \in Nat /\ 1 \in Nat \ {0} /\ FALSE \in BOOLEAN
      BY SMT
    <2>3. /\ logDisk = << >> /\ headDisk = << >> /\ lh = << >> /\ disk \in [Blocks -> Data]
          /\ outstanding = 0 /\ committing = FALSE /\ tail = 1 /\ boot = "readHead"
      BY DEF Init
    <2> QED
      BY <2>1, <2>2, <2>3 DEF TypeOK, Labels
  <1>2. ControlOK
    BY BootControl DEF Init
  <1>3. HoldersOK
    BY DEF Init, HoldersOK
  <1>4. \A b \in Blocks : ~Dirty(b)
    BY DEF Init, Dirty
  <1>5. CacheOK
    BY <1>4 DEF Init, CacheOK
  <1>6. LogOK
    BY SMT DEF Init, LogOK, Distinct
  <1>7. Recovered = disk /\ disk \in [Blocks -> Data]
    BY SMT DEF Init, Recovered
  <1>8. Current = Recovered
    BY <1>7 DEF Init, Current
  <1>9. Promise!SpecInit
    BY <1>7, <1>8 DEF Promise!SpecInit, Init
  <1>10. RoomOK
    <2>1. IsFiniteSet({}) /\ Cardinality({}) = 0 /\ 0 <= OpBlocks
      BY SMT, FS_EmptySet, LogAssumption
    <2> QED
      BY <1>4, <2>1 DEF Init, RoomOK
  <1> QED
    BY <1>1, <1>2, <1>3, <1>5, <1>6, <1>9, <1>10 DEF LogInv

\* The invariant of log_write(), commit() and recovery holds whatever the blocks, the
\* processes and the sizes are, over every crash.
THEOREM LogInvariant == Spec => []LogInv
  <1>1. Init => LogInv
    BY LogInit
  <1>2. LogInv /\ [Next]_vars => LogInv'
    <2> SUFFICES ASSUME LogInv, [Next]_vars
                 PROVE  LogInv'
      OBVIOUS
    <2>1. ControlOK'
      BY ControlNext, TypeControl DEF LogInv
    <2>2. RoomOK'
      BY RoomNext
    <2> QED
      BY <2>1, <2>2, LogStep DEF LogInv, DataOK
  <1> QED
    BY <1>1, <1>2, PTL DEF Spec

\* A crash between any two block writes, also in commit() or in recovery, falls back to the
\* blocks of a moment when no call was active: the log implements LogSpec.
THEOREM LogKeepsPromise == Spec => CrashSafe
  <1>1. Init => Promise!SpecInit
    BY LogInit
  <1>2. LogInv /\ [Next]_vars => [Promise!SpecNext]_(Promise!specVars)
    BY LogStep DEF PromiseStep, Promise!specVars
  <1> QED
    BY <1>1, <1>2, LogInvariant, PTL DEF Spec, CrashSafe, Promise!Spec

\* end_op() commits with no call active, and one commit at a time.
THEOREM LogCommitsAlone == Spec => []CommitsAlone
  <1>1. LogInv => CommitsAlone
    BY DEF LogInv, ControlOK, CommitsAlone, Commits
  <1> QED
    BY <1>1, LogInvariant, PTL

\* Whoever sleeps in begin_op() waits for a commit or a call that is still to end.
THEOREM LogSleepersWaited == Spec => []SleepersHaveWaker
  <1>1. LogInv => SleepersHaveWaker
    BY DEF LogInv, ControlOK
  <1> QED
    BY <1>1, LogInvariant, PTL

\* Between transactions nothing is pinned or logged, and the cache agrees with the disk.
THEOREM LogQuiescent == Spec => []QuiescentClean
  <1>1. LogInv => QuiescentClean
    <2> SUFFICES ASSUME LogInv, boot = "up", outstanding = 0, ~committing
                 PROVE  /\ lh = << >> /\ headDisk = << >>
                        /\ \A b \in Blocks : pins[b] = 0 /\ Read(b) = disk[b]
      BY DEF QuiescentClean
    <2>0. TypeOK /\ ControlOK /\ HoldersOK /\ CacheOK /\ LogOK
      BY DEF LogInv
    <2>1. lh = << >> /\ \A p \in Procs : pc[p] # "install"
      BY <2>0 DEF ControlOK, Commits
    <2>2. headDisk = << >>
      BY <2>0, <2>1 DEF LogOK
    <2>3. \A b \in Blocks : ~Pending(b)
      <3>1. 1 .. Len(<< >>) = {}
        BY ONLY SMT
      <3>2. QED
        BY <2>1, <3>1 DEF Pending
    <2>4. ASSUME NEW p \in Procs PROVE p \notin Active
      <3>1. p \in Active => outstanding > 0
        BY ActivePhase
      <3>2. ~(0 > 0)
        BY ONLY SMT
      <3>3. QED
        BY <3>1, <3>2
    <2>5. \A b \in Blocks : ~Dirty(b)
      BY <2>0, <2>4 DEF Dirty, Active, TypeOK
    <2>6. \A b \in Blocks : Recovered[b] = disk[b]
      BY <2>2, RecoveredEmpty
    <2> QED
      BY <2>0, <2>1, <2>2, <2>3, <2>5, <2>6 DEF CacheOK, Read
  <1> QED
    BY <1>1, LogInvariant, PTL

\* begin_op() reserves enough: log_write() never panics, whatever calls run together, when a
\* call logs as few blocks as LogRoom says.
THEOREM LogHasRoom == ASSUME LogRoom PROVE Spec => []NeverTooBig
  <1>1. Init => NeverTooBig
    BY DEF Init, NeverTooBig
  <1>2. LogInv /\ NeverTooBig /\ [Next]_vars => NeverTooBig'
    <2> SUFFICES ASSUME LogInv, NeverTooBig, [Next]_vars, NEW q \in Procs, pc'[q] = "panic"
                 PROVE  FALSE
      BY DEF NeverTooBig
    <2>1. TypeOK /\ pc[q] # "panic"
      BY DEF LogInv, NeverTooBig
    <2>2. ASSUME NEW p \in Procs, NEW b \in Blocks, LogWrite(p, b) PROVE FALSE
      <3>1. p \in Active
        BY <2>2 DEF LogWrite, Active
      <3>2. ~Full
        BY <3>1, NotFull
      <3> QED
        BY <2>1, <2>2, <3>2 DEF LogWrite, Goto, TypeOK
    <2>3. ASSUME NEW p \in Procs, NEW b \in Blocks,
                 Bread(p, b) \/ Brelse(p, b) \/ \E d \in Data : Modify(p, b, d)
          PROVE FALSE
      BY <2>1, <2>3 DEF Bread, Brelse, Modify, Goto, TypeOK
    <2>4. ASSUME NEW p \in Procs,
                 BeginSleep(p) \/ BeginOp(p) \/ EndOp(p) \/ EndOpCommit(p)
          PROVE FALSE
      BY <2>1, <2>4 DEF BeginSleep, BeginOp, EndOp, EndOpCommit, Goto, GotoWaking, TypeOK
    <2>5. ASSUME NEW p \in Procs, CommitStep(p) PROVE FALSE
      BY <2>1, <2>5 DEF CommitStep, WriteLog, WriteHead, Install, ClearLog, CommitDone, Goto,
                        GotoWaking, TypeOK
    <2>6. CASE (\E b \in Blocks : Load(b) \/ Evict(b)) \/ Recover \/ Crash \/ UNCHANGED vars
      BY <2>1, <2>6 DEF Load, Evict, Recover, RecoverRead, RecoverInstall, RecoverClear, Crash, vars
    <2> QED
      BY <2>2, <2>3, <2>4, <2>5, <2>6 DEF Next, OpStep
  <1> QED
    BY <1>1, <1>2, LogInvariant, PTL DEF Spec
=============================================================================
