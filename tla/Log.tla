-------------------------------- MODULE Log ---------------------------------
(***************************************************************************)
(* kernel/log.c over the buffer cache of kernel/bio.c: concurrent system   *)
(* calls that log block writes, group commit by the last end_op(), a crash *)
(* between any two disk writes, and recovery, which may crash again.       *)
(*                                                                         *)
(* A step ends where the code can be interrupted: each section under       *)
(* log.lock, each bread(), each bwrite() of one block.  A block write is   *)
(* atomic and is on the disk when bwrite() returns, as virtio_disk_rw()    *)
(* waits for it.  The log's own blocks are written and read back through   *)
(* the cache by the committing process alone, so only their disk copy is   *)
(* kept.                                                                   *)
(***************************************************************************)
EXTENDS Integers, Sequences, FiniteSets

CONSTANTS Blocks,       \* home block numbers
          Data,         \* block contents
          Procs,        \* processes in file system calls
          Nobody,       \* not a process
          NotCached,    \* not a block content
          MAXOPBLOCKS,  \* blocks begin_op() reserves for one call
          LOGSIZE,      \* blocks the log header has room for
          logSize,      \* log.size, from the superblock: header and log blocks
          OpBlocks      \* distinct blocks one call logs

ASSUME LogAssumption ==
  /\ MAXOPBLOCKS \in Nat \ {0} /\ LOGSIZE \in Nat /\ logSize \in Nat /\ OpBlocks \in Nat
  /\ MAXOPBLOCKS <= LOGSIZE /\ OpBlocks <= MAXOPBLOCKS
  /\ Nobody \notin Procs /\ NotCached \notin Data

VARIABLES
  disk,         \* the home blocks on disk
  logDisk,      \* the log blocks on disk, as far as they were written
  headDisk,     \* the block numbers in the on-disk header
  cache,        \* the cached content of each home block, or NotCached
  pins,         \* bpin() count of each block
  holder,       \* the process that holds the block's buffer lock
  lh,           \* log.lh: the block numbers logged so far
  outstanding, committing,
  pc,           \* where each process is
  wrote,        \* the blocks it has logged in this call
  tail,         \* the loop index of write_log() and install_trans()
  boot          \* where recover_from_log() is

diskVars == <<disk, logDisk, headDisk>>
cacheVars == <<cache, pins, holder>>
logVars == <<lh, outstanding, committing>>
vars == <<diskVars, cacheVars, logVars, pc, wrote, tail, boot>>

\* A new file system, and memory before its first boot.
Init ==
  /\ disk \in [Blocks -> Data]
  /\ logDisk = << >> /\ headDisk = << >>
  /\ cache = [b \in Blocks |-> NotCached]
  /\ pins = [b \in Blocks |-> 0]
  /\ holder = [b \in Blocks |-> Nobody]
  /\ lh = << >> /\ outstanding = 0 /\ committing = FALSE
  /\ pc = [p \in Procs |-> "idle"]
  /\ wrote = [p \in Procs |-> {}]
  /\ tail = 1 /\ boot = "readHead"

-----------------------------------------------------------------------------
(* Helpers                                                                 *)

Goto(p, label) == pc' = [pc EXCEPT ![p] = label]

\* wakeup(&log), together with a step of p to label.
GotoWaking(p, label) ==
  pc' = [q \in Procs |-> IF q = p THEN label
                         ELSE IF pc[q] = "asleep" THEN "begin" ELSE pc[q]]

\* The log block at position i of the log is written.
SetLog(i, d) == logDisk' = [j \in 1 .. IF i > Len(logDisk) THEN i ELSE Len(logDisk) |->
                              IF j = i THEN d ELSE logDisk[j]]

InLog(b) == \E i \in 1 .. Len(lh) : lh[i] = b

\* What bread() of a home block returns.
Read(b) == IF cache[b] = NotCached THEN disk[b] ELSE cache[b]

-----------------------------------------------------------------------------
(* begin_op()                                                              *)

\* Variants: the caller's own reservation is left out; a commit is ignored.
MustWaitShort == committing \/ Len(lh) + outstanding * MAXOPBLOCKS > LOGSIZE
MustWaitNoCommit == Len(lh) + (outstanding + 1) * MAXOPBLOCKS > LOGSIZE

MustWait == committing \/ Len(lh) + (outstanding + 1) * MAXOPBLOCKS > LOGSIZE

BeginSleep(p) ==
  /\ boot = "up" /\ pc[p] \in {"idle", "begin"} /\ MustWait
  /\ Goto(p, "asleep")
  /\ UNCHANGED <<diskVars, cacheVars, logVars, wrote, tail, boot>>

BeginOp(p) ==
  /\ boot = "up" /\ pc[p] \in {"idle", "begin"} /\ ~MustWait
  /\ outstanding' = outstanding + 1
  /\ Goto(p, "op")
  /\ UNCHANGED <<diskVars, cacheVars, lh, committing, wrote, tail, boot>>

-----------------------------------------------------------------------------
(* A system call: bp = bread(..); modify bp->data[]; log_write(bp); brelse *)

\* bread(b), which returns the buffer locked.
Bread(p, b) ==
  /\ pc[p] = "op" /\ holder[b] = Nobody
  /\ holder' = [holder EXCEPT ![b] = p]
  /\ cache' = [cache EXCEPT ![b] = Read(b)]
  /\ Goto(p, "hold")
  /\ UNCHANGED <<diskVars, pins, logVars, wrote, tail, boot>>

Modify(p, b, d) ==
  /\ pc[p] = "hold" /\ holder[b] = p
  /\ b \in wrote[p] \/ Cardinality(wrote[p]) < OpBlocks
  /\ cache' = [cache EXCEPT ![b] = d]
  /\ wrote' = [wrote EXCEPT ![p] = @ \cup {b}]
  /\ Goto(p, "dirty")
  /\ UNCHANGED <<diskVars, pins, holder, logVars, tail, boot>>

\* log_write() finds no room, absorbed or not: panic("too big a transaction").
Full == Len(lh) >= LOGSIZE \/ Len(lh) >= logSize - 1

\* Variant: no bpin().
LogWriteUnpinned(p, b) ==
  /\ pc[p] = "dirty" /\ holder[b] = p
  /\ lh' = IF Full \/ InLog(b) THEN lh ELSE Append(lh, b)
  /\ Goto(p, IF Full THEN "panic" ELSE "logged")
  /\ UNCHANGED <<diskVars, cacheVars, outstanding, committing, wrote, tail, boot>>

\* log_write(b): absorbed, or appended and pinned.
LogWrite(p, b) ==
  /\ pc[p] = "dirty" /\ holder[b] = p
  /\ IF Full \/ InLog(b) THEN UNCHANGED <<lh, pins>>
     ELSE lh' = Append(lh, b) /\ pins' = [pins EXCEPT ![b] = @ + 1]
  /\ Goto(p, IF Full THEN "panic" ELSE "logged")
  /\ UNCHANGED <<diskVars, cache, holder, outstanding, committing, wrote, tail, boot>>

Brelse(p, b) ==
  /\ pc[p] \in {"hold", "logged"} /\ holder[b] = p
  /\ holder' = [holder EXCEPT ![b] = Nobody]
  /\ Goto(p, "op")
  /\ UNCHANGED <<diskVars, cache, pins, logVars, wrote, tail, boot>>

-----------------------------------------------------------------------------
(* end_op() and commit()                                                   *)

\* Variant: no wakeup(&log).
EndOpSilent(p) ==
  /\ pc[p] = "op" /\ outstanding > 1
  /\ outstanding' = outstanding - 1
  /\ Goto(p, "idle")
  /\ wrote' = [wrote EXCEPT ![p] = {}]
  /\ UNCHANGED <<diskVars, cacheVars, lh, committing, tail, boot>>

\* Not the last call: wake those waiting for reserved space.
EndOp(p) ==
  /\ pc[p] = "op" /\ outstanding > 1
  /\ outstanding' = outstanding - 1
  /\ GotoWaking(p, "idle")
  /\ wrote' = [wrote EXCEPT ![p] = {}]
  /\ UNCHANGED <<diskVars, cacheVars, lh, committing, tail, boot>>

\* The last one commits; an empty transaction writes nothing.
EndOpCommit(p) ==
  /\ pc[p] = "op" /\ outstanding = 1
  /\ outstanding' = 0 /\ committing' = TRUE
  /\ Goto(p, IF lh = << >> THEN "committed" ELSE "writeLog")
  /\ wrote' = [wrote EXCEPT ![p] = {}]
  /\ tail' = 1
  /\ UNCHANGED <<diskVars, cacheVars, lh, boot>>

\* One turn of write_log().
WriteLog(p) ==
  /\ pc[p] = "writeLog" /\ tail <= Len(lh) /\ holder[lh[tail]] = Nobody
  /\ cache' = [cache EXCEPT ![lh[tail]] = Read(lh[tail])]
  /\ SetLog(tail, Read(lh[tail]))
  /\ tail' = tail + 1
  /\ UNCHANGED <<disk, headDisk, pins, holder, logVars, pc, wrote, boot>>

\* write_head(): the commit point.
WriteHead(p) ==
  /\ pc[p] = "writeLog" /\ tail > Len(lh)
  /\ headDisk' = lh
  /\ tail' = 1
  /\ Goto(p, "install")
  /\ UNCHANGED <<disk, logDisk, cacheVars, logVars, wrote, boot>>

\* One turn of install_trans(0).
Install(p) ==
  LET b == lh[tail]
  IN  /\ pc[p] = "install" /\ tail <= Len(lh) /\ holder[b] = Nobody
      /\ cache' = [cache EXCEPT ![b] = logDisk[tail]]
      /\ disk' = [disk EXCEPT ![b] = logDisk[tail]]
      /\ pins' = [pins EXCEPT ![b] = @ - 1]
      /\ tail' = tail + 1
      /\ UNCHANGED <<logDisk, headDisk, holder, logVars, pc, wrote, boot>>

\* Variant: the header on disk is not cleared.
ClearLogMemory(p) ==
  /\ pc[p] = "install" /\ tail > Len(lh)
  /\ lh' = << >>
  /\ tail' = 1
  /\ Goto(p, "committed")
  /\ UNCHANGED <<diskVars, cacheVars, outstanding, committing, wrote, boot>>

\* log.lh.n = 0 and write_head().
ClearLog(p) ==
  /\ pc[p] = "install" /\ tail > Len(lh)
  /\ lh' = << >> /\ headDisk' = << >>
  /\ tail' = 1
  /\ Goto(p, "committed")
  /\ UNCHANGED <<disk, logDisk, cacheVars, outstanding, committing, wrote, boot>>

\* Variant: no wakeup(&log).
CommitDoneSilent(p) ==
  /\ pc[p] = "committed"
  /\ committing' = FALSE
  /\ Goto(p, "idle")
  /\ UNCHANGED <<diskVars, cacheVars, lh, outstanding, wrote, tail, boot>>

\* committing = 0, wakeup(&log).
CommitDone(p) ==
  /\ pc[p] = "committed"
  /\ committing' = FALSE
  /\ GotoWaking(p, "idle")
  /\ UNCHANGED <<diskVars, cacheVars, lh, outstanding, wrote, tail, boot>>

-----------------------------------------------------------------------------
(* The rest of the kernel, and failure                                     *)

\* A reader outside any transaction brings a block into the cache.
Load(b) ==
  /\ boot = "up" /\ holder[b] = Nobody /\ cache[b] = NotCached
  /\ cache' = [cache EXCEPT ![b] = disk[b]]
  /\ UNCHANGED <<diskVars, pins, holder, logVars, pc, wrote, tail, boot>>

\* bget() recycles a buffer nobody references.
Evict(b) ==
  /\ holder[b] = Nobody /\ pins[b] = 0 /\ cache[b] # NotCached
  /\ cache' = [cache EXCEPT ![b] = NotCached]
  /\ UNCHANGED <<diskVars, pins, holder, logVars, pc, wrote, tail, boot>>

Crash ==
  /\ cache' = [b \in Blocks |-> NotCached]
  /\ pins' = [b \in Blocks |-> 0]
  /\ holder' = [b \in Blocks |-> Nobody]
  /\ lh' = << >> /\ outstanding' = 0 /\ committing' = FALSE
  /\ pc' = [p \in Procs |-> "idle"]
  /\ wrote' = [p \in Procs |-> {}]
  /\ tail' = 1 /\ boot' = "readHead"
  /\ UNCHANGED diskVars

\* recover_from_log(): read_head(), install_trans(1), clear the header.
RecoverRead ==
  /\ boot = "readHead"
  /\ lh' = headDisk /\ tail' = 1
  /\ boot' = "install"
  /\ UNCHANGED <<diskVars, cacheVars, outstanding, committing, pc, wrote>>

\* Variant: bunpin() also while recovering.
RecoverInstallUnpins ==
  LET b == lh[tail]
  IN  /\ boot = "install" /\ tail <= Len(lh)
      /\ cache' = [cache EXCEPT ![b] = logDisk[tail]]
      /\ disk' = [disk EXCEPT ![b] = logDisk[tail]]
      /\ pins' = [pins EXCEPT ![b] = @ - 1]
      /\ tail' = tail + 1
      /\ UNCHANGED <<logDisk, headDisk, holder, logVars, pc, wrote, boot>>

RecoverInstall ==
  LET b == lh[tail]
  IN  /\ boot = "install" /\ tail <= Len(lh)
      /\ cache' = [cache EXCEPT ![b] = logDisk[tail]]
      /\ disk' = [disk EXCEPT ![b] = logDisk[tail]]
      /\ tail' = tail + 1
      /\ UNCHANGED <<logDisk, headDisk, pins, holder, logVars, pc, wrote, boot>>

RecoverClear ==
  /\ boot = "install" /\ tail > Len(lh)
  /\ lh' = << >> /\ headDisk' = << >>
  /\ tail' = 1 /\ boot' = "up"
  /\ UNCHANGED <<disk, logDisk, cacheVars, outstanding, committing, pc, wrote>>

-----------------------------------------------------------------------------
OpStep(p) ==
  \/ BeginSleep(p) \/ BeginOp(p)
  \/ \E b \in Blocks : \/ Bread(p, b) \/ LogWrite(p, b) \/ Brelse(p, b)
                       \/ \E d \in Data : Modify(p, b, d)
  \/ EndOp(p) \/ EndOpCommit(p)

CommitStep(p) ==
  WriteLog(p) \/ WriteHead(p) \/ Install(p) \/ ClearLog(p) \/ CommitDone(p)

Recover == RecoverRead \/ RecoverInstall \/ RecoverClear

Next == \/ \E p \in Procs : OpStep(p) \/ CommitStep(p)
        \/ \E b \in Blocks : Load(b) \/ Evict(b)
        \/ Recover \/ Crash

Spec == Init /\ [][Next]_vars

\* A system call does what it began and ends, a commit and recovery proceed.
Fairness ==
  /\ \A p \in Procs : /\ WF_vars(CommitStep(p))
                       /\ WF_vars(\E b \in Blocks : LogWrite(p, b) \/ Brelse(p, b))
                       /\ SF_vars(EndOp(p) \/ EndOpCommit(p))
  /\ WF_vars(Recover)

FairSpec == Spec /\ Fairness

-----------------------------------------------------------------------------
(* Properties                                                              *)

\* Every variable keeps its type.
TypeOK ==
  /\ disk \in [Blocks -> Data]
  /\ logDisk \in Seq(Data) /\ headDisk \in Seq(Blocks)
  /\ cache \in [Blocks -> Data \cup {NotCached}]
  /\ pins \in [Blocks -> Nat]
  /\ holder \in [Blocks -> Procs \cup {Nobody}]
  /\ lh \in Seq(Blocks) /\ outstanding \in Nat /\ committing \in BOOLEAN
  /\ pc \in [Procs -> {"idle", "begin", "asleep", "op", "hold", "dirty", "logged", "panic",
                       "writeLog", "install", "committed"}]
  /\ wrote \in [Procs -> SUBSET Blocks]
  /\ tail \in Nat \ {0}
  /\ boot \in {"readHead", "install", "up"}

\* A process asleep in begin_op() still has what it waits for ahead of it:
\* a commit or an end_op() that will wake it up.
SleepersHaveWaker ==
  \A p \in Procs : pc[p] = "asleep" => MustWait /\ (committing \/ outstanding > 0)

\* end_op()'s check: a commit runs alone, with no system call active and no
\* second committer, so it never writes an unfinished call's updates.
CommitsAlone ==
  /\ committing => outstanding = 0
  /\ \A p, q \in Procs : {pc[p], pc[q]} \subseteq {"writeLog", "install", "committed"} => p = q

\* "LOGSIZE ... max data blocks in on-disk log": begin_op() reserves enough
\* room, log_write() never meets a full log.
NeverTooBig == \A p \in Procs : pc[p] # "panic"

\* Every wait in begin_op() ends: the process gets to test again.
SleepersWoken == \A p \in Procs : pc[p] = "asleep" ~> pc[p] # "asleep"

\* Between transactions the disk is what the file system reads: nothing is
\* pinned, nothing is left in the log, no cached block differs from the disk.
QuiescentClean ==
  boot = "up" /\ outstanding = 0 /\ ~committing =>
    /\ lh = << >> /\ headDisk = << >>
    /\ \A b \in Blocks : pins[b] = 0 /\ Read(b) = disk[b]

\* What a recovery starting now would leave on the disk.
Recovered == [b \in Blocks |->
                IF \E i \in 1 .. Len(headDisk) : headDisk[i] = b
                THEN logDisk[CHOOSE i \in 1 .. Len(headDisk) : headDisk[i] = b]
                ELSE disk[b]]

\* What the file system reads now.
Current == [b \in Blocks |-> IF cache[b] = NotCached THEN Recovered[b] ELSE cache[b]]

\* The log keeps the promise of LogSpec: a crash, also one in the middle of
\* commit or recovery, falls back to a state at which no call was active.
Promise == INSTANCE LogSpec WITH mem <- Current, durable <- Recovered, active <- outstanding
CrashSafe == Promise!Spec

-----------------------------------------------------------------------------
(* The inductive invariant                                                 *)

Active == {p \in Procs : pc[p] \in {"op", "hold", "dirty", "logged", "panic"}}
Commits(p) == pc[p] \in {"writeLog", "install", "committed"}

\* outstanding counts the calls that are active and committing is set while a process
\* commits, alone; the log is empty before the first call and after a commit.
ControlOK ==
  /\ IsFiniteSet(Active) /\ outstanding = Cardinality(Active)
  /\ committing => outstanding = 0
  /\ \A p \in Procs : Commits(p) => committing
  /\ \A p, q \in Procs : Commits(p) /\ Commits(q) => p = q
  /\ \A p \in Procs : pc[p] = "committed" => lh = << >>
  /\ boot = "up" /\ outstanding = 0 /\ ~committing => lh = << >>
  /\ boot # "up" => ~committing /\ \A p \in Procs : pc[p] = "idle"
  /\ SleepersHaveWaker

\* A process holds one buffer, from bread() to brelse().
HoldersOK ==
  /\ \A b \in Blocks : holder[b] # Nobody => pc[holder[b]] \in {"hold", "dirty", "logged", "panic"}
  /\ \A b, c \in Blocks : holder[b] = holder[c] /\ holder[b] # Nobody => b = c

\* A buffer is pinned from log_write() until the commit has installed it.
Pending(b) == \E i \in 1 .. Len(lh) : lh[i] = b /\ ((\E p \in Procs : pc[p] = "install") => i >= tail)
\* A buffer has been modified and is not yet logged.
Dirty(b) == holder[b] # Nobody /\ pc[holder[b]] \in {"dirty", "panic"}

CacheOK ==
  /\ \A b \in Blocks : pins[b] = IF boot = "up" /\ Pending(b) THEN 1 ELSE 0
  /\ \A b \in Blocks : (boot = "up" /\ Pending(b)) \/ Dirty(b) => cache[b] # NotCached
  /\ \A b \in Blocks : ~(boot = "up" /\ Pending(b)) /\ ~Dirty(b) => cache[b] \in {NotCached, Recovered[b]}

Distinct(s) == \A i, j \in 1 .. Len(s) : s[i] = s[j] => i = j

\* The header on disk names the log while it is being installed, by a commit or by
\* recovery, and nothing otherwise; the log holds what the blocks named there contain.
LogOK ==
  /\ Distinct(lh) /\ Distinct(headDisk) /\ Len(headDisk) <= Len(logDisk)
  /\ boot = "up" /\ (\A p \in Procs : pc[p] # "install") => headDisk = << >>
  /\ boot = "readHead" => lh = << >>
  /\ boot = "install" => lh = headDisk
  /\ boot = "install" => \A i \in 1 .. Len(lh) : i < tail => disk[lh[i]] = logDisk[i]
  /\ \A p \in Procs : pc[p] = "writeLog" =>
        /\ tail - 1 <= Len(logDisk) /\ tail <= Len(lh) + 1
        /\ \A i \in 1 .. Len(lh) : i < tail => logDisk[i] = cache[lh[i]]
  /\ \A p \in Procs : pc[p] = "install" =>
        /\ lh = headDisk
        /\ \A i \in 1 .. Len(lh) : IF i < tail THEN disk[lh[i]] = logDisk[i] ELSE logDisk[i] = cache[lh[i]]

\* Of the blocks begin_op() reserved for p, those that p has found or put in the log.
Spent(p) == Cardinality({b \in wrote[p] : InLog(b)})

\* What is left of the reservations, one element for each block.
Slack == {r \in Active \X (1 .. MAXOPBLOCKS) : r[2] > Spent(r[1])}

\* A call has logged what it modified, or is about to; the log and what the active calls
\* may still add to it fit in the header.
RoomOK ==
  /\ \A p \in Procs : IsFiniteSet(wrote[p]) /\ Cardinality(wrote[p]) <= OpBlocks
  /\ \A b \in Blocks : Dirty(b) => b \in wrote[holder[b]]
  /\ boot = "up" => Len(lh) + Cardinality(Slack) <= LOGSIZE

\* A call logs fewer blocks than begin_op() reserves, and the log on disk has room for as
\* many less: so it is with MAXOPBLOCKS 10, LOGSIZE 30, a log of 30 blocks, one of them the
\* header, and the 7 blocks that a write of writei() may log.
LogRoom == OpBlocks < MAXOPBLOCKS /\ LOGSIZE + OpBlocks + 1 < logSize + MAXOPBLOCKS

\* What log_write(), commit() and recovery keep true between any two steps, and from
\* which it follows that a crash at any of them loses nothing that was committed.
LogInv == TypeOK /\ ControlOK /\ HoldersOK /\ CacheOK /\ LogOK /\ RoomOK
=============================================================================
