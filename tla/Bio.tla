-------------------------------- MODULE Bio ---------------------------------
(***************************************************************************)
(* The buffer cache (kernel/bio.c), its sleep locks (kernel/sleeplock.c)   *)
(* and the disk driver under it (kernel/virtio_disk.c).                    *)
(*                                                                         *)
(* Processes read a block, may change it, and then either write it at once *)
(* or pin it and leave the write to a later caller, as log.c does.  A step *)
(* is one section under bcache.lock, a sleep lock's spinlock or            *)
(* vdisk_lock; sleep() gives the spinlock up and sleeps in one step, and   *)
(* wakeup() sends the sleepers back to the test of their loop.  The device *)
(* completes requests in any order, while the driver runs.  The rings are  *)
(* the queues that their free-running indices, taken modulo NUM, encode.   *)
(***************************************************************************)
EXTENDS Integers, Sequences, FiniteSets

CONSTANTS Blocks,       \* block numbers on disk
          Data,         \* block contents
          Procs,        \* processes that use the cache
          Nobody,       \* not a process
          NoBlock,      \* not a block
          NBUF,         \* buffers
          NUM,          \* descriptors
          MaxPins,      \* buffers the log pins at a time
          Uses,         \* the <<process, block>> of the calls to bread()
          Victims,      \* processes that are killed
          store0,       \* the disk at boot
          Changes       \* the <<block, content>> that processes write

ASSUME BioAssumption ==
  /\ NBUF \in Nat /\ NUM \in Nat /\ MaxPins \in Nat /\ NUM >= 3
  /\ IsFiniteSet(Procs)
  /\ Nobody \notin Procs /\ NoBlock \notin Blocks \cup Data
  /\ store0 \in [Blocks -> Data] /\ Changes \subseteq Blocks \X Data
  /\ Uses \subseteq Procs \X Blocks /\ Victims \subseteq Procs

Bufs == 1 .. NBUF
Descs == 0 .. NUM - 1

VARIABLES
  buf,          \* per buffer: blockno, valid, disk, refcnt, data
  lru,          \* bcache.head's list, most recently used first
  lock,         \* the process that holds each buffer's sleep lock
  pinned,       \* the buffers the log has pinned
  store,        \* the blocks on the disk itself
  free,         \* disk.free: the descriptors not in use
  next,         \* disk.desc[i].next where F_NEXT is set, otherwise -1
  req,          \* disk.ops and disk.info by head of chain: buffer, write, status
  posted,       \* chains in the avail ring that the device has not completed
  used,         \* chains in the used ring that the driver has not seen
  irq,          \* the device's interrupt is raised
  intr,         \* where virtio_disk_intr(), which holds vdisk_lock, is
  pc, cur,      \* where each process is, and its buffer
  head          \* idx[0] of its request

cacheVars == <<buf, lru, lock, pinned>>
diskVars == <<store, free, next, req, posted, used, irq, intr>>
procVars == <<pc, cur, head>>
vars == <<cacheVars, diskVars, procVars>>

NoReq == [b |-> 0, write |-> FALSE, status |-> 0]

Init ==
  /\ buf = [i \in Bufs |-> [blockno |-> NoBlock, valid |-> FALSE, disk |-> FALSE,
                            refcnt |-> 0, data |-> NoBlock]]
  /\ lru = [i \in Bufs |-> NBUF + 1 - i]
  /\ lock = [i \in Bufs |-> Nobody]
  /\ pinned = {}
  /\ store = store0
  /\ free = Descs /\ next = [i \in Descs |-> -1]
  /\ req = [i \in Descs |-> NoReq]
  /\ posted = {} /\ used = << >> /\ irq = FALSE /\ intr = "idle"
  /\ pc = [p \in Procs |-> "idle"] /\ cur = [p \in Procs |-> 0]
  /\ head = [p \in Procs |-> -1]

Goto(p, label) == pc' = [pc EXCEPT ![p] = label]

\* Where the processes in sleep() are, and where it returns to: the test of the
\* caller's loop.
Asleep == {"lockSleep", "descRead", "descWrite", "diskRead", "diskWrite"}
Again(label) == CASE label = "lockSleep" -> "relock"
                  [] label = "descRead" -> "retry"
                  [] label = "descWrite" -> "rewrite"
                  [] label = "diskRead" -> "doneRead"
                  [] label = "diskWrite" -> "doneWrite"

\* p goes to label, and the processes W wake up.
GotoWaking(p, label, W) ==
  pc' = [q \in Procs |-> IF q = p THEN label ELSE IF q \in W THEN Again(pc[q]) ELSE pc[q]]

-----------------------------------------------------------------------------
(* bget(), brelse(), bpin(), bunpin() and the sleep lock of a buffer       *)

Cached(b) == {i \in Bufs : buf[i].blockno = b}

\* The first buffer from the tail of the list that nobody references.
Unused == {k \in Bufs : buf[lru[k]].refcnt = 0}
Lru == lru[CHOOSE k \in Unused : \A j \in Unused : j <= k]

\* Variant: a hit takes no reference.
BgetHitUncounted(p, b) ==
  /\ pc[p] = "idle"
  /\ \E i \in Cached(b) : cur' = [cur EXCEPT ![p] = i] /\ Goto(p, "lock")
  /\ UNCHANGED <<cacheVars, diskVars, head>>

BgetHit(p, b) ==
  /\ pc[p] = "idle"
  /\ \E i \in Cached(b) :
       /\ buf' = [buf EXCEPT ![i].refcnt = @ + 1]
       /\ cur' = [cur EXCEPT ![p] = i]
  /\ Goto(p, "lock")
  /\ UNCHANGED <<lru, lock, pinned, diskVars, head>>

\* Variant: the block is recycled without a second look for it, as it would be
\* if bcache.lock were given up between the two loops.
BgetMissBlind(p, b) ==
  /\ pc[p] = "idle" /\ Unused # {}
  /\ buf' = [buf EXCEPT ![Lru] = [@ EXCEPT !.blockno = b, !.valid = FALSE, !.refcnt = 1]]
  /\ cur' = [cur EXCEPT ![p] = Lru]
  /\ Goto(p, "lock")
  /\ UNCHANGED <<lru, lock, pinned, diskVars, head>>

\* Not cached: recycle the least recently used unused buffer.
BgetMiss(p, b) ==
  /\ pc[p] = "idle" /\ Cached(b) = {} /\ Unused # {}
  /\ buf' = [buf EXCEPT ![Lru] = [@ EXCEPT !.blockno = b, !.valid = FALSE, !.refcnt = 1]]
  /\ cur' = [cur EXCEPT ![p] = Lru]
  /\ Goto(p, "lock")
  /\ UNCHANGED <<lru, lock, pinned, diskVars, head>>

\* panic("bget: no buffers")
BgetPanic(p, b) ==
  /\ pc[p] = "idle" /\ Cached(b) = {} /\ Unused = {}
  /\ Goto(p, "panic")
  /\ UNCHANGED <<cacheVars, diskVars, cur, head>>

\* Variant: the lock is tested once, not again after sleep().
AcquireOnce(p) ==
  /\ \/ pc[p] = "lock" /\ lock[cur[p]] = Nobody
     \/ pc[p] = "relock"
  /\ lock' = [lock EXCEPT ![cur[p]] = p]
  /\ Goto(p, IF buf[cur[p]].valid THEN "held" ELSE "read")
  /\ UNCHANGED <<buf, lru, pinned, diskVars, cur, head>>

\* acquiresleep() succeeds, and bread() looks at valid.
Acquire(p) ==
  /\ pc[p] \in {"lock", "relock"} /\ lock[cur[p]] = Nobody
  /\ lock' = [lock EXCEPT ![cur[p]] = p]
  /\ Goto(p, IF buf[cur[p]].valid THEN "held" ELSE "read")
  /\ UNCHANGED <<buf, lru, pinned, diskVars, cur, head>>

AcquireSleep(p) ==
  /\ pc[p] \in {"lock", "relock"} /\ lock[cur[p]] # Nobody
  /\ Goto(p, "lockSleep")
  /\ UNCHANGED <<cacheVars, diskVars, cur, head>>

\* brelse() up to the end of releasesleep().
Release(p) ==
  /\ pc[p] \in {"held", "saved"}
  /\ lock' = [lock EXCEPT ![cur[p]] = Nobody]
  /\ GotoWaking(p, "brelse", {q \in Procs : pc[q] = "lockSleep" /\ cur[q] = cur[p]})
  /\ UNCHANGED <<buf, lru, pinned, diskVars, cur, head>>

Deref(i) == buf' = [buf EXCEPT ![i].refcnt = @ - 1]

\* Variant: no refcnt--.
BrelseKeeps(p) ==
  /\ pc[p] = "brelse"
  /\ Goto(p, "idle") /\ cur' = [cur EXCEPT ![p] = 0]
  /\ UNCHANGED <<cacheVars, diskVars, head>>

\* Variant: the buffer is put in front without being unlinked.
BrelseTwice(p) ==
  /\ pc[p] = "brelse"
  /\ Deref(cur[p])
  /\ lru' = IF buf[cur[p]].refcnt = 1 THEN <<cur[p]>> \o lru ELSE lru
  /\ Goto(p, "idle") /\ cur' = [cur EXCEPT ![p] = 0]
  /\ UNCHANGED <<lock, pinned, diskVars, head>>

\* b is unlinked and put after bcache.head: what was in front of it moves back.
MoveToFront(i) ==
  LET k == CHOOSE k \in Bufs : lru[k] = i
  IN  [j \in Bufs |-> IF j = 1 THEN i ELSE IF j <= k THEN lru[j - 1] ELSE lru[j]]

\* The rest of brelse(): a buffer nobody waits for moves to the front.
Brelse(p) ==
  /\ pc[p] = "brelse"
  /\ Deref(cur[p])
  /\ lru' = IF buf[cur[p]].refcnt = 1
            THEN MoveToFront(cur[p]) ELSE lru
  /\ Goto(p, "idle") /\ cur' = [cur EXCEPT ![p] = 0]
  /\ UNCHANGED <<lock, pinned, diskVars, head>>

\* The holder changes the block: it must now write or pin it, unless log_write()
\* finds it in the transaction already.
Modify(p, d) ==
  /\ pc[p] = "held" /\ <<buf[cur[p]].blockno, d>> \in Changes
  /\ buf' = [buf EXCEPT ![cur[p]].data = d]
  /\ Goto(p, IF cur[p] \in pinned THEN "saved" ELSE "dirty")
  /\ UNCHANGED <<lru, lock, pinned, diskVars, cur, head>>

\* log_write(): the first write of a block in a transaction pins its buffer.
Bpin(p) ==
  /\ pc[p] = "dirty" /\ Cardinality(pinned) < MaxPins
  /\ buf' = [buf EXCEPT ![cur[p]].refcnt = @ + 1]
  /\ pinned' = pinned \cup {cur[p]}
  /\ Goto(p, "saved")
  /\ UNCHANGED <<lru, lock, diskVars, cur, head>>

\* install_trans(): a pinned buffer that was just written is unpinned.
Bunpin(p) ==
  /\ pc[p] = "written" /\ cur[p] \in pinned
  /\ Deref(cur[p])
  /\ pinned' = pinned \ {cur[p]}
  /\ Goto(p, "saved")
  /\ UNCHANGED <<lru, lock, diskVars, cur, head>>

-----------------------------------------------------------------------------
(* virtio_disk_rw()                                                        *)

\* A reader of an invalid block, a writer of a changed one, or install_trans()
\* with a pinned one; "retry" and "rewrite" are woken after waiting for descriptors.
Reads(p) == pc[p] \in {"read", "retry"}
Writes(p) == \/ pc[p] = "rewrite"
             \/ pc[p] = "dirty"
             \/ pc[p] = "held" /\ cur[p] \in pinned

\* alloc_desc() takes the free descriptor of lowest index, alloc3_desc() three.
First(S) == CHOOSE d \in S : \A e \in S : d <= e
Lowest3 == LET a == First(free)
               b == First(free \ {a})
               c == First(free \ {a, b})
           IN  <<a, b, c>>

\* Variant: free_desc() wakes nobody.
WakeDescNobody(p, label) == Goto(p, label)

\* wakeup(&disk.free[0]), with a step of p to label.
WakeDesc(p, label) ==
  GotoWaking(p, label, {q \in Procs : pc[q] \in {"descRead", "descWrite"}})

\* alloc3_desc() fails; giving back what it took wakes the other waiters.
RwSleep(p) ==
  /\ Reads(p) \/ Writes(p)
  /\ intr = "idle" /\ Cardinality(free) < 3
  /\ LET label == IF Reads(p) THEN "descRead" ELSE "descWrite"
     IN  IF free = {} THEN Goto(p, label) ELSE WakeDesc(p, label)
  /\ UNCHANGED <<cacheVars, diskVars, cur, head>>

\* Three descriptors are formatted and posted, and the process sleeps on b.
RwPost(p) ==
  /\ Reads(p) \/ Writes(p)
  /\ intr = "idle" /\ Cardinality(free) >= 3
  /\ LET i == Lowest3
     IN  /\ free' = free \ {i[1], i[2], i[3]}
         /\ next' = [next EXCEPT ![i[1]] = i[2], ![i[2]] = i[3], ![i[3]] = -1]
         /\ req' = [req EXCEPT ![i[1]] = [b |-> cur[p], write |-> Writes(p), status |-> 255]]
         /\ posted' = posted \cup {i[1]}
         /\ head' = [head EXCEPT ![p] = i[1]]
  /\ buf' = [buf EXCEPT ![cur[p]].disk = TRUE]
  /\ Goto(p, IF Writes(p) THEN "diskWrite" ELSE "diskRead")
  /\ UNCHANGED <<lru, lock, pinned, store, used, irq, intr, cur>>

\* Woken, but b->disk is still 1.
RwSleepAgain(p) ==
  /\ pc[p] \in {"doneRead", "doneWrite"} /\ intr = "idle" /\ buf[cur[p]].disk
  /\ Goto(p, IF pc[p] = "doneRead" THEN "diskRead" ELSE "diskWrite")
  /\ UNCHANGED <<cacheVars, diskVars, cur, head>>

\* The descriptors free_chain(i) visits, by their next fields.
Chain(i) == {i, next[i], IF next[i] = -1 THEN -1 ELSE next[next[i]]} \ {-1}

\* Variant: only the head of the chain is freed.
RwDoneHead(p) ==
  /\ pc[p] \in {"doneRead", "doneWrite"} /\ intr = "idle" /\ ~buf[cur[p]].disk
  /\ req' = [req EXCEPT ![head[p]] = NoReq]
  /\ next' = [next EXCEPT ![head[p]] = -1]
  /\ free' = free \cup {head[p]}
  /\ buf' = [buf EXCEPT ![cur[p]].valid = TRUE]
  /\ WakeDesc(p, IF pc[p] = "doneRead" THEN "held" ELSE IF cur[p] \in pinned THEN "written" ELSE "saved")
  /\ head' = [head EXCEPT ![p] = -1]
  /\ UNCHANGED <<lru, lock, pinned, store, posted, used, irq, intr, cur>>

\* free_chain(), which wakes those waiting for descriptors; bread() sets valid.
RwDone(p) ==
  /\ pc[p] \in {"doneRead", "doneWrite"} /\ intr = "idle" /\ ~buf[cur[p]].disk
  /\ req' = [req EXCEPT ![head[p]] = NoReq]
  /\ next' = [i \in Descs |-> IF i \in Chain(head[p]) THEN -1 ELSE next[i]]
  /\ free' = free \cup Chain(head[p])
  /\ buf' = [buf EXCEPT ![cur[p]].valid = TRUE]
  /\ WakeDesc(p, IF pc[p] = "doneRead" THEN "held" ELSE IF cur[p] \in pinned THEN "written" ELSE "saved")
  /\ head' = [head EXCEPT ![p] = -1]
  /\ UNCHANGED <<lru, lock, pinned, store, posted, used, irq, intr, cur>>

-----------------------------------------------------------------------------
(* The device, and virtio_disk_intr()                                      *)

\* The device does one posted request, in any order, and raises its interrupt.
Device(i) ==
  LET b == req[i].b
  IN  /\ i \in posted
      /\ IF req[i].write
         THEN store' = [store EXCEPT ![buf[b].blockno] = buf[b].data] /\ UNCHANGED buf
         ELSE buf' = [buf EXCEPT ![b].data = store[buf[b].blockno]] /\ UNCHANGED store
      /\ req' = [req EXCEPT ![i].status = 0]
      /\ posted' = posted \ {i} /\ used' = Append(used, i) /\ irq' = TRUE
      /\ UNCHANGED <<lru, lock, pinned, free, next, intr, procVars>>

\* The interrupt is acknowledged under vdisk_lock.
IntrAck ==
  /\ irq /\ intr = "idle"
  /\ irq' = FALSE /\ intr' = "loop"
  /\ UNCHANGED <<cacheVars, store, free, next, req, posted, used, procVars>>

\* One entry of the used ring.  The device serves every request: the status that
\* the code checks, and panics on, is never an error.
IntrEntry ==
  LET b == req[Head(used)].b
  IN  /\ intr = "loop" /\ used # << >>
      /\ buf' = [buf EXCEPT ![b].disk = FALSE]
      /\ pc' = [q \in Procs |-> IF cur[q] = b /\ pc[q] \in {"diskRead", "diskWrite"}
                                THEN Again(pc[q]) ELSE pc[q]]
      /\ used' = Tail(used)
      /\ UNCHANGED <<lru, lock, pinned, store, free, next, req, posted, irq, intr, cur, head>>

\* The loop finds used->idx where it left it.
IntrLoopEnd ==
  /\ intr = "loop" /\ used = << >> /\ intr' = "out"
  /\ UNCHANGED <<cacheVars, store, free, next, req, posted, used, irq, procVars>>

\* Variant: the interrupt is acknowledged here, after the loop.
IntrReturnAcks ==
  /\ intr = "out" /\ intr' = "idle" /\ irq' = FALSE
  /\ UNCHANGED <<cacheVars, store, free, next, req, posted, used, procVars>>

IntrReturn ==
  /\ intr = "out" /\ intr' = "idle"
  /\ UNCHANGED <<cacheVars, store, free, next, req, posted, used, irq, procVars>>

Intr == IntrAck \/ IntrEntry \/ IntrLoopEnd \/ IntrReturn

\* kill() wakes a process from any sleep().
Kill(p) ==
  /\ p \in Victims /\ pc[p] \in Asleep
  /\ Goto(p, Again(pc[p]))
  /\ UNCHANGED <<cacheVars, diskVars, cur, head>>

-----------------------------------------------------------------------------
Step(p) ==
  \/ Acquire(p) \/ AcquireSleep(p) \/ Release(p) \/ Brelse(p)
  \/ Bpin(p) \/ Bunpin(p) \/ Kill(p)
  \/ RwSleep(p) \/ RwPost(p) \/ RwSleepAgain(p) \/ RwDone(p)

Next ==
  \/ \E p \in Procs : \/ Step(p)
                       \/ \E b \in Blocks : /\ <<p, b>> \in Uses
                                            /\ BgetHit(p, b) \/ BgetMiss(p, b) \/ BgetPanic(p, b)
                       \/ \E d \in Data : Modify(p, d)
  \/ \E i \in Descs : Device(i)
  \/ Intr

\* The device does what it was told, its interrupt is taken and returns, and a process
\* whose request is done goes on.
Progress == Intr \/ (\E i \in Descs : Device(i)) \/ \E p \in Procs : RwDone(p)

Spec == Init /\ [][Next]_vars

FairSpec == Spec /\ WF_vars(Progress)

-----------------------------------------------------------------------------
(* Properties                                                              *)

\* The values the variables take.
Buffer == [blockno : Blocks \cup {NoBlock}, valid : BOOLEAN, disk : BOOLEAN,
           refcnt : Nat, data : Data \cup {NoBlock}]
Request == [b : Bufs \cup {0}, write : BOOLEAN, status : {0, 255}]
PCs == {"idle", "lock", "lockSleep", "relock", "read", "held", "dirty", "saved",
        "written", "brelse", "descRead", "descWrite", "retry", "rewrite",
        "diskRead", "diskWrite", "doneRead", "doneWrite", "panic"}

\* Every variable keeps its type.
TypeOK ==
  /\ buf \in [Bufs -> Buffer]
  /\ lru \in [Bufs -> Bufs] /\ \A i \in Bufs : \E k \in Bufs : lru[k] = i
  /\ lock \in [Bufs -> Procs \cup {Nobody}]
  /\ pinned \in SUBSET Bufs
  /\ store \in [Blocks -> Data]
  /\ free \in SUBSET Descs /\ next \in [Descs -> Descs \cup {-1}]
  /\ req \in [Descs -> Request]
  /\ posted \in SUBSET Descs /\ used \in Seq(Descs)
  /\ irq \in BOOLEAN /\ intr \in {"idle", "loop", "out"}
  /\ pc \in [Procs -> PCs]
  /\ cur \in [Procs -> Bufs \cup {0}] /\ head \in [Procs -> Descs \cup {-1}]

\* bget() keeps "one copy" of a block: two buffers never cache the same one,
\* so two processes cannot change different copies.
OneBufferPerBlock ==
  \A i, j \in Bufs : buf[i].blockno = buf[j].blockno /\ buf[i].blockno # NoBlock => i = j

\* The processes between bget() and brelse() of a buffer.
Users(i) == {p \in Procs : cur[p] = i}

\* refcnt counts the processes between bget() and brelse() and the log's pin:
\* a buffer in use is never recycled, an unused one never stuck.
RefsCounted ==
  \A i \in Bufs : buf[i].refcnt = Cardinality(Users(i)) + IF i \in pinned THEN 1 ELSE 0

\* bget() panics only for lack of buffers: while the processes that use one
\* and the pins are fewer than the buffers, there is one to recycle.
NeverOutOfBuffers ==
  Cardinality({p \in Procs : cur[p] # 0}) + Cardinality(pinned) < NBUF => Unused # {}

\* The descriptors in use are those of the chains of the requests in progress,
\* three each and no two in common: free_desc() never panics, none is lost.
InUse == {p \in Procs : head[p] # -1}
ChainsPartition ==
  /\ Descs \ free = UNION {Chain(head[p]) : p \in InUse}
  /\ \A p \in InUse : Cardinality(Chain(head[p])) = 3 /\ req[head[p]].b = cur[p]
  /\ \A p, q \in InUse : p # q => Chain(head[p]) \cap Chain(head[q]) = {}

\* No wakeup is lost: a process asleep on a sleep lock, on its buffer or on the
\* descriptors waits for a lock that is held, a request that is on its way, or
\* descriptors that are in use; a finished request has its interrupt coming.
SleepersHaveWaker ==
  /\ \A p \in Procs :
       /\ pc[p] = "lockSleep" => lock[cur[p]] # Nobody
       /\ pc[p] \in {"diskRead", "diskWrite"} =>
            buf[cur[p]].disk /\ (head[p] \in posted \/ \E k \in 1 .. Len(used) : used[k] = head[p])
       /\ pc[p] \in {"descRead", "descWrite"} => InUse # {}
  /\ used # << >> => irq \/ intr = "loop"

\* Who waits for descriptors in virtio_disk_rw() gets to try again, as requests finish
\* and free_desc() wakes those who wait.
WaitsDesc(p) == pc[p] \in {"descRead", "descWrite"}
DescWaitEnds == \A p \in Procs : WaitsDesc(p) ~> ~WaitsDesc(p)

\* What a bread() of b finds: the valid buffer, otherwise the disk.
Content == [b \in Blocks |->
              IF \E i \in Cached(b) : buf[i].valid
              THEN buf[CHOOSE i \in Cached(b) : buf[i].valid].data ELSE store[b]]

\* The process that holds b with its content in memory.
User == [b \in Blocks |->
           IF \E p \in Procs : /\ cur[p] # 0 /\ buf[cur[p]].blockno = b
                              /\ lock[cur[p]] = p /\ buf[cur[p]].valid
           THEN CHOOSE p \in Procs : /\ cur[p] # 0 /\ buf[cur[p]].blockno = b /\ lock[cur[p]] = p
           ELSE Nobody]

\* The cache implements BlockSpec: recycling, pinning and the order in which
\* the device serves requests never change what a block holds.
Promise == INSTANCE BlockSpec WITH content <- Content, user <- User
Coherent == Promise!Spec
=============================================================================
