----------------------------- MODULE BioProofs ------------------------------
(***************************************************************************)
(* The inductive invariant of the buffer cache and the disk driver, that   *)
(* every step of bget(), the sleep locks, brelse(), bpin(), bunpin(), the  *)
(* holder's writes, virtio_disk_rw(), the device and its interrupt handler *)
(* keeps it, and what follows: the buffers suffice, no descriptor and no   *)
(* wakeup is lost, and the cache implements BlockSpec.                     *)
(***************************************************************************)
EXTENDS Bio, FiniteSetTheorems, WellFoundedInduction, TLAPS

\* What a process is doing, whether it sleeps, was woken or never slept.
Class(label) == CASE label \in {"lock", "lockSleep", "relock"} -> "wait"
                  [] label \in {"read", "descRead", "retry"} -> "load"
                  [] label \in {"diskRead", "doneRead"} -> "in"
                  [] label \in {"descWrite", "rewrite"} -> "store"
                  [] label \in {"diskWrite", "doneWrite"} -> "out"
                  [] OTHER -> label
Cl(p) == Class(pc[p])

\* p holds its buffer's sleep lock.
Locked(p) == Cl(p) \in {"load", "in", "held", "dirty", "saved", "written", "store", "out"}

UsedSet == {used[k] : k \in 1 .. Len(used)}
UsedOnce == \A j, k \in 1 .. Len(used) : used[j] = used[k] => j = k

Clean(i) == buf[i].data = store[buf[i].blockno]

\* The holder of a sleep lock, and what it knows about its buffer.
LocksOK ==
  /\ \A p \in Procs : cur[p] = 0 <=> Cl(p) \in {"idle", "panic"}
  /\ \A p \in Procs, i \in Bufs : lock[i] = p <=> cur[p] = i /\ Locked(p)
  /\ \A i \in Bufs : buf[i].refcnt # 0 \/ buf[i].valid => buf[i].blockno # NoBlock
  /\ \A i \in pinned : buf[i].valid
  /\ \A p \in Procs : Locked(p) => (buf[cur[p]].valid <=> Cl(p) \notin {"load", "in"})
  /\ \A p \in Procs : Cl(p) = "dirty" => cur[p] \notin pinned

\* The requests: who made them, and where they are.
RequestsOK ==
  /\ \A p \in Procs : head[p] # -1 <=> Cl(p) \in {"in", "out"}
  /\ \A p \in InUse : req[head[p]].b = cur[p] /\ (req[head[p]].write <=> Cl(p) = "out")
  /\ UsedOnce /\ posted \cap UsedSet = {}
  /\ \A i \in posted \cup UsedSet : \E p \in InUse : head[p] = i
  /\ \A p \in InUse : buf[cur[p]].disk <=> head[p] \in posted \cup UsedSet

\* The descriptors: a request has a chain of three, and no other is in use.
ChainOK(h) == next[h] \in Descs /\ next[next[h]] \in Descs /\ next[next[next[h]]] = -1
ChainsOK ==
  /\ \A p \in InUse : ChainOK(head[p])
  /\ \A p \in InUse : Chain(head[p]) \cap free = {}
  /\ \A p, q \in InUse : p # q => Chain(head[p]) \cap Chain(head[q]) = {}
  /\ \A i \in Descs \ free : \E p \in InUse : i \in Chain(head[p])

\* A buffer that nobody has to write back holds what is on the disk.
CleanOK ==
  /\ \A i \in Bufs : buf[i].valid => buf[i].data \in Data
  /\ \A i \in Bufs : buf[i].valid /\ i \notin pinned /\ lock[i] = Nobody => Clean(i)
  /\ \A p \in Procs : Cl(p) \in {"held", "saved"} /\ cur[p] \notin pinned => Clean(cur[p])
  /\ \A p \in Procs : Cl(p) = "written" => Clean(cur[p])
  /\ \A p \in InUse : head[p] \notin posted => Clean(cur[p])

\* The inductive invariant.
BioInv == /\ TypeOK /\ OneBufferPerBlock /\ RefsCounted /\ LocksOK
          /\ RequestsOK /\ ChainsOK /\ CleanOK /\ SleepersHaveWaker

-----------------------------------------------------------------------------
(* The operators of the model                                              *)

\* Zenon proves the leaves that name no other prover.
USE ZenonT(60)

\* A set of naturals that is not empty has a least element.
LEMMA LeastNat ==
  ASSUME NEW T, T \subseteq Nat, T # {}
  PROVE  \E x \in T : \A y \in T : x <= y
<1> DEFINE R == {ss \in Nat \X Nat : ss[1] < ss[2]}
<1>1. IsWellFoundedOn(R, Nat)
  BY NatLessThanWellFounded DEF OpToRel
<1> HIDE DEF R
<1>2. PICK x \in T : \A y \in T : <<y, x>> \notin R
  BY <1>1, WFMin
<1>3. ASSUME NEW y \in T PROVE x <= y
  <2>1. <<y, x>> \notin R /\ y \in Nat /\ x \in Nat
    BY <1>2
  <2>2. ~(y < x)
    BY <2>1 DEF R
  <2>3. QED
    BY SMT, <2>1, <2>2
<1>4. QED
  BY <1>2, <1>3

\* bget() recycles a buffer that nobody references.
LEMMA LruUnused ==
  ASSUME TypeOK, Unused # {}
  PROVE  Lru \in Bufs /\ buf[Lru].refcnt = 0
<1> DEFINE T == {NBUF - k : k \in Unused}
<1>1. Unused \subseteq Bufs /\ NBUF \in Nat
  BY BioAssumption DEF Unused
<1>2. T \subseteq Nat /\ T # {}
  <2>1. \A k \in Unused : NBUF - k \in Nat
    BY SMT, <1>1 DEF Bufs
  <2>2. T \subseteq Nat
    BY <2>1
  <2>3. QED
    BY <2>2
<1> HIDE DEF T
<1>3. PICK x \in T : \A y \in T : x <= y
  BY <1>2, LeastNat
<1>4. PICK k \in Unused : x = NBUF - k
  BY <1>3 DEF T
<1>5. \A j \in Unused : NBUF - j \in T
  BY DEF T
<1>6. \A j \in Unused : j <= k
  BY SMT, <1>1, <1>3, <1>4, <1>5 DEF Bufs
<1> DEFINE m == CHOOSE n \in Unused : \A j \in Unused : j <= n
<1>7. m \in Unused
  BY <1>4, <1>6
<1>8. lru \in [Bufs -> Bufs]
  BY DEF TypeOK
<1>9. QED
  BY <1>1, <1>7, <1>8 DEF Lru, Unused

\* Waking up does not change what a process is doing.
LEMMA Woken ==
  ASSUME NEW s \in Asleep
  PROVE  Again(s) \in PCs /\ Again(s) \notin Asleep /\ Class(Again(s)) = Class(s)
BY DEF Asleep, Again, PCs, Class

\* The users of a buffer are finitely many.
LEMMA UsersFinite ==
  ASSUME NEW i
  PROVE  IsFiniteSet(Users(i)) /\ Cardinality(Users(i)) \in Nat
<1>1. Users(i) \subseteq Procs /\ IsFiniteSet(Procs)
  BY BioAssumption DEF Users
<1>2. QED
  BY <1>1, FS_Subset, FS_CardinalityType

\* Who has a buffer keeps it from being recycled.
LEMMA UserHasBlock ==
  ASSUME BioInv, NEW p \in Procs, cur[p] # 0
  PROVE  cur[p] \in Bufs /\ buf[cur[p]].refcnt # 0 /\ buf[cur[p]].blockno \in Blocks
<1>1. cur[p] \in Bufs
  BY DEF BioInv, TypeOK
<1>2. Users(cur[p]) # {}
  BY DEF Users
<1>3. Cardinality(Users(cur[p])) # 0
  BY <1>2, UsersFinite, FS_EmptySet
<1>4. buf[cur[p]].refcnt # 0
  BY SMT, <1>1, <1>3, UsersFinite DEF BioInv, RefsCounted
<1>5. buf[cur[p]].blockno # NoBlock
  BY <1>1, <1>4 DEF BioInv, LocksOK
<1>6. buf[cur[p]] \in Buffer
  BY <1>1 DEF BioInv, TypeOK
<1>7. QED
  BY <1>1, <1>4, <1>5, <1>6 DEF Buffer

\* A buffer that nobody references is neither pinned nor locked.
LEMMA UnusedIsFree ==
  ASSUME BioInv, NEW i \in Bufs, buf[i].refcnt = 0
  PROVE  i \notin pinned /\ lock[i] = Nobody /\ \A p \in Procs : cur[p] # i
<1>1. \A p \in Procs : cur[p] # i
  BY SMT, UserHasBlock DEF Bufs
<1>2. i \notin pinned
  BY SMT, UsersFinite DEF BioInv, RefsCounted
<1>3. lock[i] \in Procs \cup {Nobody}
  BY DEF BioInv, TypeOK
<1>4. QED
  BY SMT, <1>1, <1>2, <1>3 DEF BioInv, LocksOK

\* Two processes never hold the same buffer's lock.
LEMMA OneHolder ==
  ASSUME BioInv, NEW p \in Procs, NEW q \in Procs, Locked(p), Locked(q), cur[p] = cur[q]
  PROVE  p = q
<1>1. cur[p] # 0
  BY DEF BioInv, LocksOK, Locked
<1>2. cur[p] \in Bufs
  BY <1>1 DEF BioInv, TypeOK
<1>3. QED
  BY SMT, <1>2 DEF BioInv, LocksOK
-----------------------------------------------------------------------------
(* What a step leaves alone                                                *)

KeepsBlockno == \A j \in Bufs : buf'[j].blockno = buf[j].blockno
KeepsValid == \A j \in Bufs : buf'[j].valid = buf[j].valid
KeepsDisk == \A j \in Bufs : buf'[j].disk = buf[j].disk
KeepsRefcnt == \A j \in Bufs : buf'[j].refcnt = buf[j].refcnt
KeepsData == \A j \in Bufs : buf'[j].data = buf[j].data

\* Buffers that keep their blocks keep one buffer per block.
LEMMA SameBlocks ==
  ASSUME OneBufferPerBlock, KeepsBlockno
  PROVE  OneBufferPerBlock'
BY DEF OneBufferPerBlock, KeepsBlockno

\* References that nobody takes or gives back stay counted.
LEMMA SameRefs ==
  ASSUME RefsCounted, KeepsRefcnt, UNCHANGED <<cur, pinned>>
  PROVE  RefsCounted'
<1>1. \A i : Users(i)' = Users(i)
  BY DEF Users
<1>2. QED
  BY <1>1 DEF RefsCounted, KeepsRefcnt

\* Chains that nobody touches stay as they are.
LEMMA SameChains ==
  ASSUME ChainsOK, UNCHANGED <<free, next, head>>
  PROVE  ChainsOK'
<1>1. InUse' = InUse
  BY DEF InUse
<1>2. \A p : Chain(head[p])' = Chain(head[p]) /\ (ChainOK(head[p])' <=> ChainOK(head[p]))
  BY DEF Chain, ChainOK
<1>3. QED
  BY SMT, <1>1, <1>2 DEF ChainsOK

\* Who holds a buffer's lock has the buffer.
LEMMA HolderHas ==
  ASSUME BioInv, NEW p \in Procs, Locked(p)
  PROVE  /\ cur[p] \in Bufs /\ lock[cur[p]] = p /\ buf[cur[p]].blockno \in Blocks
         /\ Cl(p) \notin {"idle", "panic", "wait", "brelse"}
<1>1. Cl(p) \notin {"idle", "panic", "wait", "brelse"}
  BY DEF Locked
<1>2. cur[p] # 0
  BY <1>1 DEF BioInv, LocksOK
<1>3. cur[p] \in Bufs /\ buf[cur[p]].blockno \in Blocks
  BY <1>2, UserHasBlock
<1>4. QED
  BY <1>1, <1>3 DEF BioInv, LocksOK

\* A process with a request in progress holds its buffer's lock.
LEMMA RequestHas ==
  ASSUME BioInv, NEW p \in InUse
  PROVE  /\ p \in Procs /\ Cl(p) \in {"in", "out"} /\ Locked(p) /\ head[p] \in Descs
         /\ cur[p] \in Bufs /\ lock[cur[p]] = p /\ buf[cur[p]].blockno \in Blocks
<1>1. p \in Procs /\ head[p] # -1
  BY DEF InUse
<1>2. head[p] \in Descs
  BY <1>1 DEF BioInv, TypeOK
<1>3. Cl(p) \in {"in", "out"}
  BY <1>1 DEF BioInv, RequestsOK
<1>4. Locked(p)
  BY <1>3 DEF Locked
<1>5. QED
  BY <1>1, <1>2, <1>3, <1>4, HolderHas

\* A step that touches no request.
LEMMA SameRequests ==
  ASSUME BioInv, KeepsDisk, UNCHANGED <<req, posted, used, head>>,
         \A q \in Procs : \/ Cl(q)' = Cl(q) /\ cur'[q] = cur[q]
                          \/ Cl(q) \notin {"in", "out"} /\ Cl(q)' \notin {"in", "out"}
  PROVE  RequestsOK'
<1>0. RequestsOK
  BY DEF BioInv
<1>1. InUse' = InUse /\ UsedSet' = UsedSet /\ (UsedOnce' <=> UsedOnce)
  BY DEF InUse, UsedSet, UsedOnce
<1>2. \A q \in Procs : head'[q] # -1 <=> Cl(q)' \in {"in", "out"}
  BY <1>0 DEF RequestsOK
<1>3. ASSUME NEW q \in InUse
      PROVE  Cl(q)' = Cl(q) /\ cur'[q] = cur[q] /\ buf'[cur[q]].disk = buf[cur[q]].disk
  BY RequestHas DEF KeepsDisk
<1>4. \A q \in InUse' : req'[head'[q]].b = cur'[q] /\ (req'[head'[q]].write <=> Cl(q)' = "out")
  BY <1>0, <1>1, <1>3 DEF RequestsOK
<1>5. \A q \in InUse' : buf'[cur'[q]].disk <=> head'[q] \in posted' \cup UsedSet'
  BY <1>0, <1>1, <1>3 DEF RequestsOK
<1>6. posted' \cap UsedSet' = {} /\ \A i \in posted' \cup UsedSet' : \E p \in InUse' : head'[p] = i
  BY <1>0, <1>1 DEF RequestsOK
<1>7. QED
  BY <1>0, <1>1, <1>2, <1>4, <1>5, <1>6 DEF RequestsOK

\* A step that puts nobody to sleep and wakes whom it must.
LEMMA SameSleepers ==
  ASSUME BioInv, KeepsDisk, UNCHANGED <<posted, used, head, irq, intr>>,
         \A q \in Procs : pc'[q] \in Asleep => pc'[q] = pc[q] /\ cur'[q] = cur[q],
         \A q \in Procs : pc'[q] = "lockSleep" => lock'[cur'[q]] # Nobody
  PROVE  SleepersHaveWaker'
<1>1. SleepersHaveWaker /\ InUse' = InUse
  BY DEF BioInv, InUse
<1>2. ASSUME NEW q \in Procs, pc'[q] \in {"diskRead", "diskWrite"}
      PROVE  /\ buf'[cur'[q]].disk
             /\ head'[q] \in posted' \/ \E k \in 1 .. Len(used') : used'[k] = head'[q]
  <2>1. pc[q] = pc'[q] /\ cur'[q] = cur[q]
    BY <1>2 DEF Asleep
  <2>2. Locked(q)
    BY <1>2, <2>1 DEF Locked, Cl, Class
  <2>3. buf'[cur[q]].disk = buf[cur[q]].disk
    BY <2>2, HolderHas DEF KeepsDisk
  <2>4. QED
    BY <1>1, <1>2, <2>1, <2>3 DEF SleepersHaveWaker
<1>3. ASSUME NEW q \in Procs, pc'[q] \in {"descRead", "descWrite"} PROVE InUse' # {}
  <2>1. pc[q] = pc'[q]
    BY <1>3 DEF Asleep
  <2>2. QED
    BY <1>1, <1>3, <2>1 DEF SleepersHaveWaker
<1>4. used' # << >> => irq' \/ intr' = "loop"
  BY <1>1 DEF SleepersHaveWaker
<1>5. QED
  BY <1>2, <1>3, <1>4 DEF SleepersHaveWaker

\* A step that changes where processes are, and no buffer and no request.
LEMMA PcStep ==
  ASSUME BioInv, UNCHANGED <<cacheVars, store, free, next, req, posted, used, cur, head>>,
         pc' \in [Procs -> PCs], irq' \in BOOLEAN, intr' \in {"idle", "loop", "out"},
         \A q \in Procs : \/ Cl(q)' = Cl(q)
                          \/ Cl(q) \in {"held", "dirty"} /\ Cl(q)' = "store"
                          \/ Cl(q) = "idle" /\ Cl(q)' = "panic",
         SleepersHaveWaker'
  PROVE  BioInv'
<1>1. UNCHANGED <<buf, lru, lock, pinned>>
  BY DEF cacheVars
<1>2. TypeOK'
  BY <1>1 DEF BioInv, TypeOK
<1>3. KeepsBlockno /\ KeepsRefcnt /\ KeepsDisk /\ OneBufferPerBlock' /\ RefsCounted' /\ ChainsOK'
  <2>1. KeepsBlockno /\ KeepsRefcnt /\ KeepsDisk
    BY <1>1 DEF KeepsBlockno, KeepsRefcnt, KeepsDisk
  <2>2. QED
    BY <1>1, <2>1, SameBlocks, SameRefs, SameChains DEF BioInv
<1>4. \A q \in Procs : /\ Cl(q)' \in {"in", "out"} <=> Cl(q) \in {"in", "out"}
                       /\ Cl(q)' \in {"load", "in"} <=> Cl(q) \in {"load", "in"}
                       /\ Cl(q)' \in {"idle", "panic"} <=> Cl(q) \in {"idle", "panic"}
                       /\ Cl(q)' \in {"held", "saved"} => Cl(q)' = Cl(q)
                       /\ Cl(q)' \in {"dirty", "written"} => Cl(q)' = Cl(q)
                       /\ Locked(q)' <=> Locked(q)
  BY DEF Locked
<1>5. RequestsOK'
  <2>1. \A q \in Procs : \/ Cl(q)' = Cl(q) /\ cur'[q] = cur[q]
                         \/ Cl(q) \notin {"in", "out"} /\ Cl(q)' \notin {"in", "out"}
    BY <1>4
  <2>2. QED
    BY <1>3, <2>1, SameRequests
<1>6. LocksOK'
  BY <1>1, <1>4 DEF BioInv, LocksOK
<1>7. CleanOK'
  <2>1. InUse' = InUse /\ \A i : Clean(i)' <=> Clean(i)
    BY <1>1 DEF InUse, Clean
  <2>2. \A q : Clean(cur[q])' <=> Clean(cur[q])
    BY <1>1 DEF Clean
  <2>3. QED
    BY <1>1, <1>4, <2>1, <2>2 DEF BioInv, CleanOK
<1>8. QED
  BY <1>2, <1>3, <1>5, <1>6, <1>7 DEF BioInv

\* Where processes are after a step of p.
LEMMA AfterGoto ==
  ASSUME TypeOK, NEW p \in Procs, NEW label \in PCs, Goto(p, label)
  PROVE  /\ pc' \in [Procs -> PCs] /\ pc'[p] = label /\ Cl(p)' = Class(label)
         /\ \A q \in Procs \ {p} : pc'[q] = pc[q] /\ Cl(q)' = Cl(q)
<1>1. pc \in [Procs -> PCs]
  BY DEF TypeOK
<1>2. pc' \in [Procs -> PCs] /\ pc'[p] = label /\ \A q \in Procs \ {p} : pc'[q] = pc[q]
  BY <1>1 DEF Goto
<1>3. QED
  BY <1>2 DEF Cl

\* Where processes are after a step of p that wakes W.
LEMMA AfterWaking ==
  ASSUME TypeOK, NEW p \in Procs, NEW label \in PCs, NEW W,
         \A q \in W : q \in Procs /\ pc[q] \in Asleep, GotoWaking(p, label, W)
  PROVE  /\ pc' \in [Procs -> PCs] /\ pc'[p] = label /\ Cl(p)' = Class(label)
         /\ \A q \in Procs \ {p} : /\ Cl(q)' = Cl(q)
                                   /\ q \in W => pc'[q] \notin Asleep
                                   /\ q \notin W => pc'[q] = pc[q]
<1>1. pc \in [Procs -> PCs]
  BY DEF TypeOK
<1>2. \A q \in Procs : pc'[q] = IF q = p THEN label ELSE IF q \in W THEN Again(pc[q]) ELSE pc[q]
  BY DEF GotoWaking
<1>3. \A q \in W : /\ Again(pc[q]) \in PCs /\ Again(pc[q]) \notin Asleep
                   /\ Class(Again(pc[q])) = Class(pc[q])
  BY Woken
<1>4. \A q \in Procs : (IF q = p THEN label ELSE IF q \in W THEN Again(pc[q]) ELSE pc[q]) \in PCs
  BY <1>1, <1>3
<1>5. pc' \in [Procs -> PCs]
  BY <1>4 DEF GotoWaking
<1>6. \A q \in Procs \ {p} : Cl(q)' = Cl(q)
  BY <1>2, <1>3 DEF Cl
<1>7. QED
  BY <1>2, <1>3, <1>5, <1>6 DEF Cl

-----------------------------------------------------------------------------
(* Steps that only send processes to sleep, wake them or end their run     *)

\* acquiresleep() finds the lock held.
LEMMA AcquireSleepStep ==
  ASSUME BioInv, NEW p \in Procs, AcquireSleep(p)
  PROVE  BioInv'
<1>1. /\ TypeOK /\ SleepersHaveWaker /\ Goto(p, "lockSleep") /\ lock[cur[p]] # Nobody
      /\ pc[p] \in {"lock", "relock"} /\ "lockSleep" \in PCs
      /\ UNCHANGED <<cacheVars, diskVars, cur, head>>
  BY DEF AcquireSleep, BioInv, PCs
<1>2. UNCHANGED <<cacheVars, store, free, next, req, posted, used, cur, head, lock, buf, irq, intr>>
  BY <1>1 DEF diskVars, cacheVars
<1>3. /\ pc' \in [Procs -> PCs] /\ pc'[p] = "lockSleep" /\ Cl(p)' = Class("lockSleep")
      /\ \A q \in Procs \ {p} : pc'[q] = pc[q] /\ Cl(q)' = Cl(q)
  BY <1>1, AfterGoto
<1>4. Cl(p)' = Cl(p)
  BY <1>1, <1>3 DEF Cl, Class
<1>5. SleepersHaveWaker'
  <2>1. InUse' = InUse
    BY <1>2 DEF InUse
  <2>2. /\ pc'[p] = "lockSleep" => lock'[cur'[p]] # Nobody
        /\ pc'[p] \notin {"diskRead", "diskWrite", "descRead", "descWrite"}
    BY <1>1, <1>2, <1>3
  <2>3. ASSUME NEW q \in Procs \ {p}
        PROVE  /\ pc'[q] = "lockSleep" => lock'[cur'[q]] # Nobody
               /\ pc'[q] \in {"diskRead", "diskWrite"} =>
                    buf'[cur'[q]].disk /\ (head'[q] \in posted' \/ \E k \in 1 .. Len(used') : used'[k] = head'[q])
               /\ pc'[q] \in {"descRead", "descWrite"} => InUse' # {}
    <3>1. pc'[q] = pc[q]
      BY <1>3
    <3>2. /\ pc[q] = "lockSleep" => lock[cur[q]] # Nobody
          /\ pc[q] \in {"diskRead", "diskWrite"} =>
               buf[cur[q]].disk /\ (head[q] \in posted \/ \E k \in 1 .. Len(used) : used[k] = head[q])
          /\ pc[q] \in {"descRead", "descWrite"} => InUse # {}
      BY <1>1 DEF SleepersHaveWaker
    <3>3. QED
      BY <1>2, <2>1, <3>1, <3>2
  <2>4. used' # << >> => irq' \/ intr' = "loop"
    BY <1>1, <1>2 DEF SleepersHaveWaker
  <2>5. QED
    BY <2>2, <2>3, <2>4 DEF SleepersHaveWaker
<1>6. irq' \in BOOLEAN /\ intr' \in {"idle", "loop", "out"}
  BY <1>1, <1>2 DEF TypeOK
<1>7. \A q \in Procs : Cl(q)' = Cl(q)
  BY <1>3, <1>4
<1>8. QED
  BY <1>2, <1>3, <1>5, <1>6, <1>7, PcStep

\* kill() wakes a process, and bget() panics.
LEMMA KillPanicStep ==
  ASSUME BioInv, NEW p \in Procs, Kill(p) \/ \E b \in Blocks : BgetPanic(p, b)
  PROVE  BioInv'
<1>1. PICK label \in PCs \ Asleep :
        /\ Goto(p, label) /\ UNCHANGED <<cacheVars, diskVars, cur, head>>
        /\ Class(label) = Cl(p) \/ (Cl(p) = "idle" /\ Class(label) = "panic")
  <2>1. CASE Kill(p)
    <3>1. pc[p] \in Asleep /\ Goto(p, Again(pc[p])) /\ UNCHANGED <<cacheVars, diskVars, cur, head>>
      BY <2>1 DEF Kill
    <3>2. QED
      BY <3>1, Woken DEF Cl
  <2>2. CASE \E b \in Blocks : BgetPanic(p, b)
    <3>1. pc[p] = "idle" /\ Goto(p, "panic") /\ UNCHANGED <<cacheVars, diskVars, cur, head>>
      BY <2>2 DEF BgetPanic
    <3>2. "panic" \in PCs \ Asleep /\ Class("panic") = "panic" /\ Class("idle") = "idle"
      BY DEF PCs, Asleep, Class
    <3>3. QED
      BY <3>1, <3>2 DEF Cl
  <2>3. QED
    BY <2>1, <2>2
<1>2. UNCHANGED <<cacheVars, store, free, next, req, posted, used, cur, head, lock, buf, irq, intr>>
  BY <1>1 DEF diskVars, cacheVars
<1>3. TypeOK /\ SleepersHaveWaker
  BY DEF BioInv
<1>4. /\ pc' \in [Procs -> PCs] /\ pc'[p] = label /\ Cl(p)' = Class(label)
      /\ \A q \in Procs \ {p} : pc'[q] = pc[q] /\ Cl(q)' = Cl(q)
  BY <1>1, <1>3, AfterGoto
<1>5. SleepersHaveWaker'
  <2>1. \A q \in Procs : pc'[q] \in Asleep => pc'[q] = pc[q] /\ cur'[q] = cur[q]
    BY <1>1, <1>2, <1>4
  <2>2. \A q \in Procs : pc'[q] = "lockSleep" => lock'[cur'[q]] # Nobody
    <3>1. "lockSleep" \in Asleep
      BY DEF Asleep
    <3>2. QED
      BY <1>2, <1>3, <2>1, <3>1 DEF SleepersHaveWaker
  <2>3. KeepsDisk
    BY <1>2 DEF KeepsDisk
  <2>4. QED
    BY <1>2, <2>1, <2>2, <2>3, SameSleepers
<1>6. irq' \in BOOLEAN /\ intr' \in {"idle", "loop", "out"}
  BY <1>2, <1>3 DEF TypeOK
<1>7. \A q \in Procs : Cl(q)' = Cl(q) \/ (Cl(q) = "idle" /\ Cl(q)' = "panic")
  BY <1>1, <1>4
<1>8. QED
  BY <1>2, <1>4, <1>5, <1>6, <1>7, PcStep

\* The interrupt handler outside its loop.
LEMMA IntrStep ==
  ASSUME BioInv, IntrAck \/ IntrLoopEnd \/ IntrReturn
  PROVE  BioInv'
<1>1. /\ UNCHANGED <<cacheVars, store, free, next, req, posted, used, pc, cur, head>>
      /\ intr' \in {"idle", "loop", "out"} /\ irq' \in {irq, FALSE}
      /\ used' # << >> /\ (irq \/ intr = "loop") => irq' \/ intr' = "loop"
  <2>1. CASE IntrAck
    BY <2>1 DEF IntrAck, procVars
  <2>2. CASE IntrLoopEnd
    BY <2>2 DEF IntrLoopEnd, procVars
  <2>3. CASE IntrReturn
    BY <2>3 DEF IntrReturn, procVars
  <2>4. QED
    BY <2>1, <2>2, <2>3
<1>2. TypeOK /\ SleepersHaveWaker
  BY DEF BioInv
<1>3. irq' \in BOOLEAN /\ pc' \in [Procs -> PCs]
  BY <1>1, <1>2 DEF TypeOK
<1>4. \A q \in Procs : Cl(q)' = Cl(q)
  BY <1>1 DEF Cl
<1>5. SleepersHaveWaker'
  <2>1. InUse' = InUse /\ UNCHANGED <<buf, lock>>
    BY <1>1 DEF InUse, cacheVars
  <2>2. QED
    BY <1>1, <1>2, <2>1 DEF SleepersHaveWaker
<1>6. QED
  BY <1>1, <1>3, <1>4, <1>5, PcStep

\* alloc3_desc() fails.
LEMMA RwSleepStep ==
  ASSUME BioInv, NEW p \in Procs, RwSleep(p)
  PROVE  BioInv'
<1> DEFINE W == {q \in Procs : pc[q] \in {"descRead", "descWrite"}}
<1>1. PICK label \in {"descRead", "descWrite"} :
        /\ Goto(p, label) \/ GotoWaking(p, label, W)
        /\ Class(label) = Cl(p) \/ (Cl(p) \in {"held", "dirty"} /\ Class(label) = "store")
  <2>1. CASE Reads(p)
    <3>1. Goto(p, "descRead") \/ GotoWaking(p, "descRead", W)
      BY <2>1 DEF RwSleep, WakeDesc
    <3>2. Class("descRead") = Cl(p)
      BY <2>1 DEF Reads, Cl, Class
    <3>3. QED
      BY <3>1, <3>2
  <2>2. CASE ~Reads(p)
    <3>1. (Goto(p, "descWrite") \/ GotoWaking(p, "descWrite", W)) /\ Writes(p)
      BY <2>2 DEF RwSleep, WakeDesc
    <3>2. Class("descWrite") = Cl(p) \/ (Cl(p) \in {"held", "dirty"} /\ Class("descWrite") = "store")
      BY <3>1 DEF Writes, Cl, Class
    <3>3. QED
      BY <3>1, <3>2
  <2>3. QED
    BY <2>1, <2>2
<1>2. UNCHANGED <<cacheVars, store, free, next, req, posted, used, cur, head, lock, buf, irq, intr>>
  BY DEF RwSleep, diskVars, cacheVars
<1>3. TypeOK /\ SleepersHaveWaker /\ Cardinality(free) < 3
  BY DEF BioInv, RwSleep
<1>4. label \in PCs /\ \A q \in W : q \in Procs /\ pc[q] \in Asleep
  BY DEF PCs, Asleep
<1>5. /\ pc' \in [Procs -> PCs] /\ pc'[p] = label /\ Cl(p)' = Class(label)
      /\ \A q \in Procs \ {p} : /\ Cl(q)' = Cl(q)
                                /\ pc'[q] = pc[q] \/ pc'[q] \notin Asleep
  <2>1. CASE Goto(p, label)
    BY <1>3, <1>4, <2>1, AfterGoto
  <2>2. CASE GotoWaking(p, label, W)
    <3> HIDE DEF W
    <3>1. QED
      BY <1>3, <1>4, <2>2, AfterWaking
  <2>3. QED
    BY <1>1, <2>1, <2>2
<1>6. InUse # {}
  <2>1. Descs \ free # {}
    <3>1. NUM \in Nat /\ NUM >= 3
      BY BioAssumption
    <3>2. Cardinality(Descs) = NUM
      <4>1. Cardinality(0 .. NUM - 1) = IF 0 > NUM - 1 THEN 0 ELSE (NUM - 1) - 0 + 1
        BY SMT, <3>1, FS_Interval
      <4>2. QED
        BY SMT, <3>1, <4>1 DEF Descs
    <3>3. free \subseteq Descs
      BY <1>3 DEF TypeOK
    <3>4. free # Descs
      BY SMT, <1>3, <3>1, <3>2
    <3>5. QED
      BY <3>3, <3>4
  <2>2. QED
    BY <2>1 DEF BioInv, ChainsOK
<1>7. SleepersHaveWaker'
  <2>1. InUse' = InUse
    BY <1>2 DEF InUse
  <2>2. \A q \in Procs : pc'[q] \in {"lockSleep", "diskRead", "diskWrite"} => pc'[q] = pc[q]
    BY <1>5 DEF Asleep
  <2>3. QED
    BY <1>2, <1>3, <1>6, <2>1, <2>2 DEF SleepersHaveWaker
<1>8. irq' \in BOOLEAN /\ intr' \in {"idle", "loop", "out"}
  BY <1>2, <1>3 DEF TypeOK
<1>9. \A q \in Procs : Cl(q)' = Cl(q) \/ (Cl(q) \in {"held", "dirty"} /\ Cl(q)' = "store")
  BY <1>1, <1>5
<1>10. QED
  BY <1>2, <1>5, <1>7, <1>8, <1>9, PcStep

\* Woken, but the request is not done.
LEMMA RwSleepAgainStep ==
  ASSUME BioInv, NEW p \in Procs, RwSleepAgain(p)
  PROVE  BioInv'
<1>1. PICK label \in {"diskRead", "diskWrite"} : Goto(p, label) /\ Class(label) = Cl(p)
  BY DEF RwSleepAgain, Cl, Class
<1>2. UNCHANGED <<cacheVars, store, free, next, req, posted, used, cur, head, lock, buf, irq, intr>>
  BY DEF RwSleepAgain, diskVars, cacheVars
<1>3. TypeOK /\ SleepersHaveWaker /\ label \in PCs /\ buf[cur[p]].disk
  BY DEF BioInv, RwSleepAgain, PCs
<1>4. /\ pc' \in [Procs -> PCs] /\ pc'[p] = label /\ Cl(p)' = Class(label)
      /\ \A q \in Procs \ {p} : pc'[q] = pc[q] /\ Cl(q)' = Cl(q)
  BY <1>1, <1>3, AfterGoto
<1>5. SleepersHaveWaker'
  <2>1. InUse' = InUse
    BY <1>2 DEF InUse
  <2>2. Cl(p) \in {"in", "out"}
    BY <1>1 DEF Class
  <2>3. head[p] \in posted \/ \E k \in 1 .. Len(used) : used[k] = head[p]
    <3>1. p \in InUse
      BY <2>2 DEF BioInv, RequestsOK, InUse
    <3>2. QED
      BY <1>3, <3>1 DEF BioInv, RequestsOK, UsedSet
  <2>4. pc'[p] \notin {"lockSleep", "descRead", "descWrite"}
    BY <1>1, <1>4
  <2>5. QED
    BY <1>2, <1>3, <1>4, <2>1, <2>3, <2>4 DEF SleepersHaveWaker
<1>6. irq' \in BOOLEAN /\ intr' \in {"idle", "loop", "out"}
  BY <1>2, <1>3 DEF TypeOK
<1>7. \A q \in Procs : Cl(q)' = Cl(q)
  BY <1>1, <1>4
<1>8. QED
  BY <1>2, <1>4, <1>5, <1>6, <1>7, PcStep

-----------------------------------------------------------------------------
(* Changes of one field, and of the references                             *)

\* A step that sets refcnt leaves the other fields alone.
LEMMA SetRefcnt ==
  ASSUME TypeOK, NEW i \in Bufs, NEW n \in Nat, buf' = [buf EXCEPT ![i].refcnt = n]
  PROVE  /\ buf' \in [Bufs -> Buffer] /\ KeepsBlockno /\ KeepsValid /\ KeepsDisk /\ KeepsData
         /\ buf'[i].refcnt = n /\ \A j \in Bufs \ {i} : buf'[j].refcnt = buf[j].refcnt
<1>1. buf \in [Bufs -> Buffer]
  BY DEF TypeOK
<1>2. buf' \in [Bufs -> Buffer]
  BY <1>1 DEF Buffer
<1>3. \A j \in Bufs \ {i} : buf'[j] = buf[j]
  BY <1>1
<1>4. /\ buf'[i].blockno = buf[i].blockno /\ buf'[i].valid = buf[i].valid
      /\ buf'[i].disk = buf[i].disk /\ buf'[i].data = buf[i].data /\ buf'[i].refcnt = n
  BY <1>1 DEF Buffer
<1>5. QED
  BY <1>2, <1>3, <1>4 DEF KeepsBlockno, KeepsValid, KeepsDisk, KeepsData

\* bget() counts the reference it takes.
LEMMA RefsTake ==
  ASSUME TypeOK, RefsCounted, NEW p \in Procs, NEW i \in Bufs, cur[p] = 0,
         cur' = [cur EXCEPT ![p] = i], UNCHANGED pinned,
         buf'[i].refcnt = buf[i].refcnt + 1,
         \A j \in Bufs \ {i} : buf'[j].refcnt = buf[j].refcnt
  PROVE  RefsCounted'
<1>1. cur \in [Procs -> Bufs \cup {0}] /\ 0 \notin Bufs
  BY SMT DEF TypeOK, Bufs
<1>2. \A j \in Bufs \ {i} : Users(j)' = Users(j)
  BY <1>1 DEF Users
<1>3. Users(i)' = Users(i) \cup {p} /\ p \notin Users(i)
  BY <1>1 DEF Users
<1>4. Cardinality(Users(i)') = Cardinality(Users(i)) + 1
  BY <1>3, UsersFinite, FS_AddElement
<1>5. buf'[i].refcnt = Cardinality(Users(i)') + IF i \in pinned' THEN 1 ELSE 0
  BY SMT, <1>4, UsersFinite DEF RefsCounted
<1>6. QED
  BY <1>2, <1>5 DEF RefsCounted

\* brelse() gives the reference back.
LEMMA RefsGive ==
  ASSUME TypeOK, RefsCounted, NEW p \in Procs, NEW i \in Bufs, cur[p] = i,
         cur' = [cur EXCEPT ![p] = 0], UNCHANGED pinned,
         buf'[i].refcnt = buf[i].refcnt - 1,
         \A j \in Bufs \ {i} : buf'[j].refcnt = buf[j].refcnt
  PROVE  RefsCounted'
<1>1. cur \in [Procs -> Bufs \cup {0}] /\ 0 \notin Bufs
  BY SMT DEF TypeOK, Bufs
<1>2. \A j \in Bufs \ {i} : Users(j)' = Users(j)
  BY <1>1 DEF Users
<1>3. Users(i)' = Users(i) \ {p} /\ p \in Users(i)
  BY <1>1 DEF Users
<1>4. Cardinality(Users(i)') = Cardinality(Users(i)) - 1
  BY <1>3, UsersFinite, FS_RemoveElement
<1>5. buf'[i].refcnt = Cardinality(Users(i)') + IF i \in pinned' THEN 1 ELSE 0
  BY SMT, <1>4, UsersFinite DEF RefsCounted
<1>6. QED
  BY <1>2, <1>5 DEF RefsCounted

\* bpin() and bunpin() count the log's reference.
LEMMA RefsPin ==
  ASSUME RefsCounted, NEW i \in Bufs, UNCHANGED cur,
         \A j \in Bufs \ {i} : buf'[j].refcnt = buf[j].refcnt /\ (j \in pinned' <=> j \in pinned),
         \/ buf'[i].refcnt = buf[i].refcnt + 1 /\ i \notin pinned /\ i \in pinned'
         \/ buf'[i].refcnt = buf[i].refcnt - 1 /\ i \in pinned /\ i \notin pinned'
  PROVE  RefsCounted'
<1>1. \A j : Users(j)' = Users(j)
  BY DEF Users
<1>2. buf'[i].refcnt = Cardinality(Users(i)) + IF i \in pinned' THEN 1 ELSE 0
  BY SMT, UsersFinite DEF RefsCounted
<1>3. QED
  BY <1>1, <1>2 DEF RefsCounted

-----------------------------------------------------------------------------
(* Steps of bio.c and sleeplock.c: what each must show                     *)

\* Other processes keep their buffers, which stay as they are, and their locks.
Same(j) == /\ buf'[j].blockno = buf[j].blockno /\ buf'[j].valid = buf[j].valid
           /\ buf'[j].data = buf[j].data /\ (j \in pinned' <=> j \in pinned)
OthersKeep(p) ==
  \A q \in Procs \ {p} : /\ Cl(q)' = Cl(q) /\ cur'[q] = cur[q]
                         /\ pc'[q] = pc[q] \/ pc'[q] \notin Asleep
                         /\ pc'[q] = "lockSleep" => lock'[cur[q]] # Nobody
                         /\ Locked(q) => Same(cur[q])
                         /\ \A j \in Bufs : lock'[j] = q <=> lock[j] = q

\* Where p is agrees with its buffer and its lock.
OwnAgrees(p) ==
  /\ Cl(p) \notin {"in", "out"} /\ Cl(p)' \notin {"in", "out", "written"} /\ pc'[p] \notin Asleep
  /\ cur'[p] = 0 <=> Cl(p)' \in {"idle", "panic"}
  /\ \A j \in Bufs : lock'[j] = p <=> cur'[p] = j /\ Locked(p)'
  /\ Locked(p)' => (buf'[cur'[p]].valid <=> Cl(p)' # "load")
  /\ Cl(p)' = "dirty" => cur'[p] \notin pinned'
  /\ Cl(p)' \in {"held", "saved"} /\ cur'[p] \notin pinned' =>
       buf'[cur'[p]].data = store[buf'[cur'[p]].blockno]

\* The buffers that count as unused may be recycled.
BufsAgree ==
  /\ KeepsDisk
  /\ \A j \in Bufs : buf'[j].valid => buf'[j].data \in Data
  /\ \A j \in Bufs : buf'[j].refcnt # 0 \/ buf'[j].valid => buf'[j].blockno # NoBlock
  /\ \A j \in pinned' : buf'[j].valid
  /\ \A j \in Bufs : buf'[j].valid /\ j \notin pinned' /\ lock'[j] = Nobody =>
                       buf'[j].data = store[buf'[j].blockno]

\* A step that shows these three things preserves the invariant.
LEMMA CacheStep ==
  ASSUME BioInv, NEW p \in Procs, UNCHANGED <<diskVars, head>>, TypeOK', OneBufferPerBlock',
         RefsCounted', OthersKeep(p), OwnAgrees(p), BufsAgree
  PROVE  BioInv'
<1>1. UNCHANGED <<store, free, next, req, posted, used, irq, intr, head>>
  BY DEF diskVars
<1>2. ChainsOK'
  BY <1>1, SameChains DEF BioInv
<1>3. RequestsOK'
  <2>1. \A q \in Procs : \/ Cl(q)' = Cl(q) /\ cur'[q] = cur[q]
                         \/ Cl(q) \notin {"in", "out"} /\ Cl(q)' \notin {"in", "out"}
    BY DEF OthersKeep, OwnAgrees
  <2>2. KeepsDisk
    BY DEF BufsAgree
  <2>3. QED
    BY <1>1, <2>1, <2>2, SameRequests
<1>4. SleepersHaveWaker'
  <2>1. KeepsDisk /\ "lockSleep" \in Asleep
    BY DEF BufsAgree, Asleep
  <2>2. \A q \in Procs : pc'[q] \in Asleep => pc'[q] = pc[q] /\ cur'[q] = cur[q]
    BY DEF OthersKeep, OwnAgrees
  <2>3. \A q \in Procs : pc'[q] = "lockSleep" => lock'[cur'[q]] # Nobody
    BY <2>1 DEF OthersKeep, OwnAgrees
  <2>4. QED
    BY <1>1, <2>1, <2>2, <2>3, SameSleepers
<1>5. \A q \in Procs \ {p} : (Locked(q)' <=> Locked(q)) /\ Cl(q)' = Cl(q) /\ cur'[q] = cur[q]
  BY DEF OthersKeep, Locked
<1>6. LocksOK /\ CleanOK /\ RequestsOK
  BY DEF BioInv
<1>7. LocksOK'
  <2>1. \A q \in Procs : cur'[q] = 0 <=> Cl(q)' \in {"idle", "panic"}
    BY SMT, <1>5, <1>6 DEF LocksOK, OwnAgrees
  <2>2. ASSUME NEW q \in Procs, NEW i \in Bufs
        PROVE  lock'[i] = q <=> cur'[q] = i /\ Locked(q)'
    <3>1. CASE q = p
      BY <3>1 DEF OwnAgrees
    <3>2. CASE q # p
      BY SMT, <1>5, <1>6, <3>2 DEF LocksOK, OthersKeep
    <3>3. QED
      BY <3>1, <3>2
  <2>3. ASSUME NEW q \in Procs, Locked(q)'
        PROVE  buf'[cur'[q]].valid <=> Cl(q)' \notin {"load", "in"}
    <3>1. CASE q = p
      BY <2>3, <3>1 DEF OwnAgrees
    <3>2. CASE q # p
      BY SMT, <1>5, <1>6, <2>3, <3>2 DEF LocksOK, OthersKeep, Same
    <3>3. QED
      BY <3>1, <3>2
  <2>4. ASSUME NEW q \in Procs, Cl(q)' = "dirty" PROVE cur'[q] \notin pinned'
    <3>1. CASE q = p
      BY <2>4, <3>1 DEF OwnAgrees
    <3>2. CASE q # p
      <4>1. Locked(q)
        BY <1>5, <2>4, <3>2 DEF Locked
      <4>2. QED
        BY SMT, <1>5, <1>6, <2>4, <3>2, <4>1 DEF LocksOK, OthersKeep, Same
    <3>3. QED
      BY <3>1, <3>2
  <2>5. QED
    BY <2>1, <2>2, <2>3, <2>4 DEF LocksOK, BufsAgree
<1>8. CleanOK'
  <2>1. InUse' = InUse /\ p \notin InUse
    BY SMT, <1>1, <1>6 DEF InUse, RequestsOK, OwnAgrees
  <2>2. ASSUME NEW q \in Procs \ {p}, Locked(q)
        PROVE  (Clean(cur[q])' <=> Clean(cur[q])) /\ (cur'[q] \in pinned' <=> cur[q] \in pinned)
    BY SMT, <1>1, <1>5, <2>2 DEF OthersKeep, Same, Clean
  <2>3. \A q \in Procs : Cl(q)' \in {"held", "saved"} /\ cur'[q] \notin pinned' => Clean(cur[q])'
    <3>1. Cl(p)' \in {"held", "saved"} /\ cur'[p] \notin pinned' => Clean(cur[p])'
      BY <1>1 DEF OwnAgrees, Clean
    <3>2. \A q \in Procs : Cl(q) \in {"held", "saved"} => Locked(q)
      BY DEF Locked
    <3>3. QED
      BY <1>5, <1>6, <2>2, <3>1, <3>2 DEF CleanOK
  <2>4. \A q \in Procs : Cl(q)' = "written" => Clean(cur[q])'
    <3>1. \A q \in Procs : Cl(q) = "written" => Locked(q)
      BY DEF Locked
    <3>2. QED
      BY <1>5, <1>6, <2>2, <3>1 DEF CleanOK, OwnAgrees
  <2>5. \A q \in InUse' : head'[q] \notin posted' => Clean(cur[q])'
    BY <1>1, <1>6, <2>1, <2>2, RequestHas DEF CleanOK
  <2>6. \A i \in Bufs : buf'[i].valid /\ i \notin pinned' /\ lock'[i] = Nobody => Clean(i)'
    BY <1>1 DEF BufsAgree, Clean
  <2>7. QED
    BY <2>3, <2>4, <2>5, <2>6 DEF CleanOK, BufsAgree
<1>9. QED
  BY <1>2, <1>3, <1>4, <1>7, <1>8 DEF BioInv

-----------------------------------------------------------------------------
(* bget(): a reference and, on a miss, another block                       *)

\* bget() takes a reference to a buffer, cached or recycled.
LEMMA BgetStep ==
  ASSUME BioInv, NEW p \in Procs, NEW b \in Blocks, BgetHit(p, b) \/ BgetMiss(p, b)
  PROVE  BioInv'
<1>1. /\ TypeOK /\ OneBufferPerBlock /\ RefsCounted /\ LocksOK /\ CleanOK /\ SleepersHaveWaker
      /\ pc[p] = "idle" /\ Goto(p, "lock") /\ UNCHANGED <<lru, lock, pinned, diskVars, head>>
  BY DEF BioInv, BgetHit, BgetMiss
<1>2. "lock" \in PCs \ Asleep /\ Class("idle") = "idle" /\ Class("lock") = "wait"
  BY DEF PCs, Asleep, Class
<1>3. /\ pc' \in [Procs -> PCs] /\ pc'[p] = "lock" /\ Cl(p)' = "wait" /\ Cl(p) = "idle"
      /\ \A q \in Procs \ {p} : pc'[q] = pc[q] /\ Cl(q)' = Cl(q)
  <2>1. "lock" \in PCs /\ Cl(p) = "idle"
    BY <1>1, <1>2 DEF Cl
  <2>2. QED
    BY <1>1, <1>2, <2>1, AfterGoto
<1>4. cur[p] = 0
  BY <1>1, <1>3 DEF LocksOK
<1>5. PICK i \in Bufs :
        /\ cur' = [cur EXCEPT ![p] = i] /\ buf' \in [Bufs -> Buffer] /\ KeepsDisk
        /\ buf'[i].refcnt = buf[i].refcnt + 1 /\ buf'[i].blockno = b
        /\ \A j \in Bufs \ {i} : buf'[j] = buf[j]
        /\ \/ Same(i)
           \/ ~buf'[i].valid /\ buf[i].refcnt = 0 /\ Cached(b) = {}
  <2>1. buf \in [Bufs -> Buffer]
    BY <1>1 DEF TypeOK
  <2>2. CASE BgetHit(p, b)
    <3>1. PICK i \in Cached(b) : /\ buf' = [buf EXCEPT ![i].refcnt = buf[i].refcnt + 1]
                                 /\ cur' = [cur EXCEPT ![p] = i]
      BY <2>2 DEF BgetHit
    <3>2. i \in Bufs /\ buf[i].blockno = b
      BY DEF Cached
    <3>3. buf[i].refcnt + 1 \in Nat
      BY SMT, <2>1, <3>2 DEF Buffer
    <3> DEFINE n == buf[i].refcnt + 1
    <3> HIDE DEF n
    <3>4. /\ buf' \in [Bufs -> Buffer] /\ KeepsBlockno /\ KeepsValid /\ KeepsDisk /\ KeepsData
          /\ buf'[i].refcnt = n /\ \A j \in Bufs \ {i} : buf'[j].refcnt = buf[j].refcnt
      BY <1>1, <3>1, <3>2, <3>3, SetRefcnt DEF n
    <3>5. \A j \in Bufs \ {i} : buf'[j] = buf[j]
      BY <2>1, <3>1, <3>2
    <3>6. Same(i)
      BY <1>1, <3>2, <3>4 DEF Same, KeepsBlockno, KeepsValid, KeepsData
    <3>7. buf'[i].blockno = b
      BY <3>2, <3>4 DEF KeepsBlockno
    <3>8. QED
      BY <3>1, <3>2, <3>4, <3>5, <3>6, <3>7 DEF n
  <2>3. CASE BgetMiss(p, b)
    <3> DEFINE i == Lru
    <3>1. /\ Cached(b) = {} /\ cur' = [cur EXCEPT ![p] = i] /\ Unused # {}
          /\ buf' = [buf EXCEPT ![i] = [buf[i] EXCEPT !.blockno = b, !.valid = FALSE, !.refcnt = 1]]
      BY <2>3 DEF BgetMiss
    <3>2. i \in Bufs /\ buf[i].refcnt = 0
      BY <1>1, <3>1, LruUnused
    <3> HIDE DEF i
    <3>3. \A j \in Bufs \ {i} : buf'[j] = buf[j]
      BY <2>1, <3>1, <3>2
    <3>4. buf'[i] = [buf[i] EXCEPT !.blockno = b, !.valid = FALSE, !.refcnt = 1] /\ buf[i] \in Buffer
      BY <2>1, <3>1, <3>2
    <3>5. /\ buf'[i] \in Buffer /\ buf'[i].refcnt = 1 /\ buf'[i].blockno = b
          /\ buf'[i].valid = FALSE /\ buf'[i].disk = buf[i].disk
      <4>1. buf'[i] = [blockno |-> b, valid |-> FALSE, disk |-> buf[i].disk,
                       refcnt |-> 1, data |-> buf[i].data]
        BY <3>4 DEF Buffer
      <4>2. b \in Blocks \cup {NoBlock} /\ buf[i].disk \in BOOLEAN /\ buf[i].data \in Data \cup {NoBlock}
        BY <3>4 DEF Buffer
      <4>3. QED
        BY SMT, <4>1, <4>2 DEF Buffer
    <3>6. buf' \in [Bufs -> Buffer]
      BY <2>1, <3>1, <3>2, <3>4, <3>5
    <3>7. KeepsDisk
      BY <3>3, <3>5 DEF KeepsDisk
    <3>8. buf'[i].refcnt = buf[i].refcnt + 1
      BY SMT, <3>2, <3>5
    <3>9. QED
      BY <3>1, <3>2, <3>3, <3>5, <3>6, <3>7, <3>8
  <2>4. QED
    BY <2>2, <2>3
<1>6. cur' \in [Procs -> Bufs \cup {0}] /\ cur'[p] = i /\ \A q \in Procs \ {p} : cur'[q] = cur[q]
  <2>1. cur \in [Procs -> Bufs \cup {0}]
    BY <1>1 DEF TypeOK
  <2>2. QED
    BY <1>5, <2>1
<1>7. \A j \in Bufs \ {i} : Same(j)
  BY <1>1, <1>5 DEF Same
<1>8. Same(i) \/ (~buf'[i].valid /\ i \notin pinned /\ \A q \in Procs : cur[q] # i)
  BY <1>5, UnusedIsFree
<1>9. TypeOK'
  BY <1>1, <1>3, <1>5, <1>6 DEF TypeOK, diskVars
<1>10. OneBufferPerBlock'
  <2>1. CASE Same(i)
    <3>1. KeepsBlockno
      BY <1>7, <2>1 DEF Same, KeepsBlockno
    <3>2. QED
      BY <1>1, <3>1, SameBlocks
  <2>2. CASE Cached(b) = {}
    <3>1. \A j \in Bufs \ {i} : buf'[j].blockno # b /\ buf'[j].blockno = buf[j].blockno
      BY <1>5, <2>2 DEF Cached
    <3>2. QED
      BY SMT, <1>1, <1>5, <3>1 DEF OneBufferPerBlock
  <2>3. QED
    BY <1>5, <2>1, <2>2
<1>11. RefsCounted'
  BY <1>1, <1>4, <1>5, RefsTake
<1>12. OthersKeep(p)
  <2>1. \A q \in Procs \ {p} : Locked(q) => Same(cur[q])
    BY <1>7, <1>8, HolderHas
  <2>2. "lockSleep" \in Asleep
    BY DEF Asleep
  <2>3. QED
    BY <1>1, <1>3, <1>6, <2>1, <2>2 DEF OthersKeep, SleepersHaveWaker
<1>13. OwnAgrees(p)
  <2>1. ~Locked(p)' /\ ~Locked(p) /\ i # 0
    BY SMT, <1>3 DEF Locked, Bufs
  <2>2. QED
    BY <1>1, <1>2, <1>3, <1>6, <2>1 DEF OwnAgrees, LocksOK
<1>14. BufsAgree
  <2>1. b # NoBlock
    BY BioAssumption
  <2>2. \A j \in Bufs : buf'[j].refcnt # 0 \/ buf'[j].valid => buf'[j].blockno # NoBlock
    BY SMT, <1>1, <1>5, <2>1 DEF LocksOK
  <2>3. \A j \in pinned' : buf'[j].valid
    <3>1. pinned' = pinned /\ pinned \subseteq Bufs
      BY <1>1 DEF TypeOK
    <3>2. \A j \in pinned : Same(j)
      BY <1>7, <1>8, <3>1
    <3>3. QED
      BY <1>1, <3>1, <3>2 DEF LocksOK, Same
  <2>4. \A j \in Bufs : buf'[j].valid /\ j \notin pinned' /\ lock'[j] = Nobody =>
                          buf'[j].data = store[buf'[j].blockno]
    BY <1>1, <1>7, <1>8 DEF CleanOK, Clean, Same
  <2>5. \A j \in Bufs : buf'[j].valid => buf'[j].data \in Data
    BY <1>1, <1>5, <1>7, <1>8 DEF CleanOK, Same
  <2>6. QED
    BY <1>5, <2>2, <2>3, <2>4, <2>5 DEF BufsAgree
<1>15. QED
  BY <1>1, <1>9, <1>10, <1>11, <1>12, <1>13, <1>14, CacheStep

-----------------------------------------------------------------------------
(* The sleep lock                                                          *)

\* acquiresleep() finds the lock free.
LEMMA AcquireStep ==
  ASSUME BioInv, NEW p \in Procs, Acquire(p)
  PROVE  BioInv'
<1> DEFINE i == cur[p]
<1>1. /\ TypeOK /\ OneBufferPerBlock /\ RefsCounted /\ LocksOK /\ CleanOK /\ SleepersHaveWaker
      /\ pc[p] \in {"lock", "relock"} /\ lock[i] = Nobody /\ lock' = [lock EXCEPT ![i] = p]
      /\ UNCHANGED <<buf, lru, pinned, diskVars, cur, head>>
  BY DEF BioInv, Acquire
<1>2. PICK label \in {"held", "read"} : Goto(p, label) /\ (label = "held" <=> buf[i].valid)
  BY DEF Acquire
<1>3. /\ label \in PCs \ Asleep /\ Class("held") = "held" /\ Class("read") = "load"
      /\ Cl(p) = "wait"
  BY <1>1 DEF PCs, Asleep, Class, Cl
<1>4. /\ pc' \in [Procs -> PCs] /\ pc'[p] = label /\ Cl(p)' = Class(label)
      /\ \A q \in Procs \ {p} : pc'[q] = pc[q] /\ Cl(q)' = Cl(q)
  <2>1. label \in PCs
    BY <1>3
  <2>2. QED
    BY <1>1, <1>2, <2>1, AfterGoto
<1>5. i \in Bufs /\ i # 0
  <2>1. i # 0
    BY <1>1, <1>3 DEF LocksOK
  <2>2. QED
    BY <2>1, UserHasBlock
<1>6. lock' \in [Bufs -> Procs \cup {Nobody}] /\ lock'[i] = p /\ \A j \in Bufs \ {i} : lock'[j] = lock[j]
  <2>1. lock \in [Bufs -> Procs \cup {Nobody}]
    BY <1>1 DEF TypeOK
  <2>2. QED
    BY <1>1, <1>5, <2>1
<1>7. KeepsBlockno /\ KeepsRefcnt /\ KeepsDisk /\ \A j : Same(j)
  BY <1>1 DEF KeepsBlockno, KeepsRefcnt, KeepsDisk, Same
<1>8. TypeOK' /\ OneBufferPerBlock' /\ RefsCounted'
  <2>1. TypeOK'
    BY <1>1, <1>4, <1>6 DEF TypeOK, diskVars
  <2>2. QED
    BY <1>1, <1>7, <2>1, SameBlocks, SameRefs
<1>9. Nobody \notin Procs
  BY BioAssumption
<1>10. OthersKeep(p)
  <2>1. ASSUME NEW q \in Procs \ {p} PROVE \A j \in Bufs : lock'[j] = q <=> lock[j] = q
    BY <1>1, <1>6, <1>9, <2>1
  <2>2. ASSUME NEW q \in Procs \ {p}, pc'[q] = "lockSleep" PROVE lock'[cur[q]] # Nobody
    <3>1. pc[q] = "lockSleep" /\ lock[cur[q]] # Nobody
      BY <1>1, <1>4, <2>2 DEF SleepersHaveWaker
    <3>2. cur[q] # 0
      BY <1>1, <3>1 DEF LocksOK, Cl, Class
    <3>3. cur[q] \in Bufs
      BY <3>2, UserHasBlock
    <3>4. QED
      BY <1>1, <1>6, <3>1, <3>3
  <2>3. QED
    BY <1>1, <1>4, <1>7, <2>1, <2>2 DEF OthersKeep
<1>11. OwnAgrees(p)
  <2>1. /\ Cl(p) \notin {"in", "out"} /\ Cl(p)' \in {"held", "load"} /\ pc'[p] \notin Asleep /\ Locked(p)'
        /\ Cl(p)' = "held" <=> buf[i].valid
    BY <1>2, <1>3, <1>4 DEF Locked
  <2>2. \A j \in Bufs : lock'[j] = p <=> cur'[p] = j /\ Locked(p)'
    <3>1. \A j \in Bufs : lock[j] # p
      BY <1>1, <1>3 DEF LocksOK, Locked
    <3>2. QED
      BY <1>1, <1>6, <2>1, <3>1
  <2>3. Cl(p)' = "held" /\ i \notin pinned => buf[i].data = store[buf[i].blockno]
    BY <1>1, <1>5, <2>1 DEF CleanOK, Clean
  <2>4. QED
    BY <1>1, <1>5, <2>1, <2>2, <2>3 DEF OwnAgrees
<1>12. BufsAgree
  <2>1. \A j \in Bufs : lock'[j] = Nobody => lock[j] = Nobody
    BY <1>1, <1>6
  <2>2. \A j \in Bufs : buf'[j].valid /\ j \notin pinned' /\ lock'[j] = Nobody =>
                          buf'[j].data = store[buf'[j].blockno]
    BY <1>1, <2>1 DEF CleanOK, Clean
  <2>3. QED
    BY <1>1, <1>7, <2>2 DEF BufsAgree, LocksOK, CleanOK
<1>13. QED
  BY <1>1, <1>8, <1>10, <1>11, <1>12, CacheStep

\* releasesleep(): the buffer is clean, or the log has pinned it.
LEMMA ReleaseStep ==
  ASSUME BioInv, NEW p \in Procs, Release(p)
  PROVE  BioInv'
<1> DEFINE i == cur[p]
           W == {q \in Procs : pc[q] = "lockSleep" /\ cur[q] = i}
<1>1. /\ TypeOK /\ OneBufferPerBlock /\ RefsCounted /\ LocksOK /\ CleanOK /\ SleepersHaveWaker
      /\ pc[p] \in {"held", "saved"} /\ lock' = [lock EXCEPT ![i] = Nobody]
      /\ GotoWaking(p, "brelse", W) /\ UNCHANGED <<buf, lru, pinned, diskVars, cur, head>>
  BY DEF BioInv, Release
<1>2. /\ "brelse" \in PCs /\ "brelse" \notin Asleep /\ Class("brelse") = "brelse"
      /\ Cl(p) \in {"held", "saved"} /\ Locked(p)
      /\ \A q \in W : q \in Procs /\ pc[q] \in Asleep
  BY <1>1 DEF PCs, Asleep, Class, Cl, Locked
<1>3. /\ pc' \in [Procs -> PCs] /\ pc'[p] = "brelse" /\ Cl(p)' = "brelse"
      /\ \A q \in Procs \ {p} : /\ Cl(q)' = Cl(q)
                                /\ q \in W => pc'[q] \notin Asleep
                                /\ q \notin W => pc'[q] = pc[q]
  <2> HIDE DEF W
  <2>1. QED
    BY <1>1, <1>2, AfterWaking
<1>4. i \in Bufs /\ i # 0 /\ lock[i] = p
  <2>1. i \in Bufs /\ lock[i] = p
    BY <1>2, HolderHas
  <2>2. QED
    BY SMT, <2>1 DEF Bufs
<1>5. lock' \in [Bufs -> Procs \cup {Nobody}] /\ lock'[i] = Nobody /\ \A j \in Bufs \ {i} : lock'[j] = lock[j]
  <2>1. lock \in [Bufs -> Procs \cup {Nobody}]
    BY <1>1 DEF TypeOK
  <2>2. QED
    BY <1>1, <1>4, <2>1
<1>6. KeepsBlockno /\ KeepsRefcnt /\ KeepsDisk /\ \A j : Same(j)
  BY <1>1 DEF KeepsBlockno, KeepsRefcnt, KeepsDisk, Same
<1>7. TypeOK' /\ OneBufferPerBlock' /\ RefsCounted'
  <2>1. TypeOK'
    BY <1>1, <1>3, <1>5 DEF TypeOK, diskVars
  <2>2. QED
    BY <1>1, <1>6, <2>1, SameBlocks, SameRefs
<1>8. Nobody \notin Procs
  BY BioAssumption
<1>9. OthersKeep(p)
  <2>1. ASSUME NEW q \in Procs \ {p} PROVE \A j \in Bufs : lock'[j] = q <=> lock[j] = q
    BY <1>4, <1>5, <1>8, <2>1
  <2>2. ASSUME NEW q \in Procs \ {p}, pc'[q] = "lockSleep" PROVE lock'[cur[q]] # Nobody
    <3>1. q \notin W /\ pc[q] = "lockSleep"
      BY <1>3, <2>2 DEF Asleep
    <3>2. lock[cur[q]] # Nobody /\ cur[q] # i
      BY <1>1, <3>1 DEF SleepersHaveWaker
    <3>3. cur[q] # 0
      BY <1>1, <3>1 DEF LocksOK, Cl, Class
    <3>4. cur[q] \in Bufs
      BY <3>3, UserHasBlock
    <3>5. QED
      BY <1>5, <3>2, <3>4
  <2>3. QED
    BY <1>1, <1>3, <1>6, <2>1, <2>2 DEF OthersKeep
<1>10. OwnAgrees(p)
  <2>1. Cl(p) \notin {"in", "out"} /\ ~Locked(p)'
    BY <1>2, <1>3 DEF Locked
  <2>2. \A j \in Bufs : lock'[j] # p
    BY <1>1, <1>4, <1>5, <1>8 DEF LocksOK
  <2>3. cur'[p] # 0 /\ Cl(p)' \notin {"idle", "panic", "in", "out", "written", "dirty", "held", "saved"}
    BY <1>1, <1>3, <1>4
  <2>4. QED
    BY <1>2, <1>3, <2>1, <2>2, <2>3 DEF OwnAgrees
<1>11. BufsAgree
  <2>1. i \notin pinned => buf[i].data = store[buf[i].blockno]
    BY <1>1, <1>2 DEF CleanOK, Clean
  <2>2. \A j \in Bufs : buf'[j].valid /\ j \notin pinned' /\ lock'[j] = Nobody =>
                          buf'[j].data = store[buf'[j].blockno]
    BY <1>1, <1>5, <2>1 DEF CleanOK, Clean
  <2>3. QED
    BY <1>1, <1>6, <2>2 DEF BufsAgree, LocksOK, CleanOK
<1>12. QED
  BY <1>1, <1>7, <1>9, <1>10, <1>11, CacheStep

-----------------------------------------------------------------------------
(* brelse(), and what the holder does to the buffer                        *)

\* brelse() keeps every buffer on the list.
LEMMA MoveToFrontKeeps ==
  ASSUME TypeOK, NEW i \in Bufs
  PROVE  /\ MoveToFront(i) \in [Bufs -> Bufs]
         /\ \A j \in Bufs : \E k \in Bufs : MoveToFront(i)[k] = j
<1> DEFINE k0 == CHOOSE k \in Bufs : lru[k] = i
           f == MoveToFront(i)
<1>1. lru \in [Bufs -> Bufs] /\ \A j \in Bufs : \E k \in Bufs : lru[k] = j
  BY DEF TypeOK
<1>2. k0 \in Bufs /\ lru[k0] = i
  BY <1>1
<1> HIDE DEF k0
<1>3. f = [j \in Bufs |-> IF j = 1 THEN i ELSE IF j <= k0 THEN lru[j - 1] ELSE lru[j]]
  BY DEF MoveToFront, k0
<1>4. NBUF \in Nat /\ \A j \in Bufs : j \in Nat /\ 1 <= j /\ j <= NBUF
  BY SMT, BioAssumption DEF Bufs
<1>5. \A j \in Bufs : j # 1 => j - 1 \in Bufs
  BY SMT, <1>4 DEF Bufs
<1>6. f \in [Bufs -> Bufs]
  BY SMT, <1>1, <1>3, <1>5
<1>7. ASSUME NEW j \in Bufs PROVE \E k \in Bufs : f[k] = j
  <2>1. CASE j = i
    <3>1. 1 \in Bufs /\ f[1] = i
      BY SMT, <1>3, <1>4 DEF Bufs
    <3>2. QED
      BY <2>1, <3>1
  <2>2. CASE j # i
    <3>1. PICK m \in Bufs : lru[m] = j
      BY <1>1
    <3>2. CASE m < k0
      <4>1. m + 1 \in Bufs /\ m + 1 # 1 /\ m + 1 <= k0 /\ (m + 1) - 1 = m
        BY SMT, <1>2, <1>4, <3>2 DEF Bufs
      <4>2. f[m + 1] = j
        BY <1>3, <3>1, <4>1
      <4>3. QED
        BY <4>1, <4>2
    <3>3. CASE m > k0
      <4>1. m # 1 /\ ~(m <= k0)
        BY SMT, <1>2, <1>4, <3>3
      <4>2. f[m] = j
        BY <1>3, <3>1, <4>1
      <4>3. QED
        BY <4>2
    <3>4. m # k0
      BY <1>2, <2>2, <3>1
    <3>5. QED
      BY SMT, <1>2, <1>4, <3>2, <3>3, <3>4
  <2>3. QED
    BY <2>1, <2>2
<1>8. QED
  BY <1>6, <1>7

\* brelse() gives up the reference, and the buffer moves to the front.
LEMMA BrelseStep ==
  ASSUME BioInv, NEW p \in Procs, Brelse(p)
  PROVE  BioInv'
<1> DEFINE i == cur[p]
<1>1. /\ TypeOK /\ OneBufferPerBlock /\ RefsCounted /\ LocksOK /\ CleanOK /\ SleepersHaveWaker
      /\ pc[p] = "brelse" /\ Goto(p, "idle") /\ cur' = [cur EXCEPT ![p] = 0]
      /\ UNCHANGED <<lock, pinned, diskVars, head>>
  BY DEF BioInv, Brelse
<1>2. /\ "idle" \in PCs /\ "idle" \notin Asleep /\ Class("idle") = "idle" /\ Cl(p) = "brelse"
  BY <1>1 DEF PCs, Asleep, Class, Cl
<1>3. /\ pc' \in [Procs -> PCs] /\ pc'[p] = "idle" /\ Cl(p)' = "idle"
      /\ \A q \in Procs \ {p} : pc'[q] = pc[q] /\ Cl(q)' = Cl(q)
  BY <1>1, <1>2, AfterGoto
<1>4. i \in Bufs /\ buf[i].refcnt # 0
  <2>1. i # 0
    BY <1>1, <1>2 DEF LocksOK
  <2>2. QED
    BY <2>1, UserHasBlock
<1>5. /\ buf' \in [Bufs -> Buffer] /\ KeepsBlockno /\ KeepsValid /\ KeepsDisk /\ KeepsData
      /\ buf'[i].refcnt = buf[i].refcnt - 1 /\ \A j \in Bufs \ {i} : buf'[j].refcnt = buf[j].refcnt
      /\ buf[i].refcnt \in Nat
  <2> DEFINE n == buf[i].refcnt - 1
  <2>1. buf' = [buf EXCEPT ![i].refcnt = n]
    BY DEF Brelse, Deref
  <2>2. buf[i].refcnt \in Nat
    BY <1>1, <1>4 DEF TypeOK, Buffer
  <2>3. n \in Nat
    BY SMT, <1>4, <2>2
  <2> HIDE DEF n
  <2>4. /\ buf' \in [Bufs -> Buffer] /\ KeepsBlockno /\ KeepsValid /\ KeepsDisk /\ KeepsData
        /\ buf'[i].refcnt = n /\ \A j \in Bufs \ {i} : buf'[j].refcnt = buf[j].refcnt
    BY <1>1, <1>4, <2>1, <2>3, SetRefcnt
  <2>5. QED
    BY <2>2, <2>4 DEF n
<1>6. cur' \in [Procs -> Bufs \cup {0}] /\ cur'[p] = 0 /\ \A q \in Procs \ {p} : cur'[q] = cur[q]
  <2>1. cur \in [Procs -> Bufs \cup {0}]
    BY <1>1 DEF TypeOK
  <2>2. QED
    BY <1>1, <2>1
<1>7. lru' \in [Bufs -> Bufs] /\ \A j \in Bufs : \E k \in Bufs : lru'[k] = j
  <2>1. lru' = MoveToFront(i) \/ lru' = lru
    BY DEF Brelse
  <2>2. CASE lru' = lru
    BY <1>1, <2>2 DEF TypeOK
  <2>3. CASE lru' = MoveToFront(i)
    BY <1>1, <1>4, <2>3, MoveToFrontKeeps
  <2>4. QED
    BY <2>1, <2>2, <2>3
<1>8. TypeOK'
  BY <1>1, <1>3, <1>5, <1>6, <1>7 DEF TypeOK, diskVars
<1>9. OneBufferPerBlock' /\ RefsCounted'
  <2>1. OneBufferPerBlock'
    BY <1>1, <1>5, SameBlocks
  <2>2. RefsCounted'
    BY <1>1, <1>4, <1>5, RefsGive
  <2>3. QED
    BY <2>1, <2>2
<1>10. \A j \in Bufs : Same(j)
  BY <1>1, <1>5 DEF Same, KeepsBlockno, KeepsValid, KeepsData
<1>11. OthersKeep(p)
  <2>1. \A q \in Procs \ {p} : Locked(q) => Same(cur[q])
    BY <1>10, HolderHas
  <2>2. QED
    BY <1>1, <1>3, <1>6, <2>1 DEF OthersKeep, SleepersHaveWaker
<1>12. OwnAgrees(p)
  <2>1. ~Locked(p)' /\ ~Locked(p) /\ Cl(p) \notin {"in", "out"}
    BY <1>2, <1>3 DEF Locked
  <2>2. QED
    BY <1>1, <1>2, <1>3, <1>6, <2>1 DEF OwnAgrees, LocksOK
<1>13. BufsAgree
  <2>1. \A j \in Bufs : buf'[j].refcnt # 0 \/ buf'[j].valid => buf'[j].blockno # NoBlock
    BY SMT, <1>1, <1>4, <1>5 DEF LocksOK, KeepsBlockno, KeepsValid
  <2>2. \A j \in pinned' : buf'[j].valid
    <3>1. pinned' = pinned /\ pinned \subseteq Bufs
      BY <1>1 DEF TypeOK
    <3>2. QED
      BY <1>1, <1>5, <3>1 DEF LocksOK, KeepsValid
  <2>3. \A j \in Bufs : buf'[j].valid /\ j \notin pinned' /\ lock'[j] = Nobody =>
                          buf'[j].data = store[buf'[j].blockno]
    BY <1>1, <1>10 DEF CleanOK, Clean, Same
  <2>4. \A j \in Bufs : buf'[j].valid => buf'[j].data \in Data
    BY <1>1, <1>10 DEF CleanOK, Same
  <2>5. QED
    BY <1>5, <2>1, <2>2, <2>3, <2>4 DEF BufsAgree
<1>14. QED
  BY <1>1, <1>8, <1>9, <1>11, <1>12, <1>13, CacheStep

\* The holder changes the block.
LEMMA ModifyStep ==
  ASSUME BioInv, NEW p \in Procs, NEW d \in Data, Modify(p, d)
  PROVE  BioInv'
<1> DEFINE i == cur[p]
<1>1. /\ TypeOK /\ OneBufferPerBlock /\ RefsCounted /\ LocksOK /\ CleanOK /\ SleepersHaveWaker
      /\ pc[p] = "held" /\ buf' = [buf EXCEPT ![i].data = d]
      /\ UNCHANGED <<lru, lock, pinned, diskVars, cur, head>>
  BY DEF BioInv, Modify
<1>2. PICK label \in {"saved", "dirty"} : Goto(p, label) /\ (label = "saved" <=> i \in pinned)
  BY DEF Modify
<1>3. /\ label \in PCs /\ label \notin Asleep /\ Class(label) = label
      /\ Cl(p) = "held" /\ Locked(p)
  BY <1>1 DEF PCs, Asleep, Class, Cl, Locked
<1>4. /\ pc' \in [Procs -> PCs] /\ pc'[p] = label /\ Cl(p)' = label
      /\ \A q \in Procs \ {p} : pc'[q] = pc[q] /\ Cl(q)' = Cl(q)
  BY <1>1, <1>2, <1>3, AfterGoto
<1>5. i \in Bufs /\ lock[i] = p /\ buf[i].blockno \in Blocks /\ buf[i].valid
  <2>1. i \in Bufs /\ lock[i] = p /\ buf[i].blockno \in Blocks
    BY <1>3, HolderHas
  <2>2. buf[i].valid
    BY <1>1, <1>3 DEF LocksOK
  <2>3. QED
    BY <2>1, <2>2
<1>6. /\ buf' \in [Bufs -> Buffer] /\ KeepsBlockno /\ KeepsValid /\ KeepsDisk /\ KeepsRefcnt
      /\ buf'[i].data = d /\ \A j \in Bufs \ {i} : buf'[j] = buf[j]
  <2>1. buf \in [Bufs -> Buffer]
    BY <1>1 DEF TypeOK
  <2>2. buf' \in [Bufs -> Buffer]
    BY <1>1, <2>1 DEF Buffer
  <2>3. \A j \in Bufs \ {i} : buf'[j] = buf[j]
    BY <1>1, <2>1
  <2>4. /\ buf'[i].blockno = buf[i].blockno /\ buf'[i].valid = buf[i].valid
        /\ buf'[i].disk = buf[i].disk /\ buf'[i].refcnt = buf[i].refcnt /\ buf'[i].data = d
    BY <1>1, <1>5, <2>1 DEF Buffer
  <2>5. QED
    BY <2>2, <2>3, <2>4 DEF KeepsBlockno, KeepsValid, KeepsDisk, KeepsRefcnt
<1>7. TypeOK' /\ OneBufferPerBlock' /\ RefsCounted'
  <2>1. TypeOK'
    BY <1>1, <1>4, <1>6 DEF TypeOK, diskVars
  <2>2. QED
    BY <1>1, <1>6, <2>1, SameBlocks, SameRefs
<1>8. Nobody \notin Procs
  BY BioAssumption
<1>9. OthersKeep(p)
  <2>1. ASSUME NEW q \in Procs \ {p}, Locked(q) PROVE Same(cur[q])
    <3>1. cur[q] \in Bufs /\ cur[q] # i
      BY <1>3, <2>1, HolderHas, OneHolder
    <3>2. QED
      BY <1>1, <1>6, <3>1 DEF Same
  <2>2. QED
    BY <1>1, <1>4, <2>1 DEF OthersKeep, SleepersHaveWaker
<1>10. OwnAgrees(p)
  <2>1. Cl(p)' \in {"saved", "dirty"} /\ Locked(p)' /\ (Cl(p)' = "saved" <=> i \in pinned)
    BY <1>2, <1>4 DEF Locked
  <2>2. \A j \in Bufs : lock'[j] = p <=> cur'[p] = j
    BY <1>1, <1>3 DEF LocksOK
  <2>3. buf'[i].valid /\ cur'[p] # 0 /\ 0 \notin Bufs
    BY SMT, <1>1, <1>5, <1>6 DEF KeepsValid, Bufs
  <2>4. QED
    BY <1>1, <1>3, <1>4, <2>1, <2>2, <2>3 DEF OwnAgrees
<1>11. BufsAgree
  <2>1. \A j \in Bufs : buf'[j].refcnt # 0 \/ buf'[j].valid => buf'[j].blockno # NoBlock
    BY SMT, <1>1, <1>6 DEF LocksOK, KeepsBlockno, KeepsValid, KeepsRefcnt
  <2>2. \A j \in pinned' : buf'[j].valid
    <3>1. pinned' = pinned /\ pinned \subseteq Bufs
      BY <1>1 DEF TypeOK
    <3>2. QED
      BY <1>1, <1>6, <3>1 DEF LocksOK, KeepsValid
  <2>3. \A j \in Bufs : buf'[j].valid /\ j \notin pinned' /\ lock'[j] = Nobody =>
                          buf'[j].data = store[buf'[j].blockno]
    BY SMT, <1>1, <1>5, <1>6, <1>8 DEF CleanOK, Clean
  <2>4. \A j \in Bufs : buf'[j].valid => buf'[j].data \in Data
    BY <1>1, <1>6 DEF CleanOK
  <2>5. QED
    BY <1>6, <2>1, <2>2, <2>3, <2>4 DEF BufsAgree
<1>12. QED
  BY <1>1, <1>7, <1>9, <1>10, <1>11, CacheStep

\* bpin() and bunpin(): the block is dirty until install_trans() has written it.
LEMMA PinStep ==
  ASSUME BioInv, NEW p \in Procs, Bpin(p) \/ Bunpin(p)
  PROVE  BioInv'
<1> DEFINE i == cur[p]
<1>1. /\ TypeOK /\ OneBufferPerBlock /\ RefsCounted /\ LocksOK /\ CleanOK /\ SleepersHaveWaker
      /\ pc[p] \in {"dirty", "written"} /\ Goto(p, "saved")
      /\ UNCHANGED <<lru, lock, diskVars, cur, head>>
  BY DEF BioInv, Bpin, Bunpin
<1>2. /\ "saved" \in PCs /\ "saved" \notin Asleep /\ Class("saved") = "saved"
      /\ Cl(p) = pc[p] /\ Cl(p) \in {"dirty", "written"} /\ Locked(p)
  BY <1>1 DEF PCs, Asleep, Class, Cl, Locked
<1>3. /\ pc' \in [Procs -> PCs] /\ pc'[p] = "saved" /\ Cl(p)' = "saved"
      /\ \A q \in Procs \ {p} : pc'[q] = pc[q] /\ Cl(q)' = Cl(q)
  BY <1>1, <1>2, AfterGoto
<1>4. i \in Bufs /\ lock[i] = p /\ buf[i].refcnt # 0 /\ buf[i].valid
  <2>1. i \in Bufs /\ lock[i] = p /\ i # 0
    <3>1. i \in Bufs /\ lock[i] = p
      BY <1>2, HolderHas
    <3>2. QED
      BY SMT, <3>1 DEF Bufs
  <2>2. buf[i].valid
    BY <1>1, <1>2 DEF LocksOK
  <2>3. QED
    BY <2>1, <2>2, UserHasBlock
<1>5. PICK n \in Nat :
        /\ buf' = [buf EXCEPT ![i].refcnt = n]
        /\ \/ n = buf[i].refcnt + 1 /\ i \notin pinned /\ pinned' = pinned \cup {i}
           \/ n = buf[i].refcnt - 1 /\ i \in pinned /\ pinned' = pinned \ {i} /\ Clean(i)
  <2>1. buf[i].refcnt \in Nat
    BY <1>1, <1>4 DEF TypeOK, Buffer
  <2>2. CASE Bpin(p)
    <3>1. i \notin pinned
      BY <1>1, <1>2, <2>2 DEF LocksOK, Bpin
    <3>2. buf' = [buf EXCEPT ![i].refcnt = buf[i].refcnt + 1] /\ pinned' = pinned \cup {i}
      BY <2>2 DEF Bpin
    <3>3. buf[i].refcnt + 1 \in Nat
      BY SMT, <2>1
    <3>4. QED
      BY <3>1, <3>2, <3>3
  <2>3. CASE Bunpin(p)
    <3>1. i \in pinned /\ Clean(i)
      BY <1>1, <1>2, <2>3 DEF CleanOK, Bunpin
    <3>2. buf' = [buf EXCEPT ![i].refcnt = buf[i].refcnt - 1] /\ pinned' = pinned \ {i}
      BY <2>3 DEF Bunpin, Deref
    <3>3. buf[i].refcnt - 1 \in Nat
      BY SMT, <1>4, <2>1
    <3>4. QED
      BY <3>1, <3>2, <3>3
  <2>4. QED
    BY <2>2, <2>3
<1>6. /\ buf' \in [Bufs -> Buffer] /\ KeepsBlockno /\ KeepsValid /\ KeepsDisk /\ KeepsData
      /\ buf'[i].refcnt = n /\ \A j \in Bufs \ {i} : buf'[j].refcnt = buf[j].refcnt
  BY <1>1, <1>4, <1>5, SetRefcnt
<1>7. /\ pinned' \in SUBSET Bufs /\ pinned \in SUBSET Bufs
      /\ \A j \in Bufs \ {i} : j \in pinned' <=> j \in pinned
  <2>1. pinned \in SUBSET Bufs
    BY <1>1 DEF TypeOK
  <2>2. QED
    BY <1>4, <1>5, <2>1
<1>8. TypeOK'
  BY <1>1, <1>3, <1>6, <1>7 DEF TypeOK, diskVars
<1>9. OneBufferPerBlock' /\ RefsCounted'
  <2>1. OneBufferPerBlock'
    BY <1>1, <1>6, SameBlocks
  <2>2. \/ buf'[i].refcnt = buf[i].refcnt + 1 /\ i \notin pinned /\ i \in pinned'
        \/ buf'[i].refcnt = buf[i].refcnt - 1 /\ i \in pinned /\ i \notin pinned'
    BY <1>5, <1>6
  <2>3. RefsCounted'
    BY <1>1, <1>4, <1>6, <1>7, <2>2, RefsPin
  <2>4. QED
    BY <2>1, <2>3
<1>10. \A j \in Bufs \ {i} : Same(j)
  BY <1>6, <1>7 DEF Same, KeepsBlockno, KeepsValid, KeepsData
<1>11. OthersKeep(p)
  <2>1. ASSUME NEW q \in Procs \ {p}, Locked(q) PROVE Same(cur[q])
    BY <1>2, <1>10, <2>1, HolderHas, OneHolder
  <2>2. QED
    BY <1>1, <1>3, <2>1 DEF OthersKeep, SleepersHaveWaker
<1>12. OwnAgrees(p)
  <2>1. Locked(p)' /\ Cl(p) \notin {"in", "out"}
    BY <1>2, <1>3 DEF Locked
  <2>2. \A j \in Bufs : lock'[j] = p <=> cur'[p] = j
    BY <1>1, <1>2 DEF LocksOK
  <2>3. buf'[i].valid /\ cur'[p] # 0
    BY SMT, <1>1, <1>4, <1>6 DEF KeepsValid, Bufs
  <2>4. i \notin pinned' => buf'[i].data = store[buf'[i].blockno]
    <3>1. i \notin pinned' => Clean(i)
      BY <1>5
    <3>2. QED
      BY <1>4, <1>6, <3>1 DEF Clean, KeepsData, KeepsBlockno
  <2>5. QED
    BY <1>1, <1>2, <1>3, <2>1, <2>2, <2>3, <2>4 DEF OwnAgrees
<1>13. BufsAgree
  <2>1. \A j \in Bufs : buf'[j].refcnt # 0 \/ buf'[j].valid => buf'[j].blockno # NoBlock
    BY SMT, <1>1, <1>4, <1>6 DEF LocksOK, KeepsBlockno, KeepsValid
  <2>2. \A j \in pinned' : buf'[j].valid
    BY <1>1, <1>4, <1>6, <1>7 DEF LocksOK, KeepsValid
  <2>3. \A j \in Bufs : buf'[j].valid /\ j \notin pinned' /\ lock'[j] = Nobody =>
                          buf'[j].data = store[buf'[j].blockno]
    <3>1. lock'[i] # Nobody
      BY <1>1, <1>4, BioAssumption
    <3>2. QED
      BY SMT, <1>1, <1>10, <3>1 DEF CleanOK, Clean, Same
  <2>4. \A j \in Bufs : buf'[j].valid => buf'[j].data \in Data
    BY <1>1, <1>6 DEF CleanOK, KeepsValid, KeepsData
  <2>5. QED
    BY <1>6, <2>1, <2>2, <2>3, <2>4 DEF BufsAgree
<1>14. QED
  BY <1>1, <1>8, <1>9, <1>11, <1>12, <1>13, CacheStep

-----------------------------------------------------------------------------
(* The device and virtio_disk_intr()                                       *)

\* Requests in progress have different buffers and different chains.
LEMMA RequestsDiffer ==
  ASSUME BioInv, NEW p \in InUse, NEW q \in InUse, p # q
  PROVE  cur[p] # cur[q] /\ head[p] # head[q]
<1>1. cur[p] # cur[q]
  BY RequestHas, OneHolder
<1>2. QED
  BY <1>1 DEF BioInv, RequestsOK

\* Who has made a request that is posted or done.
LEMMA Requester ==
  ASSUME BioInv, NEW i \in posted \cup UsedSet
  PROVE  \E p \in InUse : /\ head[p] = i /\ req[i].b = cur[p] /\ (req[i].write <=> Cl(p) = "out")
                          /\ buf[cur[p]].disk
<1>1. PICK p \in InUse : head[p] = i
  BY DEF BioInv, RequestsOK
<1>2. QED
  BY <1>1 DEF BioInv, RequestsOK

\* The driver takes the first entry of the used ring.
LEMMA UsedTail ==
  ASSUME used \in Seq(Descs), UsedOnce, used # << >>, used' = Tail(used)
  PROVE  /\ Head(used) \in UsedSet /\ used' \in Seq(Descs) /\ UsedOnce'
         /\ UsedSet' = UsedSet \ {Head(used)}
<1>1. /\ Len(used) \in Nat /\ Len(used) >= 1 /\ Head(used) = used[1] /\ 1 \in 1 .. Len(used)
      /\ used' \in Seq(Descs) /\ Len(used') = Len(used) - 1
      /\ \A k \in 1 .. Len(used') : used'[k] = used[k + 1]
  BY SMT
<1>2. UsedOnce'
  <2>1. SUFFICES ASSUME NEW j \in 1 .. Len(used'), NEW k \in 1 .. Len(used'), used'[j] = used'[k]
                 PROVE  j = k
    BY DEF UsedOnce
  <2>2. j + 1 \in 1 .. Len(used) /\ k + 1 \in 1 .. Len(used) /\ used[j + 1] = used[k + 1]
    BY SMT, <1>1, <2>1
  <2>3. j + 1 = k + 1
    BY <2>2 DEF UsedOnce
  <2>4. QED
    BY SMT, <2>3
<1>3. Head(used) \in UsedSet
  BY <1>1 DEF UsedSet
<1>4. ASSUME NEW d \in UsedSet' PROVE d \in UsedSet /\ d # Head(used)
  <2>1. PICK k \in 1 .. Len(used') : d = used'[k]
    BY DEF UsedSet
  <2>2. k + 1 \in 1 .. Len(used) /\ d = used[k + 1] /\ k + 1 # 1
    BY SMT, <1>1, <2>1
  <2>3. QED
    BY <1>1, <2>2 DEF UsedSet, UsedOnce
<1>5. ASSUME NEW d \in UsedSet, d # Head(used) PROVE d \in UsedSet'
  <2>1. PICK k \in 1 .. Len(used) : d = used[k]
    BY DEF UsedSet
  <2>2. k # 1
    BY <1>1, <1>5, <2>1
  <2>3. k - 1 \in 1 .. Len(used') /\ (k - 1) + 1 = k
    BY SMT, <1>1, <2>2
  <2>4. used'[k - 1] = d
    BY <1>1, <2>1, <2>3
  <2>5. QED
    BY <2>3, <2>4 DEF UsedSet
<1>6. QED
  BY <1>1, <1>2, <1>3, <1>4, <1>5

\* The device appends to the used ring.
LEMMA UsedAppend ==
  ASSUME used \in Seq(Descs), UsedOnce, NEW i \in Descs \ UsedSet, used' = Append(used, i)
  PROVE  used' \in Seq(Descs) /\ UsedOnce' /\ UsedSet' = UsedSet \cup {i}
<1>1. /\ Len(used) \in Nat /\ Len(used') = Len(used) + 1 /\ used' \in Seq(Descs)
      /\ used'[Len(used) + 1] = i
      /\ \A k \in 1 .. Len(used) : used'[k] = used[k]
  BY SMT
<1>2. \A k \in 1 .. Len(used') : k \in 1 .. Len(used) \/ k = Len(used) + 1
  BY SMT, <1>1
<1>3. 1 .. Len(used) \subseteq 1 .. Len(used') /\ Len(used) + 1 \in 1 .. Len(used')
  BY SMT, <1>1
<1>4. \A k \in 1 .. Len(used) : used[k] # i
  BY DEF UsedSet
<1>5. UsedOnce'
  <2>1. SUFFICES ASSUME NEW j \in 1 .. Len(used'), NEW k \in 1 .. Len(used'), used'[j] = used'[k]
                 PROVE  j = k
    BY DEF UsedOnce
  <2>2. CASE j \in 1 .. Len(used) /\ k \in 1 .. Len(used)
    BY <1>1, <2>1, <2>2 DEF UsedOnce
  <2>3. QED
    BY <1>1, <1>2, <1>4, <2>1, <2>2
<1>6. \A d \in UsedSet' : d \in UsedSet \/ d = i
  BY <1>1, <1>2 DEF UsedSet
<1>7. \A d \in UsedSet : d \in UsedSet'
  BY <1>1, <1>3 DEF UsedSet
<1>8. i \in UsedSet'
  BY <1>1, <1>3 DEF UsedSet
<1>9. QED
  BY <1>1, <1>5, <1>6, <1>7, <1>8

\* A step that leaves the locks and the processes that hold them alone.
LEMMA SameLocks ==
  ASSUME BioInv, UNCHANGED <<lock, pinned, cur>>, KeepsBlockno, KeepsValid, KeepsRefcnt,
         \A q \in Procs : Cl(q)' = Cl(q) /\ (Locked(q)' <=> Locked(q))
  PROVE  LocksOK'
<1>1. LocksOK /\ pinned \subseteq Bufs
  BY DEF BioInv, TypeOK
<1>2. \A q \in Procs : cur'[q] = 0 <=> Cl(q)' \in {"idle", "panic"}
  BY <1>1 DEF LocksOK
<1>3. \A q \in Procs, j \in Bufs : lock'[j] = q <=> cur'[q] = j /\ Locked(q)'
  BY <1>1 DEF LocksOK
<1>4. \A j \in Bufs : buf'[j].refcnt # 0 \/ buf'[j].valid => buf'[j].blockno # NoBlock
  BY <1>1 DEF LocksOK, KeepsBlockno, KeepsValid, KeepsRefcnt
<1>5. \A j \in pinned' : buf'[j].valid
  BY <1>1 DEF LocksOK, KeepsValid
<1>6. ASSUME NEW q \in Procs, Locked(q)'
      PROVE  buf'[cur'[q]].valid <=> Cl(q)' \notin {"load", "in"}
  <2>1. Locked(q) /\ cur[q] \in Bufs
    BY <1>6, HolderHas
  <2>2. QED
    BY SMT, <1>1, <2>1 DEF LocksOK, KeepsValid
<1>7. \A q \in Procs : Cl(q)' = "dirty" => cur'[q] \notin pinned'
  BY <1>1 DEF LocksOK
<1>8. QED
  BY <1>2, <1>3, <1>4, <1>5, <1>6, <1>7 DEF LocksOK

\* virtio_disk_intr() handles one entry of the used ring.
LEMMA IntrEntryStep ==
  ASSUME BioInv, IntrEntry
  PROVE  BioInv'
<1> DEFINE i == Head(used)
           b == req[i].b
<1>1. /\ TypeOK /\ OneBufferPerBlock /\ RefsCounted /\ LocksOK
      /\ RequestsOK /\ ChainsOK /\ CleanOK /\ SleepersHaveWaker
  BY DEF BioInv
<1>2. /\ intr = "loop" /\ used # << >> /\ buf' = [buf EXCEPT ![b].disk = FALSE]
      /\ pc' = [q \in Procs |-> IF cur[q] = b /\ pc[q] \in {"diskRead", "diskWrite"}
                                THEN Again(pc[q]) ELSE pc[q]]
      /\ used' = Tail(used)
      /\ UNCHANGED <<lru, lock, pinned, store, free, next, req, posted, irq, intr, cur, head>>
  BY DEF IntrEntry
<1>3. i \in UsedSet /\ used' \in Seq(Descs) /\ UsedOnce' /\ UsedSet' = UsedSet \ {i}
  <2>1. used \in Seq(Descs) /\ UsedOnce
    BY <1>1 DEF TypeOK, RequestsOK
  <2>2. QED
    BY <1>2, <2>1, UsedTail
<1>4. PICK p \in InUse : head[p] = i /\ b = cur[p]
  BY <1>3, Requester
<1>5. p \in Procs /\ b \in Bufs /\ i \notin posted
  <2>1. i \notin posted
    BY <1>1, <1>3 DEF RequestsOK
  <2>2. QED
    BY <1>4, <2>1, RequestHas
<1>6. \A q \in InUse : q # p => cur[q] # b /\ head[q] # i
  BY <1>4, RequestsDiffer
<1>7. /\ buf' \in [Bufs -> Buffer] /\ KeepsBlockno /\ KeepsValid /\ KeepsRefcnt /\ KeepsData
      /\ ~buf'[b].disk /\ \A j \in Bufs \ {b} : buf'[j].disk = buf[j].disk
  <2>1. buf \in [Bufs -> Buffer]
    BY <1>1 DEF TypeOK
  <2>2. buf' \in [Bufs -> Buffer]
    BY <1>2, <2>1 DEF Buffer
  <2>3. \A j \in Bufs \ {b} : buf'[j] = buf[j]
    BY <1>2, <2>1
  <2>4. /\ buf'[b].blockno = buf[b].blockno /\ buf'[b].valid = buf[b].valid
        /\ ~buf'[b].disk /\ buf'[b].refcnt = buf[b].refcnt /\ buf'[b].data = buf[b].data
    BY <1>2, <1>5, <2>1 DEF Buffer
  <2>5. QED
    BY <2>2, <2>3, <2>4 DEF KeepsBlockno, KeepsValid, KeepsData, KeepsRefcnt
<1>8. /\ pc' \in [Procs -> PCs]
      /\ \A q \in Procs : /\ Cl(q)' = Cl(q) /\ (Locked(q)' <=> Locked(q))
                          /\ pc'[q] = pc[q] \/ pc'[q] \notin Asleep
                          /\ cur[q] = b => pc'[q] \notin {"diskRead", "diskWrite"}
  <2>1. pc \in [Procs -> PCs]
    BY <1>1 DEF TypeOK
  <2>2. ASSUME NEW q \in Procs, pc[q] \in {"diskRead", "diskWrite"}
        PROVE  /\ Again(pc[q]) \in PCs /\ Again(pc[q]) \notin Asleep
               /\ Class(Again(pc[q])) = Class(pc[q])
    BY <2>2, Woken DEF Asleep
  <2>3. pc' \in [Procs -> PCs]
    BY <1>2, <2>1, <2>2
  <2>4. \A q \in Procs : pc'[q] = IF cur[q] = b /\ pc[q] \in {"diskRead", "diskWrite"}
                                  THEN Again(pc[q]) ELSE pc[q]
    BY <1>2
  <2>5. ASSUME NEW q \in Procs
        PROVE  /\ Cl(q)' = Cl(q) /\ (pc'[q] = pc[q] \/ pc'[q] \notin Asleep)
               /\ cur[q] = b => pc'[q] \notin {"diskRead", "diskWrite"}
    <3>1. "diskRead" \in Asleep /\ "diskWrite" \in Asleep
      BY DEF Asleep
    <3>2. QED
      BY <2>2, <2>4, <3>1 DEF Cl
  <2>6. QED
    BY <2>3, <2>5 DEF Locked
<1>9. TypeOK' /\ OneBufferPerBlock' /\ RefsCounted' /\ ChainsOK'
  <2>1. TypeOK'
    BY <1>1, <1>2, <1>3, <1>7, <1>8 DEF TypeOK
  <2>2. QED
    BY <1>1, <1>2, <1>7, <2>1, SameBlocks, SameRefs, SameChains
<1>10. InUse' = InUse /\ \A q \in InUse : q \in Procs /\ cur[q] \in Bufs
  <2>1. InUse' = InUse
    BY <1>2 DEF InUse
  <2>2. QED
    BY <2>1, RequestHas
<1>11. LocksOK'
  BY <1>2, <1>7, <1>8, SameLocks
<1>12. RequestsOK'
  <2>1. \A q \in Procs : head'[q] # -1 <=> Cl(q)' \in {"in", "out"}
    BY <1>1, <1>2, <1>8 DEF RequestsOK
  <2>2. \A q \in InUse' : req'[head'[q]].b = cur'[q] /\ (req'[head'[q]].write <=> Cl(q)' = "out")
    BY SMT, <1>1, <1>2, <1>8, <1>10 DEF RequestsOK
  <2>3. posted' \cap UsedSet' = {}
    BY <1>1, <1>2, <1>3 DEF RequestsOK
  <2>4. \A j \in posted' \cup UsedSet' : \E q \in InUse' : head'[q] = j
    BY <1>1, <1>2, <1>3, <1>10 DEF RequestsOK
  <2>5. ASSUME NEW q \in InUse' PROVE buf'[cur'[q]].disk <=> head'[q] \in posted' \cup UsedSet'
    <3>1. q \in InUse /\ cur'[q] = cur[q] /\ head'[q] = head[q] /\ cur[q] \in Bufs
      BY <1>2, <1>10
    <3>2. CASE q = p
      BY <1>2, <1>3, <1>4, <1>5, <1>7, <3>1, <3>2
    <3>3. CASE q # p
      <4>1. buf'[cur[q]].disk = buf[cur[q]].disk
        BY <1>6, <1>7, <3>1, <3>3
      <4>2. buf[cur[q]].disk <=> head[q] \in posted \cup UsedSet
        BY <1>1, <3>1 DEF RequestsOK
      <4>3. QED
        BY <1>2, <1>3, <1>6, <3>1, <3>3, <4>1, <4>2
    <3>4. QED
      BY <3>2, <3>3
  <2>6. QED
    BY <1>3, <2>1, <2>2, <2>3, <2>4, <2>5 DEF RequestsOK
<1>13. CleanOK'
  <2>1. \A j \in Bufs : Clean(j)' <=> Clean(j)
    BY <1>2, <1>7 DEF Clean, KeepsData, KeepsBlockno
  <2>2. \A q \in Procs : Locked(q) => cur[q] \in Bufs
    BY HolderHas
  <2>3. \A q \in Procs : cur[q] \in Bufs => (Clean(cur[q])' <=> Clean(cur[q]))
    BY <1>2, <1>7 DEF Clean, KeepsData, KeepsBlockno
  <2>4. \A j \in Bufs : buf'[j].valid => buf'[j].data \in Data
    BY <1>1, <1>7 DEF CleanOK, KeepsValid, KeepsData
  <2>5. \A j \in Bufs : buf'[j].valid /\ j \notin pinned' /\ lock'[j] = Nobody => Clean(j)'
    BY <1>1, <1>2, <1>7, <2>1 DEF CleanOK, KeepsValid
  <2>6. \A q \in Procs : Cl(q)' \in {"held", "saved"} /\ cur'[q] \notin pinned' => Clean(cur[q])'
    <3>1. \A q \in Procs : Cl(q) \in {"held", "saved"} => Locked(q)
      BY DEF Locked
    <3>2. QED
      BY <1>1, <1>2, <1>8, <2>2, <2>3, <3>1 DEF CleanOK
  <2>7. \A q \in Procs : Cl(q)' = "written" => Clean(cur[q])'
    <3>1. \A q \in Procs : Cl(q) = "written" => Locked(q)
      BY DEF Locked
    <3>2. QED
      BY <1>1, <1>2, <1>8, <2>2, <2>3, <3>1 DEF CleanOK
  <2>8. \A q \in InUse' : head'[q] \notin posted' => Clean(cur[q])'
    BY <1>1, <1>2, <1>10, <2>3 DEF CleanOK
  <2>9. QED
    BY <2>4, <2>5, <2>6, <2>7, <2>8 DEF CleanOK
<1>14. SleepersHaveWaker'
  <2>1. ASSUME NEW q \in Procs, pc'[q] = "lockSleep" PROVE lock'[cur'[q]] # Nobody
    <3>1. pc[q] = "lockSleep"
      BY <1>8, <2>1 DEF Asleep
    <3>2. QED
      BY <1>1, <1>2, <3>1 DEF SleepersHaveWaker
  <2>2. ASSUME NEW q \in Procs, pc'[q] \in {"descRead", "descWrite"} PROVE InUse' # {}
    <3>1. pc[q] = pc'[q]
      BY <1>8, <2>2 DEF Asleep
    <3>2. QED
      BY <1>1, <1>10, <2>2, <3>1 DEF SleepersHaveWaker
  <2>3. ASSUME NEW q \in Procs, pc'[q] \in {"diskRead", "diskWrite"}
        PROVE  /\ buf'[cur'[q]].disk
               /\ head'[q] \in posted' \/ \E k \in 1 .. Len(used') : used'[k] = head'[q]
    <3>1. pc[q] = pc'[q] /\ cur[q] # b
      BY <1>8, <2>3 DEF Asleep
    <3>2. /\ buf[cur[q]].disk
          /\ head[q] \in posted \/ \E k \in 1 .. Len(used) : used[k] = head[q]
      BY <1>1, <2>3, <3>1 DEF SleepersHaveWaker
    <3>3. head[q] \in posted \cup UsedSet
      BY <3>2 DEF UsedSet
    <3>4. Cl(q) \in {"in", "out"}
      BY <2>3, <3>1 DEF Cl, Class
    <3>5. q \in InUse
      BY <1>1, <3>4 DEF RequestsOK, InUse
    <3>6. head[q] # i /\ cur[q] \in Bufs
      BY <1>4, <1>6, <1>10, <3>1, <3>5
    <3>7. head'[q] \in posted' \cup UsedSet'
      BY <1>2, <1>3, <3>3, <3>6
    <3>8. buf'[cur'[q]].disk
      BY <1>2, <1>7, <3>1, <3>2, <3>6
    <3>9. QED
      BY <3>7, <3>8 DEF UsedSet
  <2>4. QED
    BY <1>2, <2>1, <2>2, <2>3 DEF SleepersHaveWaker
<1>15. QED
  BY <1>9, <1>11, <1>12, <1>13, <1>14 DEF BioInv

\* The device does a request: the block is now the same on disk and in the buffer.
LEMMA DeviceStep ==
  ASSUME BioInv, NEW i \in Descs, Device(i)
  PROVE  BioInv'
<1> DEFINE b == req[i].b
<1>1. /\ TypeOK /\ OneBufferPerBlock /\ RefsCounted /\ LocksOK
      /\ RequestsOK /\ ChainsOK /\ CleanOK /\ SleepersHaveWaker
  BY DEF BioInv
<1>2. /\ i \in posted /\ req' = [req EXCEPT ![i].status = 0]
      /\ posted' = posted \ {i} /\ used' = Append(used, i) /\ irq' = TRUE
      /\ UNCHANGED <<lru, lock, pinned, free, next, intr, pc, cur, head>>
  BY DEF Device, procVars
<1>3. \/ /\ req[i].write /\ buf' = buf
         /\ store' = [store EXCEPT ![buf[b].blockno] = buf[b].data]
      \/ /\ ~req[i].write /\ store' = store
         /\ buf' = [buf EXCEPT ![b].data = store[buf[b].blockno]]
  BY DEF Device
<1>4. used' \in Seq(Descs) /\ UsedOnce' /\ UsedSet' = UsedSet \cup {i}
  <2>1. used \in Seq(Descs) /\ UsedOnce /\ i \in Descs \ UsedSet
    BY <1>1, <1>2 DEF TypeOK, RequestsOK
  <2>2. QED
    BY <1>2, <2>1, UsedAppend
<1>5. PICK p \in InUse : head[p] = i /\ b = cur[p] /\ (req[i].write <=> Cl(p) = "out")
  <2>1. i \in posted \cup UsedSet
    BY <1>2
  <2>2. QED
    BY <2>1, Requester
<1>6. /\ p \in Procs /\ b \in Bufs /\ lock[b] = p /\ Locked(p) /\ Cl(p) \in {"in", "out"}
      /\ buf[b].blockno \in Blocks
  BY <1>5, RequestHas
<1>7. /\ \A q \in InUse : q # p => cur[q] # b /\ head[q] # i
      /\ \A q \in Procs : Locked(q) /\ q # p => cur[q] # b
  BY <1>5, <1>6, RequestsDiffer, OneHolder
<1>8. req[i].write => buf[b].data \in Data
  BY <1>1, <1>5, <1>6 DEF LocksOK, CleanOK
<1>9. /\ buf' \in [Bufs -> Buffer] /\ KeepsBlockno /\ KeepsValid /\ KeepsDisk /\ KeepsRefcnt
      /\ \A j \in Bufs \ {b} : buf'[j] = buf[j]
  <2>1. buf \in [Bufs -> Buffer] /\ store \in [Blocks -> Data]
    BY <1>1 DEF TypeOK
  <2>2. store[buf[b].blockno] \in Data
    BY <1>6, <2>1
  <2>3. buf' \in [Bufs -> Buffer]
    BY SMT, <1>3, <2>1, <2>2 DEF Buffer
  <2>4. \A j \in Bufs \ {b} : buf'[j] = buf[j]
    BY <1>3, <2>1
  <2>5. /\ buf'[b].blockno = buf[b].blockno /\ buf'[b].valid = buf[b].valid
        /\ buf'[b].disk = buf[b].disk /\ buf'[b].refcnt = buf[b].refcnt
    BY SMT, <1>3, <1>6, <2>1 DEF Buffer
  <2>6. QED
    BY <2>3, <2>4, <2>5 DEF KeepsBlockno, KeepsValid, KeepsDisk, KeepsRefcnt
<1>10. /\ store' \in [Blocks -> Data] /\ buf'[b].data = store'[buf'[b].blockno]
       /\ \A c \in Blocks : c # buf[b].blockno => store'[c] = store[c]
  <2>1. buf \in [Bufs -> Buffer] /\ store \in [Blocks -> Data]
    BY <1>1 DEF TypeOK
  <2>2. store' \in [Blocks -> Data] /\ \A c \in Blocks : c # buf[b].blockno => store'[c] = store[c]
    BY <1>3, <1>6, <1>8, <2>1
  <2>3. buf'[b].data = store'[buf[b].blockno]
    BY SMT, <1>3, <1>6, <2>1 DEF Buffer
  <2>4. QED
    BY <1>6, <1>9, <2>2, <2>3 DEF KeepsBlockno
<1>11. req' \in [Descs -> Request] /\ \A j \in Descs : req'[j].b = req[j].b /\ req'[j].write = req[j].write
  <2>1. req \in [Descs -> Request]
    BY <1>1 DEF TypeOK
  <2>2. QED
    BY SMT, <1>2, <2>1 DEF Request
<1>12. TypeOK' /\ OneBufferPerBlock' /\ RefsCounted' /\ ChainsOK'
  <2>1. posted' \in SUBSET Descs /\ irq' \in BOOLEAN
    BY <1>1, <1>2 DEF TypeOK
  <2>2. TypeOK'
    BY <1>1, <1>2, <1>4, <1>9, <1>10, <1>11, <2>1 DEF TypeOK
  <2>3. QED
    BY <1>1, <1>2, <1>9, <2>2, SameBlocks, SameRefs, SameChains
<1>13. InUse' = InUse /\ \A q \in Procs : Cl(q)' = Cl(q) /\ (Locked(q)' <=> Locked(q))
  BY <1>2 DEF InUse, Cl, Locked
<1>14. LocksOK'
  BY <1>2, <1>9, <1>13, SameLocks
<1>15. posted' \cup UsedSet' = posted \cup UsedSet
  BY <1>2, <1>4
<1>16. RequestsOK'
  <2>1. \A q \in Procs : head'[q] # -1 <=> Cl(q)' \in {"in", "out"}
    BY <1>1, <1>2, <1>13 DEF RequestsOK
  <2>2. \A q \in InUse' : req'[head'[q]].b = cur'[q] /\ (req'[head'[q]].write <=> Cl(q)' = "out")
    <3>1. ASSUME NEW q \in InUse PROVE q \in Procs /\ head[q] \in Descs
      BY RequestHas
    <3>2. QED
      BY SMT, <1>1, <1>2, <1>11, <1>13, <3>1 DEF RequestsOK
  <2>3. posted' \cap UsedSet' = {}
    BY <1>1, <1>2, <1>4 DEF RequestsOK
  <2>4. \A j \in posted' \cup UsedSet' : \E q \in InUse' : head'[q] = j
    BY <1>1, <1>2, <1>13, <1>15 DEF RequestsOK
  <2>5. ASSUME NEW q \in InUse PROVE buf'[cur'[q]].disk <=> head'[q] \in posted' \cup UsedSet'
    <3>1. buf'[cur[q]].disk = buf[cur[q]].disk
      BY <1>9, RequestHas DEF KeepsDisk
    <3>2. QED
      BY <1>1, <1>2, <1>15, <3>1 DEF RequestsOK
  <2>6. QED
    BY <1>4, <1>13, <2>1, <2>2, <2>3, <2>4, <2>5 DEF RequestsOK
<1>17. CleanOK'
  <2>1. ASSUME NEW j \in Bufs, j # b, buf[j].blockno \in Blocks, Clean(j)
        PROVE  buf'[j].data = store'[buf'[j].blockno]
    <3>1. buf[j].blockno # buf[b].blockno
      BY <1>1, <1>6, <2>1, BioAssumption DEF OneBufferPerBlock
    <3>2. store'[buf[j].blockno] = store[buf[j].blockno] /\ buf'[j] = buf[j]
      BY <1>9, <1>10, <2>1, <3>1
    <3>3. QED
      BY <2>1, <3>2 DEF Clean
  <2>2. ASSUME NEW q \in Procs, Locked(q), q # p, Clean(cur[q]) PROVE Clean(cur[q])'
    <3>1. cur[q] \in Bufs /\ cur[q] # b /\ buf[cur[q]].blockno \in Blocks
      BY <1>7, <2>2, HolderHas
    <3>2. QED
      BY <1>2, <2>1, <2>2, <3>1 DEF Clean
  <2>3. Clean(cur[p])'
    BY <1>2, <1>5, <1>10 DEF Clean
  <2>4. \A q \in Procs : Cl(q) \in {"held", "saved", "written"} => Locked(q) /\ q # p
    BY <1>6 DEF Locked
  <2>5. \A j \in Bufs : buf'[j].valid => buf'[j].data \in Data
    <3>1. buf'[b].data \in Data
      BY <1>6, <1>9, <1>10 DEF KeepsBlockno
    <3>2. QED
      BY <1>1, <1>9, <3>1 DEF CleanOK
  <2>6. ASSUME NEW j \in Bufs, buf'[j].valid, j \notin pinned', lock'[j] = Nobody PROVE Clean(j)'
    <3>1. j # b /\ buf[j].valid /\ Clean(j)
      <4>1. lock[j] = Nobody /\ j # b
        BY <1>2, <1>6, <2>6, BioAssumption
      <4>2. buf[j].valid
        BY <1>9, <2>6 DEF KeepsValid
      <4>3. QED
        BY <1>1, <1>2, <2>6, <4>1, <4>2 DEF CleanOK
    <3>2. buf[j].blockno # NoBlock /\ buf[j] \in Buffer
      BY <1>1, <3>1 DEF LocksOK, TypeOK
    <3>3. buf[j].blockno \in Blocks
      BY <3>2 DEF Buffer
    <3>4. QED
      BY <2>1, <3>1, <3>3 DEF Clean
  <2>7. \A q \in Procs : Cl(q)' \in {"held", "saved"} /\ cur'[q] \notin pinned' => Clean(cur[q])'
    BY <1>1, <1>2, <1>13, <2>2, <2>4 DEF CleanOK
  <2>8. \A q \in Procs : Cl(q)' = "written" => Clean(cur[q])'
    BY <1>1, <1>13, <2>2, <2>4 DEF CleanOK
  <2>9. ASSUME NEW q \in InUse, head'[q] \notin posted' PROVE Clean(cur[q])'
    <3>1. CASE q = p
      BY <2>3, <3>1
    <3>2. CASE q # p
      <4>1. head[q] \notin posted
        BY <1>2, <1>7, <2>9, <3>2
      <4>2. Clean(cur[q]) /\ q \in Procs /\ Locked(q)
        BY <1>1, <4>1, RequestHas DEF CleanOK
      <4>3. QED
        BY <2>2, <3>2, <4>2
    <3>3. QED
      BY <3>1, <3>2
  <2>10. QED
    BY <1>13, <2>5, <2>6, <2>7, <2>8, <2>9 DEF CleanOK
<1>18. SleepersHaveWaker'
  <2>1. \A q \in Procs : pc'[q] = "lockSleep" => lock'[cur'[q]] # Nobody
    BY <1>1, <1>2 DEF SleepersHaveWaker
  <2>2. \A q \in Procs : pc'[q] \in {"descRead", "descWrite"} => InUse' # {}
    BY <1>1, <1>2, <1>13 DEF SleepersHaveWaker
  <2>3. ASSUME NEW q \in Procs, pc'[q] \in {"diskRead", "diskWrite"}
        PROVE  /\ buf'[cur'[q]].disk
               /\ head'[q] \in posted' \/ \E k \in 1 .. Len(used') : used'[k] = head'[q]
    <3>1. /\ buf[cur[q]].disk
          /\ head[q] \in posted \/ \E k \in 1 .. Len(used) : used[k] = head[q]
      BY <1>1, <1>2, <2>3 DEF SleepersHaveWaker
    <3>2. head[q] \in posted \cup UsedSet
      BY <3>1 DEF UsedSet
    <3>3. head'[q] \in posted' \cup UsedSet'
      BY <1>2, <1>15, <3>2
    <3>4. Locked(q)
      BY <1>2, <2>3 DEF Locked, Cl, Class
    <3>5. buf'[cur'[q]].disk
      <4>1. buf'[cur[q]].disk = buf[cur[q]].disk
        BY <1>9, <3>4, HolderHas DEF KeepsDisk
      <4>2. QED
        BY <1>2, <3>1, <4>1
    <3>6. QED
      BY <3>3, <3>5 DEF UsedSet
  <2>4. QED
    BY <1>2, <2>1, <2>2, <2>3 DEF SleepersHaveWaker
<1>19. QED
  BY <1>12, <1>14, <1>16, <1>17, <1>18 DEF BioInv

-----------------------------------------------------------------------------
(* virtio_disk_rw()                                                        *)

\* alloc3_desc() finds three descriptors when there are three.
LEMMA Lowest3Free ==
  ASSUME TypeOK, Cardinality(free) >= 3
  PROVE  \E a, b, c \in free : Lowest3 = <<a, b, c>> /\ a # b /\ a # c /\ b # c
<1>1. free \subseteq Descs /\ NUM \in Nat
  BY BioAssumption DEF TypeOK
<1>2. IsFiniteSet(free) /\ free \subseteq Nat /\ Cardinality(free) \in Nat
  <2>1. IsFiniteSet(Descs) /\ Descs \subseteq Nat
    BY SMT, <1>1, FS_Interval DEF Descs
  <2>2. IsFiniteSet(free)
    BY <1>1, <2>1, FS_Subset
  <2>3. QED
    BY <1>1, <2>1, <2>2, FS_CardinalityType
<1>3. ASSUME NEW S, S \subseteq free, S # {} PROVE First(S) \in S
  <2>1. S \subseteq Nat
    BY <1>2, <1>3
  <2>2. \E x \in S : \A y \in S : x <= y
    BY <1>3, <2>1, LeastNat
  <2>3. QED
    BY <2>2 DEF First
<1> DEFINE a == First(free)
           b == First(free \ {a})
           c == First(free \ {a, b})
<1>4. a \in free
  <2>1. free # {}
    BY SMT, <1>2, FS_EmptySet
  <2>2. QED
    BY <1>3, <2>1
<1>5. IsFiniteSet(free \ {a}) /\ Cardinality(free \ {a}) = Cardinality(free) - 1
  BY <1>2, <1>4, FS_RemoveElement
<1>6. b \in free \ {a}
  <2>1. free \ {a} # {}
    BY SMT, <1>2, <1>5, FS_EmptySet
  <2>2. QED
    BY <1>3, <2>1
<1>7. /\ IsFiniteSet((free \ {a}) \ {b})
      /\ Cardinality((free \ {a}) \ {b}) = Cardinality(free \ {a}) - 1
  BY <1>5, <1>6, FS_RemoveElement
<1>8. c \in free \ {a, b}
  <2>1. Cardinality((free \ {a}) \ {b}) # 0
    BY SMT, <1>2, <1>5, <1>7
  <2>2. (free \ {a}) \ {b} # {} /\ (free \ {a}) \ {b} = free \ {a, b}
    BY <1>7, <2>1, FS_EmptySet
  <2>3. QED
    BY <1>3, <2>2
<1>9. Lowest3 = <<a, b, c>>
  BY DEF Lowest3
<1>10. QED
  BY <1>4, <1>6, <1>8, <1>9

\* A request's chain is what it was unless the driver changes its descriptors.
LEMMA ChainKept ==
  ASSUME BioInv, NEW q \in InUse, head'[q] = head[q],
         \A d \in Chain(head[q]) : next'[d] = next[d]
  PROVE  Chain(head[q])' = Chain(head[q]) /\ ChainOK(head[q])' /\ head[q] \in Chain(head[q])
<1> DEFINE h == head[q]
<1>1. /\ h \in Descs /\ next[h] \in Descs /\ next[next[h]] \in Descs
      /\ next[next[next[h]]] = -1 /\ -1 \notin Descs
  <2>1. h \in Descs /\ ChainOK(h)
    BY RequestHas DEF BioInv, ChainsOK
  <2>2. -1 \notin Descs
    BY SMT DEF Descs
  <2>3. QED
    BY <2>1, <2>2 DEF ChainOK
<1>2. Chain(h) = {h, next[h], next[next[h]]}
  BY <1>1 DEF Chain
<1>3. next'[h] = next[h] /\ next'[next[h]] = next[next[h]] /\ next'[next[next[h]]] = -1
  BY <1>1, <1>2
<1>4. Chain(head[q])' = {h, next[h], next[next[h]]}
  BY <1>1, <1>3 DEF Chain
<1>5. ChainOK(head[q])'
  BY <1>1, <1>3 DEF ChainOK
<1>6. QED
  BY <1>2, <1>4, <1>5

\* A step of the driver for p, which holds its buffer before and after.
LEMMA HolderStep ==
  ASSUME BioInv, NEW p \in Procs, Locked(p), Locked(p)', UNCHANGED <<lock, pinned, cur, store>>,
         KeepsBlockno, KeepsRefcnt, KeepsData,
         \A j \in Bufs \ {cur[p]} : buf'[j].valid = buf[j].valid,
         buf'[cur[p]].valid <=> Cl(p)' \notin {"load", "in"},
         buf[cur[p]].valid => buf'[cur[p]].valid,
         Cl(p)' # "dirty", \A q \in Procs \ {p} : Cl(q)' = Cl(q),
         Cl(p)' \in {"held", "saved", "written"} \/ (buf'[cur[p]].valid /\ ~buf[cur[p]].valid)
           => Clean(cur[p]),
         \A q \in InUse' : head'[q] \notin posted' => q \in InUse /\ head[q] \notin posted
  PROVE  LocksOK' /\ CleanOK'
<1> DEFINE b == cur[p]
<1>1. LocksOK /\ CleanOK /\ pinned \subseteq Bufs /\ store \in [Blocks -> Data]
  BY DEF BioInv, TypeOK
<1>2. b \in Bufs /\ lock[b] = p /\ buf[b].blockno \in Blocks /\ b # 0
  <2>1. b \in Bufs /\ lock[b] = p /\ buf[b].blockno \in Blocks
    BY HolderHas
  <2>2. QED
    BY SMT, <2>1 DEF Bufs
<1>3. \A q \in Procs : Locked(q)' <=> Locked(q)
  BY DEF Locked
<1>4. \A q \in Procs : Locked(q) => cur[q] \in Bufs /\ (q # p => cur[q] # b)
  BY HolderHas, OneHolder
<1>5. LocksOK'
  <2>1. \A q \in Procs : cur'[q] = 0 <=> Cl(q)' \in {"idle", "panic"}
    <3>1. Cl(p)' \notin {"idle", "panic"}
      BY DEF Locked
    <3>2. QED
      BY SMT, <1>1, <1>2, <3>1 DEF LocksOK
  <2>2. \A q \in Procs, j \in Bufs : lock'[j] = q <=> cur'[q] = j /\ Locked(q)'
    BY <1>1, <1>3 DEF LocksOK
  <2>3. \A j \in Bufs : buf'[j].refcnt # 0 \/ buf'[j].valid => buf'[j].blockno # NoBlock
    BY SMT, <1>1, <1>2, BioAssumption DEF LocksOK, KeepsBlockno, KeepsRefcnt
  <2>4. \A j \in pinned' : buf'[j].valid
    BY <1>1 DEF LocksOK
  <2>5. \A q \in Procs : Locked(q)' => (buf'[cur'[q]].valid <=> Cl(q)' \notin {"load", "in"})
    BY SMT, <1>1, <1>3, <1>4 DEF LocksOK
  <2>6. \A q \in Procs : Cl(q)' = "dirty" => cur'[q] \notin pinned'
    BY <1>1 DEF LocksOK
  <2>7. QED
    BY <2>1, <2>2, <2>3, <2>4, <2>5, <2>6 DEF LocksOK
<1>6. CleanOK'
  <2>1. \A j \in Bufs : Clean(j)' <=> Clean(j)
    BY DEF Clean, KeepsData, KeepsBlockno
  <2>2. \A q \in Procs : Locked(q) => (Clean(cur[q])' <=> Clean(cur[q]))
    BY <1>4 DEF Clean, KeepsData, KeepsBlockno
  <2>3. \A j \in Bufs : buf'[j].valid => buf'[j].data \in Data
    <3>1. Clean(b) => buf[b].data \in Data
      BY <1>1, <1>2 DEF Clean
    <3>2. QED
      BY <1>1, <3>1 DEF CleanOK, KeepsData
  <2>4. \A j \in Bufs : buf'[j].valid /\ j \notin pinned' /\ lock'[j] = Nobody => Clean(j)'
    <3>1. lock'[b] # Nobody
      BY <1>2, BioAssumption
    <3>2. QED
      BY <1>1, <2>1, <3>1 DEF CleanOK
  <2>5. \A q \in Procs : Cl(q)' \in {"held", "saved", "written"} => Locked(q)
    BY <1>3 DEF Locked
  <2>6. \A q \in Procs : Cl(q)' \in {"held", "saved"} /\ cur'[q] \notin pinned' => Clean(cur[q])'
    BY <1>1, <2>2, <2>5 DEF CleanOK
  <2>7. \A q \in Procs : Cl(q)' = "written" => Clean(cur[q])'
    BY <1>1, <2>2, <2>5 DEF CleanOK
  <2>8. \A q \in InUse' : head'[q] \notin posted' => Clean(cur[q])'
    BY <1>1, <2>2, RequestHas DEF CleanOK
  <2>9. QED
    BY <2>3, <2>4, <2>6, <2>7, <2>8 DEF CleanOK
<1>7. QED
  BY <1>5, <1>6

\* virtio_disk_rw() formats and posts a request.
LEMMA RwPostStep ==
  ASSUME BioInv, NEW p \in Procs, RwPost(p)
  PROVE  BioInv'
<1> DEFINE b == cur[p]
<1>1. /\ TypeOK /\ OneBufferPerBlock /\ RefsCounted /\ LocksOK
      /\ RequestsOK /\ ChainsOK /\ CleanOK /\ SleepersHaveWaker
  BY DEF BioInv
<1>2. PICK h, d, e \in free : Lowest3 = <<h, d, e>> /\ h # d /\ h # e /\ d # e
  BY <1>1, Lowest3Free DEF RwPost
<1>3. /\ Lowest3[1] = h /\ Lowest3[2] = d /\ Lowest3[3] = e
  BY <1>2
<1>4. /\ free' = free \ {h, d, e} /\ next' = [next EXCEPT ![h] = d, ![d] = e, ![e] = -1]
      /\ req' = [req EXCEPT ![h] = [b |-> b, write |-> Writes(p), status |-> 255]]
      /\ posted' = posted \cup {h} /\ head' = [head EXCEPT ![p] = h]
      /\ buf' = [buf EXCEPT ![b].disk = TRUE]
      /\ UNCHANGED <<lru, lock, pinned, store, used, irq, intr, cur>>
  BY <1>3 DEF RwPost
<1>5. PICK label \in {"diskWrite", "diskRead"} :
        Goto(p, label) /\ (label = "diskWrite" <=> Writes(p)) /\ (Reads(p) \/ Writes(p))
  BY DEF RwPost
<1>6. /\ label \in PCs /\ Class("diskRead") = "in" /\ Class("diskWrite") = "out"
      /\ Cl(p) \notin {"in", "out"} /\ Locked(p) /\ (Cl(p) = "load" <=> ~Writes(p))
  BY <1>5 DEF PCs, Class, Cl, Locked, Reads, Writes
<1>7. /\ pc' \in [Procs -> PCs] /\ pc'[p] = label /\ Cl(p)' = Class(label)
      /\ \A q \in Procs \ {p} : pc'[q] = pc[q] /\ Cl(q)' = Cl(q)
  BY <1>1, <1>5, <1>6, AfterGoto
<1>8. /\ Cl(p)' \in {"in", "out"} /\ (Cl(p)' = "out" <=> Writes(p)) /\ Locked(p)'
  BY <1>5, <1>6, <1>7 DEF Locked
<1>9. b \in Bufs /\ {h, d, e} \subseteq Descs
  BY <1>1, <1>6, HolderHas DEF TypeOK
<1>10. /\ buf' \in [Bufs -> Buffer] /\ KeepsBlockno /\ KeepsValid /\ KeepsRefcnt /\ KeepsData
       /\ buf'[b].disk /\ \A j \in Bufs \ {b} : buf'[j].disk = buf[j].disk
  <2>1. buf \in [Bufs -> Buffer]
    BY <1>1 DEF TypeOK
  <2>2. buf' \in [Bufs -> Buffer]
    BY <1>4, <2>1 DEF Buffer
  <2>3. \A j \in Bufs \ {b} : buf'[j] = buf[j]
    BY <1>4, <2>1
  <2>4. /\ buf'[b].blockno = buf[b].blockno /\ buf'[b].valid = buf[b].valid
        /\ buf'[b].disk /\ buf'[b].refcnt = buf[b].refcnt /\ buf'[b].data = buf[b].data
    BY <1>4, <1>9, <2>1 DEF Buffer
  <2>5. QED
    BY <2>2, <2>3, <2>4 DEF KeepsBlockno, KeepsValid, KeepsData, KeepsRefcnt
<1>11. /\ head' \in [Procs -> Descs \cup {-1}] /\ head'[p] = h /\ h # -1
       /\ \A q \in Procs \ {p} : head'[q] = head[q]
  <2>1. head \in [Procs -> Descs \cup {-1}]
    BY <1>1 DEF TypeOK
  <2>2. QED
    BY SMT, <1>4, <1>9, <2>1 DEF Descs
<1>12. /\ next' \in [Descs -> Descs \cup {-1}]
       /\ next'[h] = d /\ next'[d] = e /\ next'[e] = -1
       /\ \A i \in Descs \ {h, d, e} : next'[i] = next[i]
  <2>1. next \in [Descs -> Descs \cup {-1}]
    BY <1>1 DEF TypeOK
  <2>2. QED
    BY <1>2, <1>4, <1>9, <2>1
<1>13. /\ req' \in [Descs -> Request] /\ req'[h].b = b /\ (req'[h].write <=> Writes(p))
       /\ \A i \in Descs \ {h} : req'[i] = req[i]
  <2>1. req \in [Descs -> Request]
    BY <1>1 DEF TypeOK
  <2>2. Writes(p) \in BOOLEAN
    BY DEF Writes
  <2>3. [b |-> b, write |-> Writes(p), status |-> 255] \in Request
    BY <1>9, <2>2 DEF Request
  <2>4. QED
    BY <1>4, <1>9, <2>1, <2>3
<1>14. TypeOK' /\ OneBufferPerBlock' /\ RefsCounted'
  <2>1. free' \in SUBSET Descs /\ posted' \in SUBSET Descs
    BY <1>1, <1>4, <1>9 DEF TypeOK
  <2>2. /\ lru' \in [Bufs -> Bufs] /\ (\A i \in Bufs : \E k \in Bufs : lru'[k] = i)
        /\ lock' \in [Bufs -> Procs \cup {Nobody}] /\ pinned' \in SUBSET Bufs
        /\ store' \in [Blocks -> Data] /\ used' \in Seq(Descs)
        /\ irq' \in BOOLEAN /\ intr' \in {"idle", "loop", "out"}
        /\ cur' \in [Procs -> Bufs \cup {0}]
    BY <1>1, <1>4 DEF TypeOK
  <2>3. TypeOK'
    BY <1>7, <1>10, <1>11, <1>12, <1>13, <2>1, <2>2 DEF TypeOK
  <2>4. QED
    BY <1>1, <1>4, <1>10, <2>3, SameBlocks, SameRefs
<1>15. p \notin InUse /\ InUse' = InUse \cup {p}
  <2>1. p \notin InUse
    BY <1>1, <1>6 DEF RequestsOK, InUse
  <2>2. QED
    BY <1>11, <2>1 DEF InUse
<1>16. ASSUME NEW q \in InUse
       PROVE  /\ q \in Procs \ {p} /\ head'[q] = head[q] /\ head[q] \in Descs \ {h, d, e}
              /\ cur[q] \in Bufs \ {b} /\ Chain(head[q]) \cap {h, d, e} = {}
              /\ Chain(head[q])' = Chain(head[q]) /\ ChainOK(head[q])'
  <2>1. q \in Procs \ {p} /\ head'[q] = head[q] /\ head[q] \in Descs /\ cur[q] \in Bufs \ {b}
    BY <1>6, <1>11, <1>15, RequestHas, OneHolder
  <2>2. Chain(head[q]) \cap free = {}
    BY <1>1 DEF ChainsOK
  <2>3. Chain(head[q]) \subseteq Descs
    <3>1. next \in [Descs -> Descs \cup {-1}]
      BY <1>1 DEF TypeOK
    <3>2. QED
      BY <2>1, <3>1 DEF Chain
  <2>4. \A i \in Chain(head[q]) : next'[i] = next[i] /\ i \notin {h, d, e}
    BY <1>12, <2>2, <2>3
  <2>5. /\ Chain(head[q])' = Chain(head[q]) /\ ChainOK(head[q])' /\ head[q] \in Chain(head[q])
    BY <2>1, <2>4, ChainKept
  <2>6. QED
    BY <2>1, <2>4, <2>5
<1>17. ChainsOK'
  <2>1. ChainOK(head[p])' /\ Chain(head[p])' = {h, d, e}
    <3>1. d # -1 /\ e # -1 /\ h # -1
      BY SMT, <1>9 DEF Descs
    <3>2. QED
      BY SMT, <1>9, <1>11, <1>12, <3>1 DEF ChainOK, Chain
  <2>2. \A q \in InUse' : ChainOK(head[q])'
    BY <1>15, <1>16, <2>1
  <2>3. ASSUME NEW q \in InUse' PROVE Chain(head[q])' \cap free' = {}
    <3>1. CASE q = p
      BY <1>4, <2>1, <3>1
    <3>2. CASE q \in InUse
      <4>1. Chain(head[q]) \cap free = {} /\ Chain(head[q])' = Chain(head[q])
        BY <1>1, <1>16, <3>2 DEF ChainsOK
      <4>2. QED
        BY <1>4, <4>1
    <3>3. QED
      BY <1>15, <3>1, <3>2
  <2>4. ASSUME NEW q \in InUse', NEW r \in InUse', q # r
        PROVE  Chain(head[q])' \cap Chain(head[r])' = {}
    <3>1. CASE q \in InUse /\ r \in InUse
      <4>1. Chain(head[q]) \cap Chain(head[r]) = {}
        BY <1>1, <2>4, <3>1 DEF ChainsOK
      <4>2. QED
        BY <1>16, <3>1, <4>1
    <3>2. CASE q = p /\ r \in InUse
      BY <1>16, <2>1, <3>2
    <3>3. CASE r = p /\ q \in InUse
      BY <1>16, <2>1, <3>3
    <3>4. QED
      BY <1>15, <2>4, <3>1, <3>2, <3>3
  <2>5. ASSUME NEW i \in Descs \ free' PROVE \E q \in InUse' : i \in Chain(head[q])'
    <3>1. CASE i \in {h, d, e}
      BY <1>15, <2>1, <3>1
    <3>2. CASE i \notin {h, d, e}
      <4>1. i \in Descs \ free
        BY <1>4, <2>5, <3>2
      <4>2. PICK q \in InUse : i \in Chain(head[q])
        BY <1>1, <4>1 DEF ChainsOK
      <4>3. QED
        BY <1>15, <1>16, <4>2
    <3>3. QED
      BY <3>1, <3>2
  <2>6. QED
    BY <2>2, <2>3, <2>4, <2>5 DEF ChainsOK
<1>18. UsedSet' = UsedSet /\ UsedOnce' /\ h \notin UsedSet /\ h \notin posted
  <2>1. used' = used /\ UsedOnce
    BY <1>1, <1>4 DEF RequestsOK
  <2>4. UsedSet' = UsedSet /\ UsedOnce'
    BY <2>1 DEF UsedSet, UsedOnce
  <2>2. ASSUME h \in posted \cup UsedSet PROVE FALSE
    <3>1. PICK q \in InUse : head[q] = h
      BY <1>1, <2>2 DEF RequestsOK
    <3>2. QED
      BY <1>16, <3>1
  <2>3. QED
    BY <2>2, <2>4
<1>19. RequestsOK'
  <2>1. \A q \in Procs : head'[q] # -1 <=> Cl(q)' \in {"in", "out"}
    BY <1>1, <1>7, <1>8, <1>11 DEF RequestsOK
  <2>2. ASSUME NEW q \in InUse'
        PROVE  req'[head'[q]].b = cur'[q] /\ (req'[head'[q]].write <=> Cl(q)' = "out")
    <3>1. CASE q = p
      BY <1>4, <1>8, <1>11, <1>13, <3>1
    <3>2. CASE q \in InUse
      <4>1. head'[q] = head[q] /\ req'[head[q]] = req[head[q]] /\ Cl(q)' = Cl(q)
        <5>1. head[q] \in Descs \ {h}
          BY <1>16, <3>2
        <5>2. QED
          BY <1>7, <1>13, <1>16, <3>2, <5>1
      <4>2. QED
        BY <1>1, <1>4, <3>2, <4>1 DEF RequestsOK
    <3>3. QED
      BY <1>15, <3>1, <3>2
  <2>3. posted' \cap UsedSet' = {}
    BY <1>1, <1>4, <1>18 DEF RequestsOK
  <2>4. ASSUME NEW i \in posted' \cup UsedSet' PROVE \E q \in InUse' : head'[q] = i
    <3>1. CASE i = h
      BY <1>11, <1>15, <3>1
    <3>2. CASE i # h
      <4>1. i \in posted \cup UsedSet
        BY <1>4, <1>18, <2>4, <3>2
      <4>2. PICK q \in InUse : head[q] = i
        BY <1>1, <4>1 DEF RequestsOK
      <4>3. QED
        BY <1>15, <1>16, <4>2
    <3>3. QED
      BY <3>1, <3>2
  <2>5. ASSUME NEW q \in InUse' PROVE buf'[cur'[q]].disk <=> head'[q] \in posted' \cup UsedSet'
    <3>1. CASE q = p
      BY <1>4, <1>10, <1>11, <3>1
    <3>2. CASE q \in InUse
      <4>1. buf'[cur[q]].disk = buf[cur[q]].disk /\ head'[q] = head[q] /\ head[q] # h
        BY <1>10, <1>16, <3>2
      <4>2. buf[cur[q]].disk <=> head[q] \in posted \cup UsedSet
        BY <1>1, <3>2 DEF RequestsOK
      <4>3. cur'[q] = cur[q] /\ (head[q] \in posted' \cup UsedSet' <=> head[q] \in posted \cup UsedSet)
        BY <1>4, <1>18, <4>1
      <4>4. QED
        BY <4>1, <4>2, <4>3
    <3>3. QED
      BY <1>15, <3>1, <3>2
  <2>6. QED
    BY <1>18, <2>1, <2>2, <2>3, <2>4, <2>5 DEF RequestsOK
<1>20. LocksOK' /\ CleanOK'
  <2>1. buf'[b].valid = buf[b].valid /\ \A j \in Bufs \ {b} : buf'[j].valid = buf[j].valid
    BY <1>9, <1>10 DEF KeepsValid
  <2>2. buf'[b].valid <=> Cl(p)' \notin {"load", "in"}
    <3>1. buf[b].valid <=> Cl(p) \notin {"load", "in"}
      BY <1>1, <1>6 DEF LocksOK
    <3>2. QED
      BY <1>6, <1>8, <2>1, <3>1
  <2>3. Cl(p)' \notin {"held", "saved", "written", "dirty"}
    BY <1>8
  <2>4. \A q \in InUse' : head'[q] \notin posted' => q \in InUse /\ head[q] \notin posted
    BY <1>4, <1>11, <1>15, <1>16
  <2>5. QED
    BY <1>4, <1>6, <1>7, <1>8, <1>10, <2>1, <2>2, <2>3, <2>4, HolderStep
<1>21. SleepersHaveWaker'
  <2>1. \A q \in Procs : pc'[q] = "lockSleep" => lock'[cur'[q]] # Nobody
    BY <1>1, <1>4, <1>5, <1>7 DEF SleepersHaveWaker
  <2>2. \A q \in Procs : pc'[q] \in {"descRead", "descWrite"} => InUse' # {}
    BY <1>15
  <2>3. ASSUME NEW q \in Procs, pc'[q] \in {"diskRead", "diskWrite"}
        PROVE  /\ buf'[cur'[q]].disk
               /\ head'[q] \in posted' \/ \E k \in 1 .. Len(used') : used'[k] = head'[q]
    <3>1. q \in InUse'
      <4>1. Cl(q)' \in {"in", "out"}
        BY <2>3 DEF Cl, Class
      <4>2. QED
        BY <1>19, <4>1 DEF RequestsOK, InUse
    <3>2. CASE q = p
      BY <1>4, <1>10, <1>11, <3>2
    <3>3. CASE q # p
      <4>1. q \in InUse /\ pc[q] = pc'[q]
        BY <1>7, <1>15, <3>1, <3>3
      <4>2. /\ buf[cur[q]].disk
            /\ head[q] \in posted \/ \E k \in 1 .. Len(used) : used[k] = head[q]
        BY <1>1, <2>3, <4>1 DEF SleepersHaveWaker
      <4>3. buf'[cur'[q]].disk
        BY <1>4, <1>10, <1>16, <4>1, <4>2
      <4>4. head'[q] = head[q]
        BY <1>16, <4>1
      <4>5. used' = used /\ posted \subseteq posted'
        BY <1>4
      <4>6. QED
        BY <4>2, <4>3, <4>4, <4>5
    <3>4. QED
      BY <3>2, <3>3
  <2>4. used' # << >> => irq' \/ intr' = "loop"
    BY <1>1, <1>4 DEF SleepersHaveWaker
  <2>5. QED
    BY <2>1, <2>2, <2>3, <2>4 DEF SleepersHaveWaker
<1>22. QED
  BY <1>14, <1>17, <1>19, <1>20, <1>21 DEF BioInv

-----------------------------------------------------------------------------
(* The other steps, and what the invariant gives                           *)

\* virtio_disk_rw() and bread() finish a request that the interrupt reported.
LEMMA RwDoneStep ==
  ASSUME BioInv, NEW p \in Procs, RwDone(p)
  PROVE  BioInv'
<1> DEFINE b == cur[p]
           h == head[p]
<1>1. /\ TypeOK /\ OneBufferPerBlock /\ RefsCounted /\ LocksOK
      /\ RequestsOK /\ ChainsOK /\ CleanOK /\ SleepersHaveWaker
  BY DEF BioInv
<1>2. /\ pc[p] \in {"doneRead", "doneWrite"} /\ ~buf[b].disk
      /\ req' = [req EXCEPT ![h] = NoReq]
      /\ next' = [i \in Descs |-> IF i \in Chain(h) THEN -1 ELSE next[i]]
      /\ free' = free \cup Chain(h) /\ buf' = [buf EXCEPT ![b].valid = TRUE]
      /\ head' = [head EXCEPT ![p] = -1]
      /\ UNCHANGED <<lru, lock, pinned, store, posted, used, irq, intr, cur>>
  BY DEF RwDone
<1>3. PICK label \in {"held", "written", "saved"} : WakeDesc(p, label)
  BY DEF RwDone
<1>4. /\ label \in PCs /\ label \notin Asleep /\ Class(label) = label
      /\ Cl(p) \in {"in", "out"} /\ Locked(p)
  BY <1>2, <1>3 DEF PCs, Asleep, Class, Cl, Locked
<1>5. /\ pc' \in [Procs -> PCs] /\ pc'[p] = label /\ Cl(p)' = label
      /\ \A q \in Procs \ {p} : /\ Cl(q)' = Cl(q)
                                /\ pc'[q] \in Asleep =>
                                     pc'[q] = pc[q] /\ pc[q] \notin {"descRead", "descWrite"}
  <2> DEFINE W == {q \in Procs : pc[q] \in {"descRead", "descWrite"}}
  <2>1. \A q \in W : q \in Procs /\ pc[q] \in Asleep
    BY DEF Asleep
  <2>2. GotoWaking(p, label, W)
    BY <1>3 DEF WakeDesc
  <2>3. \A q \in Procs : q \notin W => pc[q] \notin {"descRead", "descWrite"}
    OBVIOUS
  <2> HIDE DEF W
  <2>4. /\ pc' \in [Procs -> PCs] /\ pc'[p] = label /\ Cl(p)' = Class(label)
        /\ \A q \in Procs \ {p} : /\ Cl(q)' = Cl(q)
                                  /\ q \in W => pc'[q] \notin Asleep
                                  /\ q \notin W => pc'[q] = pc[q]
    BY <1>1, <1>4, <2>1, <2>2, AfterWaking
  <2>5. QED
    BY <1>4, <2>3, <2>4
<1>6. Locked(p)' /\ Cl(p)' \notin {"in", "out", "load", "dirty"}
  BY <1>3, <1>5 DEF Locked
<1>7. p \in InUse /\ b \in Bufs /\ h \in Descs /\ h \notin posted \cup UsedSet /\ buf[b].blockno \in Blocks
  <2>1. p \in InUse
    BY <1>1, <1>4 DEF InUse, RequestsOK
  <2>2. h \notin posted \cup UsedSet
    BY <1>1, <1>2, <2>1 DEF RequestsOK
  <2>3. QED
    BY <2>1, <2>2, RequestHas
<1>8. Clean(b)
  <2>1. h \notin posted
    BY <1>7
  <2>2. QED
    BY <1>1, <1>7, <2>1 DEF CleanOK
<1>9. /\ buf' \in [Bufs -> Buffer] /\ KeepsBlockno /\ KeepsDisk /\ KeepsRefcnt /\ KeepsData
      /\ buf'[b].valid /\ \A j \in Bufs \ {b} : buf'[j].valid = buf[j].valid
  <2>1. buf \in [Bufs -> Buffer]
    BY <1>1 DEF TypeOK
  <2>2. buf' \in [Bufs -> Buffer]
    BY <1>2, <2>1 DEF Buffer
  <2>3. \A j \in Bufs \ {b} : buf'[j] = buf[j]
    BY <1>2, <2>1
  <2>4. /\ buf'[b].blockno = buf[b].blockno /\ buf'[b].valid /\ buf'[b].disk = buf[b].disk
        /\ buf'[b].refcnt = buf[b].refcnt /\ buf'[b].data = buf[b].data
    BY <1>2, <1>7, <2>1 DEF Buffer
  <2>5. QED
    BY <2>2, <2>3, <2>4 DEF KeepsBlockno, KeepsDisk, KeepsData, KeepsRefcnt
<1>10. /\ head' \in [Procs -> Descs \cup {-1}] /\ head'[p] = -1
       /\ \A q \in Procs \ {p} : head'[q] = head[q]
  <2>1. head \in [Procs -> Descs \cup {-1}]
    BY <1>1 DEF TypeOK
  <2>2. QED
    BY <1>2, <2>1
<1>11. /\ next' \in [Descs -> Descs \cup {-1}]
       /\ \A i \in Descs \ Chain(h) : next'[i] = next[i]
  <2>1. next \in [Descs -> Descs \cup {-1}]
    BY <1>1 DEF TypeOK
  <2>2. QED
    BY <1>2, <2>1
<1>12. req' \in [Descs -> Request] /\ \A i \in Descs \ {h} : req'[i] = req[i]
  <2>1. req \in [Descs -> Request]
    BY <1>1 DEF TypeOK
  <2>2. NoReq \in Request
    BY DEF NoReq, Request
  <2>3. QED
    BY <1>2, <1>7, <2>1, <2>2
<1>13. \A q \in InUse : Chain(head[q]) \subseteq Descs
  <2>1. next \in [Descs -> Descs \cup {-1}]
    BY <1>1 DEF TypeOK
  <2>2. QED
    BY <2>1, RequestHas DEF Chain
<1>14. TypeOK' /\ OneBufferPerBlock' /\ RefsCounted'
  <2>1. free' \in SUBSET Descs
    BY <1>1, <1>2, <1>7, <1>13 DEF TypeOK
  <2>2. /\ lru' \in [Bufs -> Bufs] /\ (\A i \in Bufs : \E k \in Bufs : lru'[k] = i)
        /\ lock' \in [Bufs -> Procs \cup {Nobody}] /\ pinned' \in SUBSET Bufs
        /\ store' \in [Blocks -> Data] /\ posted' \in SUBSET Descs /\ used' \in Seq(Descs)
        /\ irq' \in BOOLEAN /\ intr' \in {"idle", "loop", "out"}
        /\ cur' \in [Procs -> Bufs \cup {0}]
    BY <1>1, <1>2 DEF TypeOK
  <2>3. TypeOK'
    BY <1>5, <1>9, <1>10, <1>11, <1>12, <2>1, <2>2 DEF TypeOK
  <2>4. QED
    BY <1>1, <1>2, <1>9, <2>3, SameBlocks, SameRefs
<1>15. InUse' = InUse \ {p}
  BY <1>10 DEF InUse
<1>16. ASSUME NEW q \in InUse, q # p
       PROVE  /\ q \in Procs \ {p} /\ head'[q] = head[q] /\ head[q] \in Descs \ {h}
              /\ cur[q] \in Bufs /\ Chain(head[q]) \cap Chain(h) = {}
              /\ Chain(head[q])' = Chain(head[q]) /\ ChainOK(head[q])'
  <2>1. q \in Procs \ {p} /\ head'[q] = head[q] /\ head[q] \in Descs \ {h} /\ cur[q] \in Bufs
    <3>1. q \in Procs /\ head[q] \in Descs /\ cur[q] \in Bufs
      BY RequestHas
    <3>2. head[q] # h
      BY <1>7, <1>16, RequestsDiffer
    <3>3. QED
      BY <1>10, <1>16, <3>1, <3>2
  <2>2. Chain(head[q]) \cap Chain(h) = {}
    BY <1>1, <1>7, <1>16 DEF ChainsOK
  <2>3. \A i \in Chain(head[q]) : next'[i] = next[i]
    BY <1>11, <1>13, <2>2
  <2>4. Chain(head[q])' = Chain(head[q]) /\ ChainOK(head[q])'
    BY <2>1, <2>3, ChainKept
  <2>5. QED
    BY <2>1, <2>2, <2>4
<1>17. ChainsOK'
  <2>1. \A q \in InUse' : ChainOK(head[q])'
    BY <1>15, <1>16
  <2>2. ASSUME NEW q \in InUse' PROVE Chain(head[q])' \cap free' = {}
    <3>1. q \in InUse /\ q # p
      BY <1>15
    <3>2. Chain(head[q]) \cap free = {} /\ Chain(head[q])' = Chain(head[q]) /\ Chain(head[q]) \cap Chain(h) = {}
      BY <1>1, <1>16, <3>1 DEF ChainsOK
    <3>3. QED
      BY <1>2, <3>2
  <2>3. ASSUME NEW q \in InUse', NEW r \in InUse', q # r
        PROVE  Chain(head[q])' \cap Chain(head[r])' = {}
    <3>1. q \in InUse /\ q # p /\ r \in InUse /\ r # p
      BY <1>15
    <3>2. Chain(head[q]) \cap Chain(head[r]) = {}
      BY <1>1, <2>3, <3>1 DEF ChainsOK
    <3>3. QED
      BY <1>16, <3>1, <3>2
  <2>4. ASSUME NEW i \in Descs \ free' PROVE \E q \in InUse' : i \in Chain(head[q])'
    <3>1. i \in Descs \ free /\ i \notin Chain(h)
      BY <1>2, <2>4
    <3>2. PICK q \in InUse : i \in Chain(head[q])
      BY <1>1, <3>1 DEF ChainsOK
    <3>3. q # p
      BY <3>1, <3>2
    <3>4. Chain(head[q])' = Chain(head[q]) /\ q \in InUse'
      BY <1>15, <1>16, <3>3
    <3>5. QED
      BY <3>2, <3>4
  <2>5. QED
    BY <2>1, <2>2, <2>3, <2>4 DEF ChainsOK
<1>18. UsedSet' = UsedSet /\ (UsedOnce' <=> UsedOnce)
  <2>1. used' = used
    BY <1>2
  <2>2. QED
    BY <2>1 DEF UsedSet, UsedOnce
<1>19. RequestsOK'
  <2>1. \A q \in Procs : head'[q] # -1 <=> Cl(q)' \in {"in", "out"}
    BY <1>1, <1>5, <1>6, <1>10 DEF RequestsOK
  <2>2. ASSUME NEW q \in InUse'
        PROVE  /\ req'[head'[q]].b = cur'[q] /\ (req'[head'[q]].write <=> Cl(q)' = "out")
               /\ buf'[cur'[q]].disk <=> head'[q] \in posted' \cup UsedSet'
    <3>1. q \in InUse /\ q # p
      BY <1>15
    <3>2. /\ head'[q] = head[q] /\ req'[head[q]] = req[head[q]] /\ Cl(q)' = Cl(q)
          /\ buf'[cur[q]].disk = buf[cur[q]].disk
      BY <1>5, <1>9, <1>12, <1>16, <3>1 DEF KeepsDisk
    <3>3. QED
      BY SMT, <1>1, <1>2, <1>18, <3>1, <3>2 DEF RequestsOK
  <2>3. posted' \cap UsedSet' = {} /\ UsedOnce'
    BY <1>1, <1>2, <1>18 DEF RequestsOK
  <2>4. ASSUME NEW i \in posted' \cup UsedSet' PROVE \E q \in InUse' : head'[q] = i
    <3>1. i \in posted \cup UsedSet /\ i # h
      BY <1>2, <1>7, <1>18
    <3>2. PICK q \in InUse : head[q] = i
      BY <1>1, <3>1 DEF RequestsOK
    <3>3. q # p
      BY <3>1, <3>2
    <3>4. q \in InUse' /\ head'[q] = head[q]
      BY <1>15, <1>16, <3>3
    <3>5. QED
      BY <3>2, <3>4
  <2>5. QED
    BY <2>1, <2>2, <2>3, <2>4 DEF RequestsOK
<1>20. LocksOK' /\ CleanOK'
  <2>1. buf'[b].valid <=> Cl(p)' \notin {"load", "in"}
    BY <1>6, <1>9
  <2>2. Cl(p)' # "dirty"
    BY <1>6
  <2>3. \A q \in InUse' : head'[q] \notin posted' => q \in InUse /\ head[q] \notin posted
    BY SMT, <1>2, <1>15, <1>16
  <2>4. QED
    BY <1>2, <1>4, <1>5, <1>6, <1>8, <1>9, <2>1, <2>2, <2>3, HolderStep
<1>21. SleepersHaveWaker'
  <2>1. \A q \in Procs : pc'[q] \in Asleep =>
          q # p /\ pc'[q] = pc[q] /\ pc[q] \notin {"descRead", "descWrite"}
    BY <1>4, <1>5
  <2>2. ASSUME NEW q \in Procs, pc'[q] = "lockSleep" PROVE lock'[cur'[q]] # Nobody
    <3>1. pc[q] = "lockSleep"
      BY <2>1, <2>2 DEF Asleep
    <3>2. QED
      BY <1>1, <1>2, <3>1 DEF SleepersHaveWaker
  <2>3. \A q \in Procs : pc'[q] \notin {"descRead", "descWrite"}
    BY <2>1 DEF Asleep
  <2>4. ASSUME NEW q \in Procs, pc'[q] \in {"diskRead", "diskWrite"}
        PROVE  /\ buf'[cur'[q]].disk
               /\ head'[q] \in posted' \/ \E k \in 1 .. Len(used') : used'[k] = head'[q]
    <3>1. q # p /\ pc'[q] = pc[q]
      BY <2>1, <2>4 DEF Asleep
    <3>2. /\ buf[cur[q]].disk
          /\ head[q] \in posted \/ \E k \in 1 .. Len(used) : used[k] = head[q]
      BY <1>1, <2>4, <3>1 DEF SleepersHaveWaker
    <3>3. Locked(q)
      BY <2>4, <3>1 DEF Locked, Cl, Class
    <3>4. buf'[cur[q]].disk = buf[cur[q]].disk /\ head'[q] = head[q]
      BY <1>9, <1>10, <3>1, <3>3, HolderHas DEF KeepsDisk
    <3>5. QED
      BY SMT, <1>2, <3>2, <3>4
  <2>5. used' # << >> => irq' \/ intr' = "loop"
    BY <1>1, <1>2 DEF SleepersHaveWaker
  <2>6. QED
    BY <2>2, <2>3, <2>4, <2>5 DEF SleepersHaveWaker
<1>22. QED
  BY <1>14, <1>17, <1>19, <1>20, <1>21 DEF BioInv

-----------------------------------------------------------------------------
(* The invariant                                                           *)

\* binit() and virtio_disk_init() establish the invariant.
LEMMA BioInitInv == Init => BioInv
<1> SUFFICES ASSUME Init PROVE BioInv
  OBVIOUS
<1>1. NBUF \in Nat /\ NUM \in Nat /\ Nobody \notin Procs /\ store0 \in [Blocks -> Data]
  BY BioAssumption
<1>2. TypeOK
  <2>1. buf \in [Bufs -> Buffer] /\ req \in [Descs -> Request] /\ pc \in [Procs -> PCs]
    BY DEF Init, Buffer, Request, NoReq, PCs
  <2>2. lru \in [Bufs -> Bufs] /\ \A i \in Bufs : \E k \in Bufs : lru[k] = i
    <3>1. lru \in [Bufs -> Bufs]
      BY SMT, <1>1 DEF Init, Bufs
    <3>2. ASSUME NEW i \in Bufs PROVE \E k \in Bufs : lru[k] = i
      <4>1. NBUF + 1 - i \in Bufs /\ lru[NBUF + 1 - i] = i
        BY SMT, <1>1 DEF Init, Bufs
      <4>2. QED
        BY <4>1
    <3>3. QED
      BY <3>1, <3>2
  <2>3. /\ lock \in [Bufs -> Procs \cup {Nobody}] /\ next \in [Descs -> Descs \cup {-1}]
        /\ cur \in [Procs -> Bufs \cup {0}] /\ head \in [Procs -> Descs \cup {-1}]
    BY DEF Init
  <2>4. /\ pinned \in SUBSET Bufs /\ store \in [Blocks -> Data] /\ free \in SUBSET Descs
        /\ posted \in SUBSET Descs /\ irq \in BOOLEAN /\ intr \in {"idle", "loop", "out"}
    BY <1>1 DEF Init
  <2>5. used \in Seq(Descs)
    BY SMT DEF Init
  <2>6. QED
    BY <2>1, <2>2, <2>3, <2>4, <2>5 DEF TypeOK
<1>3. /\ \A p \in Procs : Cl(p) = "idle" /\ ~Locked(p) /\ cur[p] = 0 /\ head[p] = -1
      /\ \A i \in Bufs : /\ buf[i].blockno = NoBlock /\ ~buf[i].valid /\ buf[i].refcnt = 0
                         /\ lock[i] = Nobody /\ i # 0
      /\ pinned = {} /\ posted = {} /\ used = << >> /\ free = Descs
  BY SMT DEF Init, Cl, Class, Locked, Bufs
<1>4. InUse = {} /\ UsedSet = {} /\ UsedOnce
  BY SMT, <1>3 DEF InUse, UsedSet, UsedOnce
<1>5. OneBufferPerBlock /\ RefsCounted
  <2>1. ASSUME NEW i \in Bufs PROVE Cardinality(Users(i)) = 0
    <3>1. Users(i) = {}
      BY <1>3 DEF Users
    <3>2. QED
      BY <3>1, FS_EmptySet
  <2>2. QED
    BY SMT, <1>3, <2>1 DEF OneBufferPerBlock, RefsCounted
<1>6. LocksOK /\ RequestsOK /\ ChainsOK /\ CleanOK
  <2>1. LocksOK
    BY <1>1, <1>3 DEF LocksOK
  <2>2. RequestsOK
    BY <1>3, <1>4 DEF RequestsOK
  <2>3. ChainsOK
    BY <1>3, <1>4 DEF ChainsOK
  <2>4. CleanOK
    BY <1>3, <1>4 DEF CleanOK
  <2>5. QED
    BY <2>1, <2>2, <2>3, <2>4
<1>7. SleepersHaveWaker
  <2>1. \A p \in Procs : pc[p] = "idle"
    BY DEF Init
  <2>2. QED
    BY <1>3, <2>1 DEF SleepersHaveWaker
<1>8. QED
  BY <1>2, <1>5, <1>6, <1>7 DEF BioInv

\* Every step preserves the invariant.
LEMMA BioNextInv == BioInv /\ [Next]_vars => BioInv'
<1> SUFFICES ASSUME BioInv, [Next]_vars PROVE BioInv'
  OBVIOUS
<1>1. CASE \E p \in Procs : Step(p)
  <2>1. PICK p \in Procs : Step(p)
    BY <1>1
  <2>2. CASE Acquire(p)
    BY <2>2, AcquireStep
  <2>3. CASE AcquireSleep(p)
    BY <2>3, AcquireSleepStep
  <2>4. CASE Release(p)
    BY <2>4, ReleaseStep
  <2>5. CASE Brelse(p)
    BY <2>5, BrelseStep
  <2>6. CASE Bpin(p) \/ Bunpin(p)
    BY <2>6, PinStep
  <2>7. CASE Kill(p)
    BY <2>7, KillPanicStep
  <2>8. CASE RwSleep(p)
    BY <2>8, RwSleepStep
  <2>9. CASE RwPost(p)
    BY <2>9, RwPostStep
  <2>10. CASE RwSleepAgain(p)
    BY <2>10, RwSleepAgainStep
  <2>11. CASE RwDone(p)
    BY <2>11, RwDoneStep
  <2>12. QED
    BY <2>1, <2>2, <2>3, <2>4, <2>5, <2>6, <2>7, <2>8, <2>9, <2>10, <2>11 DEF Step
<1>2. CASE \E p \in Procs, b \in Blocks : BgetHit(p, b) \/ BgetMiss(p, b)
  BY <1>2, BgetStep
<1>3. CASE \E p \in Procs, b \in Blocks : BgetPanic(p, b)
  BY <1>3, KillPanicStep
<1>4. CASE \E p \in Procs, d \in Data : Modify(p, d)
  BY <1>4, ModifyStep
<1>5. CASE \E i \in Descs : Device(i)
  BY <1>5, DeviceStep
<1>6. CASE Intr
  <2>1. CASE IntrEntry
    BY <2>1, IntrEntryStep
  <2>2. CASE IntrAck \/ IntrLoopEnd \/ IntrReturn
    BY <2>2, IntrStep
  <2>3. QED
    BY <1>6, <2>1, <2>2 DEF Intr
<1>7. CASE UNCHANGED vars
  <2>1. UNCHANGED <<cacheVars, store, free, next, req, posted, used, cur, head, pc, irq, intr>>
    BY <1>7 DEF vars, diskVars, procVars
  <2>2. TypeOK /\ SleepersHaveWaker
    BY DEF BioInv
  <2>3. pc' \in [Procs -> PCs] /\ irq' \in BOOLEAN /\ intr' \in {"idle", "loop", "out"}
    BY <2>1, <2>2 DEF TypeOK
  <2>4. \A q \in Procs : Cl(q)' = Cl(q)
    BY <2>1 DEF Cl
  <2>5. SleepersHaveWaker'
    BY <2>1, <2>2 DEF SleepersHaveWaker, InUse, cacheVars
  <2>6. QED
    BY <2>1, <2>3, <2>4, <2>5, PcStep
<1>8. QED
  BY <1>1, <1>2, <1>3, <1>4, <1>5, <1>6, <1>7 DEF Next

\* The buffer cache and the disk driver keep their invariant whatever the number
\* of buffers, descriptors, blocks and processes: locks, references, requests,
\* descriptors and the blocks on disk agree.
THEOREM BioInvariant == Spec => []BioInv
BY BioInitInv, BioNextInv, PTL DEF Spec

\* No wakeup is lost in acquiresleep(), virtio_disk_rw() and virtio_disk_intr().
THEOREM BioSleepersWaited == Spec => []SleepersHaveWaker
<1>1. BioInv => SleepersHaveWaker
  BY DEF BioInv
<1>2. QED
  BY <1>1, BioInvariant, PTL

\* bget() panics only when the processes and the log between them use every buffer.
THEOREM BioBuffersLeft == Spec => []NeverOutOfBuffers
<1>1. ASSUME BioInv PROVE NeverOutOfBuffers
  <2> DEFINE A == {p \in Procs : cur[p] # 0}
             B == {cur[p] : p \in A}
             f == [p \in A |-> cur[p]]
  <2>1. SUFFICES ASSUME Unused = {} PROVE Cardinality(A) + Cardinality(pinned) >= NBUF
    <3>1. IsFiniteSet(A) /\ IsFiniteSet(pinned)
      <4>1. A \subseteq Procs /\ pinned \subseteq Bufs
        BY <1>1 DEF BioInv, TypeOK
      <4>2. IsFiniteSet(Procs) /\ IsFiniteSet(Bufs)
        BY SMT, BioAssumption, FS_Interval DEF Bufs
      <4>3. QED
        BY <4>1, <4>2, FS_Subset
    <3>2. Cardinality(A) \in Nat /\ Cardinality(pinned) \in Nat /\ NBUF \in Nat
      BY <3>1, FS_CardinalityType, BioAssumption
    <3> HIDE DEF A
    <3>3. ~(Cardinality(A) + Cardinality(pinned) < NBUF) \/ Unused # {}
      BY SMT, <2>1, <3>2
    <3>4. QED
      BY <3>3 DEF NeverOutOfBuffers, A
  <2>2. /\ IsFiniteSet(A) /\ IsFiniteSet(pinned) /\ IsFiniteSet(Bufs)
        /\ Cardinality(Bufs) = NBUF /\ NBUF \in Nat
    <3>1. A \subseteq Procs /\ pinned \subseteq Bufs
      BY <1>1 DEF BioInv, TypeOK
    <3>2. IsFiniteSet(Procs) /\ NBUF \in Nat
      BY BioAssumption
    <3>3. IsFiniteSet(Bufs) /\ Cardinality(Bufs) = NBUF
      BY SMT, <3>2, FS_Interval DEF Bufs
    <3>4. QED
      BY <3>1, <3>2, <3>3, FS_Subset
  <2>3. IsFiniteSet(B) /\ Cardinality(B) <= Cardinality(A)
    <3>1. f \in Surjection(A, B)
      BY DEF Surjection
    <3>2. QED
      BY <2>2, <3>1, FS_Surjection
  <2>4. ASSUME NEW i \in Bufs PROVE i \in B \cup pinned
    <3>1. PICK k \in Bufs : lru[k] = i
      BY <1>1 DEF BioInv, TypeOK
    <3>2. buf[i].refcnt # 0
      BY <2>1, <3>1 DEF Unused
    <3>3. i \notin pinned => Cardinality(Users(i)) # 0
      BY SMT, <1>1, <3>2, UsersFinite DEF BioInv, RefsCounted
    <3>4. i \notin pinned => Users(i) # {}
      BY <3>3, FS_EmptySet
    <3>5. i # 0
      BY SMT DEF Bufs
    <3>6. QED
      BY <3>4, <3>5 DEF Users
  <2> HIDE DEF A, B
  <2>5. Cardinality(Bufs) <= Cardinality(B \cup pinned) /\ IsFiniteSet(B \cup pinned)
    <3>1. Bufs \subseteq B \cup pinned /\ IsFiniteSet(B \cup pinned)
      BY <2>2, <2>3, <2>4, FS_Union
    <3>2. QED
      BY <3>1, FS_Subset
  <2>6. /\ Cardinality(B \cup pinned) = Cardinality(B) + Cardinality(pinned) - Cardinality(B \cap pinned)
        /\ IsFiniteSet(B \cap pinned)
    BY <2>2, <2>3, FS_Union, FS_Intersection
  <2>7. /\ Cardinality(A) \in Nat /\ Cardinality(B) \in Nat /\ Cardinality(pinned) \in Nat
        /\ Cardinality(B \cap pinned) \in Nat /\ Cardinality(B \cup pinned) \in Nat
    BY <2>2, <2>3, <2>5, <2>6, FS_CardinalityType
  <2>8. QED
    BY SMT, <2>2, <2>3, <2>5, <2>6, <2>7
<1>2. QED
  BY <1>1, BioInvariant, PTL

\* alloc3_desc() and free_chain() lose no descriptor and give none away twice: the
\* requests in progress have three each, and all others are free.
THEOREM BioDescriptors == Spec => []ChainsPartition
<1>1. ASSUME BioInv PROVE ChainsPartition
  <2>1. ASSUME NEW p \in InUse PROVE Cardinality(Chain(head[p])) = 3 /\ Chain(head[p]) \subseteq Descs
    <3> DEFINE h == head[p]
               d == next[h]
               e == next[d]
    <3>1. h \in Descs /\ d \in Descs /\ e \in Descs /\ next[e] = -1 /\ -1 \notin Descs
      BY SMT, <1>1, RequestHas DEF BioInv, ChainsOK, ChainOK, Descs
    <3>2. h # d /\ h # e /\ d # e
      BY <3>1
    <3>3. Chain(h) = ({h} \cup {d}) \cup {e}
      BY <3>1 DEF Chain
    <3> HIDE DEF h, d, e
    <3>4. IsFiniteSet({h}) /\ Cardinality({h}) = 1
      BY FS_Singleton
    <3>5. IsFiniteSet({h} \cup {d}) /\ Cardinality({h} \cup {d}) = 2
      BY SMT, <3>2, <3>4, FS_AddElement
    <3>6. Cardinality(({h} \cup {d}) \cup {e}) = 3
      BY SMT, <3>2, <3>5, FS_AddElement
    <3>7. QED
      BY <3>1, <3>3, <3>6 DEF h
  <2>2. \A p \in InUse : req[head[p]].b = cur[p]
    BY <1>1 DEF BioInv, RequestsOK
  <2>3. \A p, q \in InUse : p # q => Chain(head[p]) \cap Chain(head[q]) = {}
    BY <1>1 DEF BioInv, ChainsOK
  <2>4. Descs \ free = UNION {Chain(head[p]) : p \in InUse}
    <3>1. \A i \in Descs \ free : \E p \in InUse : i \in Chain(head[p])
      BY <1>1 DEF BioInv, ChainsOK
    <3>2. ASSUME NEW p \in InUse, NEW i \in Chain(head[p]) PROVE i \in Descs \ free
      <4>1. Chain(head[p]) \cap free = {}
        BY <1>1 DEF BioInv, ChainsOK
      <4>2. QED
        BY <2>1, <4>1
    <3>3. QED
      BY <3>1, <3>2
  <2>5. QED
    BY <2>1, <2>2, <2>3, <2>4 DEF ChainsPartition
<1>2. QED
  BY <1>1, BioInvariant, PTL

-----------------------------------------------------------------------------
(* The cache implements BlockSpec                                          *)

\* Buffer i holds the content of block b.
Holds(i, b) == buf[i].blockno = b /\ buf[i].valid

\* What the cache promises of a block is what its one valid buffer says, if there
\* is one, and otherwise what the disk says.
Abstracts ==
  \A b \in Blocks :
    /\ \A i \in Bufs : Holds(i, b) => Content[b] = buf[i].data /\ User[b] = lock[i]
    /\ (\A i \in Bufs : ~Holds(i, b)) => Content[b] = store[b] /\ User[b] = Nobody

\* BioInv is what makes the abstraction well defined.
LEMMA AbstractBlock == BioInv => Abstracts
<1> SUFFICES ASSUME BioInv, NEW b \in Blocks
             PROVE  /\ \A i \in Bufs : Holds(i, b) => Content[b] = buf[i].data /\ User[b] = lock[i]
                    /\ (\A i \in Bufs : ~Holds(i, b)) => Content[b] = store[b] /\ User[b] = Nobody
  BY DEF Abstracts
<1> DEFINE has(p) == /\ cur[p] # 0 /\ buf[cur[p]].blockno = b
                     /\ lock[cur[p]] = p /\ buf[cur[p]].valid
<1>1. b # NoBlock /\ Nobody \notin Procs
  BY BioAssumption
<1>2. /\ Content[b] = IF \E i \in Cached(b) : buf[i].valid
                      THEN buf[CHOOSE i \in Cached(b) : buf[i].valid].data ELSE store[b]
      /\ User[b] = IF \E p \in Procs : has(p)
                   THEN CHOOSE p \in Procs : /\ cur[p] # 0 /\ buf[cur[p]].blockno = b
                                             /\ lock[cur[p]] = p
                   ELSE Nobody
  BY DEF Content, User
<1>3. \A i, j \in Bufs : buf[i].blockno = b /\ buf[j].blockno = b => i = j
  BY <1>1 DEF BioInv, OneBufferPerBlock
<1>4. \A p \in Procs : cur[p] # 0 => cur[p] \in Bufs
  BY UserHasBlock
<1>5. ASSUME NEW i \in Bufs, Holds(i, b) PROVE Content[b] = buf[i].data /\ User[b] = lock[i]
  <2>1. i \in Cached(b) /\ buf[i].valid /\ \A j \in Cached(b) : j = i
    BY <1>3, <1>5 DEF Cached, Holds
  <2>2. Content[b] = buf[i].data
    BY <1>2, <2>1
  <2>3. lock[i] \in Procs \cup {Nobody}
    BY <1>5 DEF BioInv, TypeOK
  <2>4. \A p \in Procs : cur[p] # 0 /\ buf[cur[p]].blockno = b /\ lock[cur[p]] = p => lock[i] = p
    BY <1>3, <1>4, <1>5 DEF Holds
  <2>5. CASE lock[i] = Nobody
    <3>1. ~\E p \in Procs : has(p)
      BY <1>1, <2>4, <2>5
    <3>2. QED
      BY <1>2, <2>2, <2>5, <3>1
  <2>6. CASE lock[i] \in Procs
    <3>1. cur[lock[i]] = i /\ i # 0
      BY SMT, <1>5, <2>6 DEF BioInv, LocksOK, Bufs
    <3>2. has(lock[i])
      BY <1>5, <3>1 DEF Holds
    <3>3. QED
      BY <1>2, <2>2, <2>4, <2>6, <3>2
  <2>7. QED
    BY <2>2, <2>3, <2>5, <2>6
<1>6. ASSUME \A i \in Bufs : ~Holds(i, b) PROVE Content[b] = store[b] /\ User[b] = Nobody
  <2>1. ~\E i \in Cached(b) : buf[i].valid
    BY <1>6 DEF Cached, Holds
  <2>2. ~\E p \in Procs : has(p)
    BY <1>4, <1>6 DEF Holds
  <2>3. QED
    BY <1>2, <2>1, <2>2
<1>7. QED
  BY <1>5, <1>6

\* A block keeps its content and its user when its buffer does, when a clean buffer
\* is recycled, and when nothing was cached and nothing is.
LEMMA SameBlock ==
  ASSUME BioInv, BioInv', NEW b \in Blocks,
         \/ \E i \in Bufs : /\ Holds(i, b) /\ Holds(i, b)'
                            /\ buf'[i].data = buf[i].data /\ lock'[i] = lock[i]
         \/ \E i \in Bufs : /\ Holds(i, b) /\ buf[i].data = store'[b] /\ lock[i] = Nobody
                            /\ \A j \in Bufs : ~Holds(j, b)'
         \/ store'[b] = store[b] /\ \A j \in Bufs : ~Holds(j, b) /\ ~Holds(j, b)'
  PROVE  Content'[b] = Content[b] /\ User'[b] = User[b]
<1>1. /\ \A i \in Bufs : Holds(i, b) => Content[b] = buf[i].data /\ User[b] = lock[i]
      /\ (\A i \in Bufs : ~Holds(i, b)) => Content[b] = store[b] /\ User[b] = Nobody
  BY AbstractBlock DEF Abstracts
<1>2. Abstracts'
  BY AbstractBlock, PTL
<1>3. /\ \A i \in Bufs : Holds(i, b)' => Content'[b] = buf'[i].data /\ User'[b] = lock'[i]
      /\ (\A i \in Bufs : ~Holds(i, b)') => Content'[b] = store'[b] /\ User'[b] = Nobody
  BY <1>2 DEF Abstracts
<1>4. CASE \E i \in Bufs : /\ Holds(i, b) /\ Holds(i, b)'
                           /\ buf'[i].data = buf[i].data /\ lock'[i] = lock[i]
  BY <1>1, <1>3, <1>4
<1>5. CASE \E i \in Bufs : /\ Holds(i, b) /\ buf[i].data = store'[b] /\ lock[i] = Nobody
                           /\ \A j \in Bufs : ~Holds(j, b)'
  BY <1>1, <1>3, <1>5
<1>6. CASE store'[b] = store[b] /\ \A j \in Bufs : ~Holds(j, b) /\ ~Holds(j, b)'
  BY <1>1, <1>3, <1>6
<1>7. QED
  BY <1>4, <1>5, <1>6

\* Blocks that all keep content and user make a stuttering step.
LEMMA AllSame ==
  ASSUME \A b \in Blocks : Content'[b] = Content[b] /\ User'[b] = User[b]
  PROVE  Content' = Content /\ User' = User
<1>1. /\ Content = [b \in Blocks |-> Content[b]] /\ Content' = [b \in Blocks |-> Content'[b]]
      /\ User = [b \in Blocks |-> User[b]] /\ User' = [b \in Blocks |-> User'[b]]
  BY DEF Content, User
<1>2. QED
  BY ONLY Zenon, <1>1, \A b \in Blocks : Content'[b] = Content[b] /\ User'[b] = User[b]

\* A step that changes no content, no lock and not the disk.
Quiet == KeepsBlockno /\ KeepsValid /\ KeepsData /\ UNCHANGED <<lock, store>>

\* A quiet step is a stuttering step of BlockSpec.
LEMMA QuietStep ==
  ASSUME BioInv, BioInv', Quiet
  PROVE  Content' = Content /\ User' = User
<1>1. \A i \in Bufs, b \in Blocks : Holds(i, b)' <=> Holds(i, b)
  BY DEF Quiet, KeepsBlockno, KeepsValid, Holds
<1>2. ASSUME NEW b \in Blocks PROVE Content'[b] = Content[b] /\ User'[b] = User[b]
  <2>1. CASE \E i \in Bufs : Holds(i, b)
    BY <1>1, <2>1, SameBlock DEF Quiet, KeepsData
  <2>2. CASE \A i \in Bufs : ~Holds(i, b)
    BY <1>1, <2>2, SameBlock DEF Quiet
  <2>3. QED
    BY <2>1, <2>2
<1>3. QED
  BY <1>2, AllSame

\* A step on buffer i, which holds block b afterwards.
LEMMA BlockStep ==
  ASSUME BioInv, BioInv', NEW i \in Bufs, NEW b \in Blocks, Holds(i, b)',
         KeepsBlockno, store' = store,
         \A j \in Bufs \ {i} : /\ buf'[j].valid = buf[j].valid
                               /\ buf'[j].data = buf[j].data /\ lock'[j] = lock[j]
  PROVE  /\ Content' = [Content EXCEPT ![b] = buf'[i].data]
         /\ User' = [User EXCEPT ![b] = lock'[i]]
<1>1. Content'[b] = buf'[i].data /\ User'[b] = lock'[i]
  <2>1. Abstracts'
    BY AbstractBlock, PTL
  <2>2. QED
    BY <2>1 DEF Abstracts
<1>2. ASSUME NEW c \in Blocks, c # b PROVE Content'[c] = Content[c] /\ User'[c] = User[c]
  <2>1. ~Holds(i, c) /\ ~Holds(i, c)'
    BY <1>2 DEF KeepsBlockno, Holds
  <2>2. \A j \in Bufs : Holds(j, c)' <=> Holds(j, c)
    BY <2>1 DEF KeepsBlockno, Holds
  <2>3. CASE \E j \in Bufs : Holds(j, c)
    <3>1. PICK j \in Bufs : Holds(j, c) /\ j # i
      BY <2>1, <2>3
    <3>2. QED
      BY <2>2, <3>1, SameBlock
  <2>4. CASE \A j \in Bufs : ~Holds(j, c)
    BY <2>2, <2>4, SameBlock
  <2>5. QED
    BY <2>3, <2>4
<1>3. /\ Content = [c \in Blocks |-> Content[c]] /\ Content' = [c \in Blocks |-> Content'[c]]
      /\ User = [c \in Blocks |-> User[c]] /\ User' = [c \in Blocks |-> User'[c]]
  BY DEF Content, User
<1>4. QED
  BY <1>1, <1>2, <1>3

\* Setting refcnt or the disk flag of a buffer is quiet.
LEMMA FieldStep ==
  ASSUME TypeOK, UNCHANGED <<lock, store>>, NEW i, NEW v,
         buf' = [buf EXCEPT ![i].refcnt = v] \/ buf' = [buf EXCEPT ![i].disk = v]
  PROVE  Quiet
<1>1. buf \in [Bufs -> Buffer]
  BY DEF TypeOK
<1>2. ASSUME NEW j \in Bufs
      PROVE  /\ buf'[j].blockno = buf[j].blockno /\ buf'[j].valid = buf[j].valid
             /\ buf'[j].data = buf[j].data
  BY SMT, <1>1 DEF Buffer
<1>3. QED
  BY <1>2 DEF Quiet, KeepsBlockno, KeepsValid, KeepsData

\* bget() recycles a buffer whose content is on the disk.
LEMMA RecycleStep ==
  ASSUME BioInv, BioInv', NEW p \in Procs, NEW b \in Blocks, BgetMiss(p, b)
  PROVE  Content' = Content /\ User' = User
<1>1. TypeOK /\ OneBufferPerBlock /\ CleanOK /\ UNCHANGED <<lock, store>> /\ Unused # {}
  BY DEF BioInv, BgetMiss, diskVars
<1>2. PICK i \in Bufs : i = Lru /\ buf[i].refcnt = 0
  BY <1>1, LruUnused
<1>3. i \notin pinned /\ lock[i] = Nobody
  BY <1>2, UnusedIsFree
<1>4. buf' = [buf EXCEPT ![i] = [@ EXCEPT !.blockno = b, !.valid = FALSE, !.refcnt = 1]]
  BY <1>2 DEF BgetMiss
<1>5. ~buf'[i].valid /\ \A j \in Bufs \ {i} : buf'[j] = buf[j]
  <2>1. buf \in [Bufs -> Buffer]
    BY <1>1 DEF TypeOK
  <2>2. \A j \in Bufs \ {i} : buf'[j] = buf[j]
    BY <1>4, <2>1
  <2>3. buf'[i] = [buf[i] EXCEPT !.blockno = b, !.valid = FALSE, !.refcnt = 1]
    BY <1>2, <1>4, <2>1
  <2>4. ~buf'[i].valid
    BY <1>2, <2>1, <2>3 DEF Buffer
  <2>5. QED
    BY <2>2, <2>4
<1>6. ASSUME NEW c \in Blocks PROVE Content'[c] = Content[c] /\ User'[c] = User[c]
  <2>1. ~Holds(i, c)' /\ \A j \in Bufs \ {i} : Holds(j, c)' <=> Holds(j, c)
    BY <1>2, <1>5 DEF Holds
  <2>2. CASE Holds(i, c)
    <3>1. buf[i].data = store'[c]
      BY <1>1, <1>2, <1>3, <2>2 DEF CleanOK, Clean, Holds
    <3>2. \A j \in Bufs : ~Holds(j, c)'
      BY <1>1, <1>2, <2>1, <2>2, BioAssumption DEF OneBufferPerBlock, Holds
    <3>3. QED
      BY <1>2, <1>3, <2>2, <3>1, <3>2, SameBlock
  <2>3. CASE \E j \in Bufs \ {i} : Holds(j, c)
    <3>1. PICK j \in Bufs \ {i} : Holds(j, c)
      BY <2>3
    <3>2. Holds(j, c)' /\ buf'[j].data = buf[j].data /\ lock'[j] = lock[j] /\ j \in Bufs
      BY <1>1, <1>5, <2>1, <3>1
    <3>3. QED
      BY <3>1, <3>2, SameBlock
  <2>4. CASE \A j \in Bufs : ~Holds(j, c)
    <3>1. \A j \in Bufs : ~Holds(j, c) /\ ~Holds(j, c)'
      BY <2>1, <2>4
    <3>2. QED
      BY <1>1, <3>1, SameBlock
  <2>5. QED
    BY <2>2, <2>3, <2>4
<1>7. QED
  BY <1>6, AllSame

\* The device's transfers do not show.
LEMMA TransferStep ==
  ASSUME BioInv, BioInv', NEW h \in Descs, Device(h)
  PROVE  Content' = Content /\ User' = User
<1>1. TypeOK /\ OneBufferPerBlock /\ LocksOK /\ lock' = lock /\ h \in posted \cup UsedSet
  BY DEF BioInv, Device
<1>2. PICK p \in InUse : req[h].b = cur[p] /\ (req[h].write <=> Cl(p) = "out")
  BY <1>1, Requester
<1>3. PICK i \in Bufs : i = req[h].b
  BY <1>2, RequestHas
<1>4. buf[i].blockno \in Blocks /\ (buf[i].valid <=> req[h].write)
  <2>1. p \in Procs /\ Locked(p) /\ Cl(p) \in {"in", "out"} /\ buf[i].blockno \in Blocks
    BY <1>2, <1>3, RequestHas
  <2>2. QED
    BY <1>1, <1>2, <1>3, <2>1 DEF LocksOK
<1>5. \/ /\ req[h].write /\ buf' = buf
         /\ store' = [store EXCEPT ![buf[i].blockno] = buf[i].data]
      \/ /\ ~req[h].write /\ store' = store
         /\ buf' = [buf EXCEPT ![i].data = store[buf[i].blockno]]
  BY <1>3 DEF Device
<1>6. buf \in [Bufs -> Buffer] /\ store \in [Blocks -> Data]
  BY <1>1 DEF TypeOK
<1>7. \A j \in Bufs : /\ buf'[j].blockno = buf[j].blockno /\ buf'[j].valid = buf[j].valid
                      /\ buf[j].valid => buf'[j].data = buf[j].data
  <2>1. CASE buf' = buf
    BY <2>1
  <2>2. CASE ~req[h].write
    <3>1. \A j \in Bufs \ {i} : buf'[j] = buf[j]
      BY <1>5, <1>6, <2>2
    <3>2. buf'[i].blockno = buf[i].blockno /\ buf'[i].valid = buf[i].valid
      BY <1>5, <1>6, <2>2 DEF Buffer
    <3>3. QED
      BY <1>4, <2>2, <3>1, <3>2
  <2>3. QED
    BY <1>5, <2>1, <2>2
<1>8. \A b \in Blocks : ~Holds(i, b) => store'[b] = store[b]
  BY <1>4, <1>5, <1>6 DEF Holds
<1>9. ASSUME NEW b \in Blocks PROVE Content'[b] = Content[b] /\ User'[b] = User[b]
  <2>1. \A j \in Bufs : Holds(j, b)' <=> Holds(j, b)
    BY <1>7 DEF Holds
  <2>2. CASE \E j \in Bufs : Holds(j, b)
    <3>1. PICK j \in Bufs : Holds(j, b)
      BY <2>2
    <3>2. Holds(j, b)' /\ buf'[j].data = buf[j].data /\ lock'[j] = lock[j]
      BY <1>1, <1>7, <2>1, <3>1 DEF Holds
    <3>3. QED
      BY <3>1, <3>2, SameBlock
  <2>3. CASE \A j \in Bufs : ~Holds(j, b)
    <3>1. \A j \in Bufs : ~Holds(j, b) /\ ~Holds(j, b)'
      BY <2>1, <2>3
    <3>2. QED
      BY <1>8, <2>3, <3>1, SameBlock
  <2>4. QED
    BY <2>2, <2>3
<1>10. QED
  BY <1>9, AllSame

\* bread() returns a buffer that is valid: its process has the block.
LEMMA TakeStep ==
  ASSUME BioInv, BioInv', NEW p \in Procs, Acquire(p) \/ RwDone(p)
  PROVE  (Content' = Content /\ User' = User) \/ \E b \in Blocks : Promise!Take(p, b)
<1>1. /\ TypeOK /\ OneBufferPerBlock /\ LocksOK /\ RequestsOK /\ CleanOK
      /\ cur' = cur /\ store' = store
  BY DEF BioInv, Acquire, RwDone, diskVars
<1>2. PICK i \in Bufs : i = cur[p] /\ buf[i].blockno \in Blocks
  <2>1. cur[p] # 0
    BY <1>1 DEF Acquire, RwDone, Cl, Class, LocksOK
  <2>2. QED
    BY <2>1, UserHasBlock
<1>3. PICK b \in Blocks : b = buf[i].blockno
  BY <1>2
<1>4. buf \in [Bufs -> Buffer] /\ lock \in [Bufs -> Procs \cup {Nobody}]
  BY <1>1 DEF TypeOK
<1>5. CASE Acquire(p)
  <2>1. buf' = buf /\ lock[i] = Nobody /\ lock' = [lock EXCEPT ![i] = p]
    BY <1>2, <1>5 DEF Acquire
  <2>2. KeepsBlockno /\ \A j \in Bufs \ {i} : lock'[j] = lock[j]
    BY <1>4, <2>1 DEF KeepsBlockno
  <2>3. CASE buf[i].valid
    <3>1. Holds(i, b) /\ Holds(i, b)' /\ lock'[i] = p /\ buf'[i].data = buf[i].data
      BY <1>3, <1>4, <2>1, <2>3 DEF Holds
    <3>2. /\ Content' = [Content EXCEPT ![b] = buf'[i].data]
          /\ User' = [User EXCEPT ![b] = lock'[i]]
      <4>1. \A j \in Bufs \ {i} : /\ buf'[j].valid = buf[j].valid
                                   /\ buf'[j].data = buf[j].data /\ lock'[j] = lock[j]
        BY <2>1, <2>2
      <4>2. QED
        BY <1>1, <2>2, <3>1, <4>1, BlockStep
    <3>3. Content[b] = buf[i].data /\ User[b] = Nobody
      BY <2>1, <3>1, AbstractBlock DEF Abstracts
    <3>4. Content' = Content
      <4>1. Content = [c \in Blocks |-> Content[c]]
        BY DEF Content
      <4>2. QED
        BY <3>1, <3>2, <3>3, <4>1
    <3>5. QED
      BY <3>1, <3>2, <3>3, <3>4 DEF Promise!Take
  <2>4. CASE ~buf[i].valid
    <3>1. ASSUME NEW c \in Blocks PROVE Content'[c] = Content[c] /\ User'[c] = User[c]
      <4>1. \A j \in Bufs : (Holds(j, c)' <=> Holds(j, c)) /\ (Holds(j, c) => j # i)
        BY <2>1, <2>4 DEF Holds
      <4>2. CASE \E j \in Bufs : Holds(j, c)
        BY <2>1, <2>2, <4>1, <4>2, SameBlock
      <4>3. CASE \A j \in Bufs : ~Holds(j, c)
        BY <1>1, <4>1, <4>3, SameBlock
      <4>4. QED
        BY <4>2, <4>3
    <3>2. QED
      BY <3>1, AllSame
  <2>5. QED
    BY <2>3, <2>4
<1>6. CASE RwDone(p)
  <2>1. buf' = [buf EXCEPT ![i].valid = TRUE] /\ lock' = lock /\ ~buf[i].disk
    BY <1>2, <1>6 DEF RwDone
  <2>2. /\ buf'[i].valid /\ buf'[i].data = buf[i].data /\ KeepsBlockno
        /\ \A j \in Bufs \ {i} : buf'[j] = buf[j]
    <3>1. \A j \in Bufs \ {i} : buf'[j] = buf[j]
      BY <1>4, <2>1
    <3>2. buf'[i].valid /\ buf'[i].data = buf[i].data /\ buf'[i].blockno = buf[i].blockno
      BY <1>4, <2>1 DEF Buffer
    <3>3. QED
      BY <3>1, <3>2 DEF KeepsBlockno
  <2>3. CASE buf[i].valid
    <3>1. buf[i].valid = TRUE /\ buf'[i].valid = TRUE
      BY <1>4, <2>1, <2>3 DEF Buffer
    <3>2. Quiet
      BY <1>1, <2>1, <2>2, <3>1 DEF Quiet, KeepsValid, KeepsData
    <3>3. QED
      BY <3>2, QuietStep
  <2>4. CASE ~buf[i].valid
    <3>1. Cl(p) \in {"in", "out"}
      BY <1>6 DEF RwDone, Cl, Class
    <3>2. p \in InUse
      BY <1>1, <3>1 DEF RequestsOK, InUse
    <3>3. lock[i] = p /\ head[p] \notin posted
      <4>1. lock[i] = p
        BY <1>2, <3>2, RequestHas
      <4>2. head[p] \notin posted \cup UsedSet
        BY <1>1, <1>2, <2>1, <3>2 DEF RequestsOK
      <4>3. QED
        BY <4>1, <4>2
    <3>4. buf[i].data = store[b]
      BY <1>1, <1>2, <1>3, <3>2, <3>3 DEF CleanOK, Clean
    <3>5. Holds(i, b)'
      BY <1>3, <2>2 DEF Holds, KeepsBlockno
    <3>6. /\ Content' = [Content EXCEPT ![b] = buf'[i].data]
          /\ User' = [User EXCEPT ![b] = lock'[i]]
      <4>1. \A j \in Bufs \ {i} : /\ buf'[j].valid = buf[j].valid
                                   /\ buf'[j].data = buf[j].data /\ lock'[j] = lock[j]
        BY <2>1, <2>2
      <4>2. KeepsBlockno /\ store' = store
        BY <1>1, <2>2
      <4>3. QED
        BY <3>5, <4>1, <4>2, BlockStep
    <3>7. \A j \in Bufs : ~Holds(j, b)
      BY <1>1, <1>3, <2>4, BioAssumption DEF OneBufferPerBlock, Holds
    <3>8. Content[b] = store[b] /\ User[b] = Nobody
      BY <3>7, AbstractBlock DEF Abstracts
    <3>9. Content' = Content
      <4>1. Content = [c \in Blocks |-> Content[c]]
        BY DEF Content
      <4>2. QED
        BY <2>2, <3>4, <3>6, <3>8, <4>1
    <3>10. QED
      BY <2>1, <3>3, <3>6, <3>8, <3>9 DEF Promise!Take
  <2>5. QED
    BY <2>3, <2>4
<1>7. QED
  BY <1>5, <1>6

\* Between bread() and brelse() the process may change the block, and then gives it back.
LEMMA GiveStep ==
  ASSUME BioInv, BioInv', NEW p \in Procs, Release(p) \/ \E d \in Data : Modify(p, d)
  PROVE  \E b \in Blocks : Promise!Give(p, b) \/ \E d \in Data : Promise!Change(p, b, d)
<1>1. /\ TypeOK /\ LocksOK /\ store' = store
  BY DEF BioInv, Release, Modify, diskVars
<1>2. Locked(p) /\ Cl(p) \notin {"load", "in"}
  BY DEF Release, Modify, Locked, Cl, Class
<1>3. PICK i \in Bufs : i = cur[p] /\ buf[i].blockno \in Blocks /\ lock[i] = p /\ buf[i].valid
  <2>1. cur[p] \in Bufs /\ buf[cur[p]].blockno \in Blocks /\ lock[cur[p]] = p
    BY <1>2, HolderHas
  <2>2. buf[cur[p]].valid
    BY <1>1, <1>2 DEF LocksOK
  <2>3. QED
    BY <2>1, <2>2
<1>4. PICK b \in Blocks : b = buf[i].blockno
  BY <1>3
<1>5. Content[b] = buf[i].data /\ User[b] = p
  <2>1. Holds(i, b)
    BY <1>3, <1>4 DEF Holds
  <2>2. QED
    BY <1>3, <2>1, AbstractBlock DEF Abstracts
<1>6. buf \in [Bufs -> Buffer] /\ lock \in [Bufs -> Procs \cup {Nobody}]
  BY <1>1 DEF TypeOK
<1>7. /\ Content = [c \in Blocks |-> Content[c]] /\ User = [c \in Blocks |-> User[c]]
  BY DEF Content, User
<1>8. CASE Release(p)
  <2>1. buf' = buf /\ lock' = [lock EXCEPT ![i] = Nobody]
    BY <1>3, <1>8 DEF Release
  <2>2. KeepsBlockno /\ Holds(i, b)' /\ lock'[i] = Nobody /\ buf'[i].data = buf[i].data
    BY <1>3, <1>4, <1>6, <2>1 DEF KeepsBlockno, Holds
  <2>3. \A j \in Bufs \ {i} : /\ buf'[j].valid = buf[j].valid
                              /\ buf'[j].data = buf[j].data /\ lock'[j] = lock[j]
    BY <1>6, <2>1
  <2>4. /\ Content' = [Content EXCEPT ![b] = buf'[i].data]
        /\ User' = [User EXCEPT ![b] = lock'[i]]
    BY <1>1, <2>2, <2>3, BlockStep
  <2>5. Content' = Content
    BY <1>5, <1>7, <2>2, <2>4
  <2>6. QED
    BY <1>5, <2>2, <2>4, <2>5 DEF Promise!Give
<1>9. CASE \E d \in Data : Modify(p, d)
  <2>1. PICK d \in Data : buf' = [buf EXCEPT ![i].data = d] /\ lock' = lock
    BY <1>3, <1>9 DEF Modify
  <2>2. \A j \in Bufs \ {i} : buf'[j] = buf[j]
    BY <1>6, <2>1
  <2>3. buf'[i].data = d /\ buf'[i].blockno = buf[i].blockno /\ buf'[i].valid = buf[i].valid
    BY <1>6, <2>1 DEF Buffer
  <2>4. KeepsBlockno /\ Holds(i, b)'
    BY <1>3, <1>4, <2>2, <2>3 DEF KeepsBlockno, Holds
  <2>5. \A j \in Bufs \ {i} : /\ buf'[j].valid = buf[j].valid
                              /\ buf'[j].data = buf[j].data /\ lock'[j] = lock[j]
    BY <2>1, <2>2
  <2>6. /\ Content' = [Content EXCEPT ![b] = buf'[i].data]
        /\ User' = [User EXCEPT ![b] = lock'[i]]
    BY <1>1, <2>4, <2>5, BlockStep
  <2>7. User' = User
    BY <1>3, <1>5, <1>7, <2>1, <2>6
  <2>8. QED
    BY <1>5, <2>3, <2>6, <2>7 DEF Promise!Change
<1>10. QED
  BY <1>8, <1>9

\* Every other step is quiet.
LEMMA OtherSteps ==
  ASSUME BioInv, NEW p, NEW b,
         \/ AcquireSleep(p) \/ Brelse(p) \/ Bpin(p) \/ Bunpin(p) \/ Kill(p)
         \/ RwSleep(p) \/ RwPost(p) \/ RwSleepAgain(p)
         \/ BgetHit(p, b) \/ BgetPanic(p, b) \/ Intr \/ UNCHANGED vars
  PROVE  Quiet
<1>1. TypeOK
  BY DEF BioInv
<1>2. CASE AcquireSleep(p) \/ Kill(p) \/ RwSleep(p) \/ RwSleepAgain(p) \/ BgetPanic(p, b)
  <2>1. UNCHANGED <<cacheVars, diskVars>>
    BY <1>2 DEF AcquireSleep, Kill, RwSleep, RwSleepAgain, BgetPanic
  <2>2. UNCHANGED <<buf, lock, store>>
    BY <2>1 DEF cacheVars, diskVars
  <2>3. QED
    BY <2>2 DEF Quiet, KeepsBlockno, KeepsValid, KeepsData
<1>3. CASE IntrAck \/ IntrLoopEnd \/ IntrReturn \/ UNCHANGED vars
  <2>1. UNCHANGED <<cacheVars, store>>
    BY <1>3 DEF IntrAck, IntrLoopEnd, IntrReturn, vars, diskVars
  <2>2. UNCHANGED <<buf, lock, store>>
    BY <2>1 DEF cacheVars
  <2>3. QED
    BY <2>2 DEF Quiet, KeepsBlockno, KeepsValid, KeepsData
<1>4. CASE Brelse(p) \/ Bpin(p) \/ Bunpin(p) \/ BgetHit(p, b)
  <2>1. UNCHANGED <<lock, store>> /\ \E i, v : buf' = [buf EXCEPT ![i].refcnt = v]
    BY <1>4 DEF Brelse, Bpin, Bunpin, BgetHit, Deref, diskVars
  <2>2. QED
    BY <1>1, <2>1, FieldStep
<1>5. CASE RwPost(p) \/ IntrEntry
  <2>1. UNCHANGED <<lock, store>> /\ \E i, v : buf' = [buf EXCEPT ![i].disk = v]
    BY <1>5 DEF RwPost, IntrEntry
  <2>2. QED
    BY <1>1, <2>1, FieldStep
<1>6. QED
  BY <1>2, <1>3, <1>4, <1>5 DEF Intr

\* Every step is a step of BlockSpec, or stutters.
LEMMA BioRefinesStep ==
  BioInv /\ BioInv' /\ [Next]_vars => [Promise!BlockNext]_(Promise!blockVars)
<1> SUFFICES ASSUME BioInv, BioInv', [Next]_vars
             PROVE  Promise!BlockNext \/ (Content' = Content /\ User' = User)
  BY DEF Promise!blockVars
<1>1. CASE Quiet
  BY <1>1, QuietStep
<1>2. CASE \E p \in Procs, b \in Blocks : BgetMiss(p, b)
  BY <1>2, RecycleStep
<1>3. CASE \E h \in Descs : Device(h)
  BY <1>3, TransferStep
<1>4. CASE \E p \in Procs : Acquire(p) \/ RwDone(p)
  BY <1>4, TakeStep DEF Promise!BlockNext
<1>5. CASE \E p \in Procs : Release(p) \/ \E d \in Data : Modify(p, d)
  BY <1>5, GiveStep DEF Promise!BlockNext
<1>6. CASE \E p, b : \/ AcquireSleep(p) \/ Brelse(p) \/ Bpin(p) \/ Bunpin(p) \/ Kill(p)
                     \/ RwSleep(p) \/ RwPost(p) \/ RwSleepAgain(p)
                     \/ BgetHit(p, b) \/ BgetPanic(p, b) \/ Intr \/ UNCHANGED vars
  BY <1>1, <1>6, OtherSteps
<1>7. QED
  BY <1>2, <1>3, <1>4, <1>5, <1>6 DEF Next, Step

\* The cache, its sleep locks and the disk driver implement BlockSpec: recycling,
\* pinning, sleeping and the order in which the device serves requests never change
\* what a block holds, and one process at a time has it.
THEOREM BioCoherent == Spec => Coherent
<1>1. ASSUME Init PROVE Promise!BlockInit
  <2>1. BioInv /\ store = store0 /\ \A i \in Bufs : ~buf[i].valid
    <3>1. BioInv
      BY <1>1, BioInitInv
    <3>2. QED
      BY <1>1, <3>1 DEF Init
  <2>2. \A b \in Blocks : \A i \in Bufs : ~Holds(i, b)
    BY <2>1 DEF Holds
  <2>3. \A b \in Blocks : Content[b] = store0[b] /\ User[b] = Nobody
    BY <2>1, <2>2, AbstractBlock DEF Abstracts
  <2>4. /\ Content = [b \in Blocks |-> Content[b]] /\ User = [b \in Blocks |-> User[b]]
    BY DEF Content, User
  <2>5. Content \in [Blocks -> Data] /\ User = [b \in Blocks |-> Nobody]
    <3>1. \A b \in Blocks : Content[b] \in Data
      BY <2>3, BioAssumption
    <3>2. QED
      BY <2>3, <2>4, <3>1
  <2>6. QED
    BY <2>5 DEF Promise!BlockInit
<1>2. QED
  BY <1>1, BioRefinesStep, BioInvariant, PTL DEF Spec, Coherent, Promise!Spec
=============================================================================
