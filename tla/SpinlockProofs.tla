--------------------------- MODULE SpinlockProofs ---------------------------
(***************************************************************************)
(* Proofs about module Spinlock, for any number of CPUs and locks.         *)
(***************************************************************************)
EXTENDS Spinlock, FiniteSetTheorems, TLAPS

\* Zenon proves the leaves that name no other prover.
USE ZenonT(60)

\* A frame is the thread's or the handler's of a CPU.
LEMMA FrameParts ==
  ASSUME NEW f \in Frames
  PROVE  /\ f[1] \in CPUs /\ f = <<f[1], f[2]>>
         /\ f[2] = "thread" \/ f[2] = "handler"
         /\ <<f[1], "thread">> \in Frames /\ <<f[1], "handler">> \in Frames
  BY SMT DEF Frames

\* The depth of a frame is a number, and is 0 only for one without locks.
LEMMA DepthType ==
  ASSUME TypeOK, NEW f \in Frames
  PROVE  /\ IsFiniteSet(has[f]) /\ Cardinality(has[f]) \in Nat
         /\ Depth(f) \in Nat
         /\ Depth(f) = 0 => has[f] = {} /\ ~off[f] /\ pc[f] \notin {"spin", "pop"}
  <1>1. has[f] \subseteq 1 .. NLOCK
    BY DEF TypeOK, Locks
  <1>2. IsFiniteSet(1 .. NLOCK)
    BY SMT, FS_Interval, SpinlockAssumption
  <1>3. IsFiniteSet(has[f])
    BY <1>1, <1>2, FS_Subset
  <1>4. Cardinality(has[f]) \in Nat /\ (Cardinality(has[f]) = 0 <=> has[f] = {})
    BY <1>3, FS_CardinalityType, FS_EmptySet
  <1> QED
    BY SMT, <1>3, <1>4 DEF Depth

\* A frame whose state a step leaves alone.
Same(f) == /\ pc'[f] = pc[f] /\ lk'[f] = lk[f] /\ old'[f] = old[f]
           /\ has'[f] = has[f] /\ off'[f] = off[f]

\* A frame that another frame's step leaves alone stays right.
LEMMA SameFrame ==
  ASSUME NEW f \in Frames, FrameOK(f), Same(f)
  PROVE  FrameOK(f)' /\ Depth(f)' = Depth(f)
  <1>1. Depth(f)' = Depth(f)
    BY DEF Same, Depth
  <1> QED
    BY <1>1 DEF Same, FrameOK

\* A CPU whose state a step leaves alone.
LEMMA SameCpu ==
  ASSUME NEW c \in CPUs, CpuOK(c), Same(<<c, "thread">>), Same(<<c, "handler">>),
         sie'[c] = sie[c], noff'[c] = noff[c], intena'[c] = intena[c]
  PROVE  CpuOK(c)'
  <1>1. Depth(<<c, "thread">>)' = Depth(<<c, "thread">>) /\ Depth(<<c, "handler">>)' = Depth(<<c, "handler">>)
    BY DEF Same, Depth
  <1> QED
    BY <1>1 DEF Same, CpuOK

\* A step of frame f, after which f and its CPU are in order, the others untouched.
LEMMA StepOfFrame ==
  ASSUME LockInv, TypeOK', ~panic', NEW f \in Frames,
         \A g \in Frames \ {f} : Same(g),
         \A c \in CPUs \ {f[1]} : sie'[c] = sie[c] /\ noff'[c] = noff[c] /\ intena'[c] = intena[c],
         FrameOK(f)', CpuOK(f[1])', \A k \in Locks : LockOK(k)'
  PROVE  LockInv'
  <1>1. ASSUME NEW g \in Frames PROVE FrameOK(g)'
    BY SameFrame DEF LockInv
  <1>2. ASSUME NEW c \in CPUs PROVE CpuOK(c)'
    <2>1. CASE c = f[1]
      BY <2>1
    <2>2. CASE c # f[1]
      <3>1. <<c, "thread">> \in Frames \ {f} /\ <<c, "handler">> \in Frames \ {f}
        BY SMT, <2>2, FrameParts DEF Frames
      <3> QED
        BY <2>2, <3>1, SameCpu DEF LockInv
    <2> QED
      BY <2>1, <2>2
  <1> QED
    BY <1>1, <1>2 DEF LockInv

\* What the invariant says about a frame, its CPU and the other frame there.
LEMMA InvAt ==
  ASSUME LockInv, NEW f \in Frames
  PROVE  /\ TypeOK /\ ~panic /\ FrameOK(f) /\ CpuOK(f[1])
         /\ FrameOK(<<f[1], "thread">>) /\ FrameOK(<<f[1], "handler">>)
         /\ Depth(f) \in Nat /\ Depth(<<f[1], "thread">>) \in Nat /\ Depth(<<f[1], "handler">>) \in Nat
  BY FrameParts, DepthType DEF LockInv

\* A frame that executes is a handler's, or a thread's with no handler over it.
LEMMA Executing ==
  ASSUME LockInv, NEW f \in Frames, NEW label, At(f, label)
  PROVE  \/ /\ f = <<f[1], "thread">> /\ pc[<<f[1], "handler">>] = "none"
            /\ Depth(<<f[1], "handler">>) = 0
         \/ f = <<f[1], "handler">>
  <1>1. CASE f[2] = "thread"
    <2>1. pc[<<f[1], "handler">>] = "none"
      BY <1>1 DEF At
    <2>2. FrameOK(<<f[1], "handler">>)
      BY InvAt
    <2>3. Depth(<<f[1], "handler">>) = 0
      BY SMT, <2>1, <2>2, FS_EmptySet DEF FrameOK, Depth
    <2> QED
      BY <1>1, <2>1, <2>3, FrameParts
  <1> QED
    BY <1>1, FrameParts

\* After a step of frame f the other frame of its CPU is what it was.
LEMMA OtherFrame ==
  ASSUME LockInv, NEW f \in Frames, \A g \in Frames \ {f} : Same(g)
  PROVE  /\ f = <<f[1], "thread">> => /\ pc'[<<f[1], "handler">>] = pc[<<f[1], "handler">>]
                                      /\ Depth(<<f[1], "handler">>)' = Depth(<<f[1], "handler">>)
         /\ f = <<f[1], "handler">> => Depth(<<f[1], "thread">>)' = Depth(<<f[1], "thread">>)
  <1>1. <<f[1], "thread">> \in Frames /\ <<f[1], "handler">> \in Frames
    BY FrameParts
  <1>2. CASE f = <<f[1], "thread">>
    <2>1. Same(<<f[1], "handler">>)
      BY SMT, <1>1, <1>2
    <2> QED
      BY <1>1, <1>2, <2>1 DEF Same, Depth
  <1>3. CASE f = <<f[1], "handler">>
    <2>1. Same(<<f[1], "thread">>)
      BY SMT, <1>1, <1>3
    <2> QED
      BY <1>1, <1>3, <2>1 DEF Same, Depth
  <1> QED
    BY <1>2, <1>3

\* A step that takes and frees no lock.
LEMMA SameLock ==
  ASSUME LockInv, NEW j \in Locks, has' = has, locked' = locked, cpu' = cpu,
         \A g \in Frames : j \in has[g] => (lk'[g] = j <=> lk[g] = j)
  PROVE  LockOK(j)'
  BY DEF LockInv, LockOK

\* push_off() and acquire() begin.
LEMMA PushInv ==
  ASSUME LockInv, NEW f \in Frames, NEW k \in Locks \cup {None}, Push(f, k)
  PROVE  LockInv'
  <1>0. TypeOK /\ ~panic /\ FrameOK(f) /\ CpuOK(f[1]) /\ f[1] \in CPUs /\ f = <<f[1], f[2]>>
    BY InvAt, FrameParts
  <1>1. TypeOK' /\ ~panic'
    BY <1>0 DEF TypeOK, Push, At
  <1>2. \A g \in Frames \ {f} : Same(g)
    BY <1>0 DEF TypeOK, Push, Same
  <1>3. \A c \in CPUs : sie'[c] = sie[c] /\ noff'[c] = noff[c] /\ intena'[c] = intena[c]
    BY DEF Push
  <1>4. Depth(f)' = Depth(f)
    BY <1>0 DEF TypeOK, Push, Depth, At
  <1>5. f[2] = "handler" => ~sie[f[1]]
    BY <1>0 DEF CpuOK, Push, At
  <1>6. f[2] = "thread" /\ Depth(f) = 0 => sie[f[1]]
    <2>1. SUFFICES ASSUME f[2] = "thread", Depth(f) = 0 PROVE sie[f[1]]
      OBVIOUS
    <2>2. pc[<<f[1], "handler">>] = "none"
      BY <2>1 DEF Push, At
    <2>3. Depth(<<f[1], "handler">>) = 0
      <3>1. FrameOK(<<f[1], "handler">>)
        BY InvAt
      <3> QED
        BY SMT, <2>2, <3>1, FS_EmptySet DEF FrameOK, Depth
    <2> QED
      BY SMT, <1>0, <2>1, <2>2, <2>3 DEF CpuOK
  <1>7. FrameOK(f)'
    <2>1. pc'[f] = "push" /\ lk'[f] = k /\ old'[f] = sie[f[1]] /\ has'[f] = has[f] /\ off'[f] = off[f]
      BY <1>0 DEF TypeOK, Push
    <2>2. (k # None => \A j \in has[f] : j < k) /\ (k = None => ~off[f])
      BY DEF Push
    <2> QED
      BY <1>4, <1>5, <1>6, <2>1, <2>2 DEF FrameOK
  <1>8. CpuOK(f[1])'
    <2>1. pc[f] = "run" /\ pc'[f] = "push"
      BY <1>0 DEF TypeOK, Push, At
    <2> QED
      BY <1>0, <1>2, <1>3, <1>4, <2>1, Executing, OtherFrame DEF CpuOK, Push
  <1>9. ASSUME NEW j \in Locks PROVE LockOK(j)'
    <2>1. \A g \in Frames : j \in has[g] => (lk'[g] = j <=> lk[g] = j)
      <3>1. lk[f] = None /\ lk'[f] = k /\ (k # None => \A i \in has[f] : i < k)
        BY <1>0 DEF TypeOK, Push, At, FrameOK
      <3>2. j \in Int /\ j # None /\ k \in Int
        BY SMT, SpinlockAssumption DEF Locks, None
      <3> QED
        BY SMT, <1>2, <3>1, <3>2 DEF Same
    <2> QED
      BY <2>1, SameLock DEF Push
  <1> QED
    BY <1>1, <1>2, <1>3, <1>7, <1>8, <1>9, StepOfFrame

\* acquire() does not find the lock held by its own CPU.
LEMMA NotHeld ==
  ASSUME LockInv, NEW f \in Frames, At(f, "push"), lk[f] # None
  PROVE  ~Holding(f[1], lk[f])
  <1> DEFINE k == lk[f]
  <1>0. TypeOK /\ FrameOK(f) /\ CpuOK(f[1]) /\ f[1] \in CPUs /\ k \in Locks
    BY InvAt, FrameParts DEF TypeOK
  <1>1. SUFFICES ASSUME locked[k], cpu[k] = f[1] PROVE FALSE
    BY DEF Holding
  <1>2. f[1] # None
    BY <1>0, SpinlockAssumption DEF None
  <1>3. LockOK(k)
    BY <1>0 DEF LockInv
  <1>4. PICK g \in Frames : k \in has[g]
    BY <1>1, <1>3 DEF LockOK
  <1>5. g[1] = f[1]
    BY <1>1, <1>2, <1>3, <1>4 DEF LockOK
  <1>6. k \notin has[f]
    BY SMT, <1>0 DEF At, FrameOK, Locks
  <1>7. CASE f = <<f[1], "thread">> /\ pc[<<f[1], "handler">>] = "none"
    <2>1. has[<<f[1], "handler">>] = {}
      BY <1>7, InvAt DEF FrameOK
    <2> QED
      BY <1>4, <1>5, <1>6, <1>7, <2>1, FrameParts
  <1>8. CASE f = <<f[1], "handler">>
    <2>1. Depth(<<f[1], "thread">>) = 0
      BY <1>0, <1>8 DEF CpuOK, At
    <2>2. has[<<f[1], "thread">>] = {}
      BY <1>0, <2>1, FrameParts, DepthType
    <2> QED
      BY <1>4, <1>5, <1>6, <1>8, <2>2, FrameParts
  <1> QED
    BY <1>7, <1>8, Executing

\* push_off(): the first one of a CPU saves how interrupts were.
LEMMA PushOffInv ==
  ASSUME LockInv, NEW f \in Frames, PushOff(f)
  PROVE  LockInv'
  <1>0. TypeOK /\ ~panic /\ FrameOK(f) /\ CpuOK(f[1]) /\ f[1] \in CPUs /\ At(f, "push")
    BY InvAt, FrameParts DEF PushOff
  <1>1. TypeOK'
    <2>1. panic' \in BOOLEAN
      BY DEF PushOff
    <2>2. intena' \in [CPUs -> BOOLEAN] /\ off' \in [Frames -> BOOLEAN] /\ sie' \in [CPUs -> BOOLEAN]
      BY <1>0 DEF TypeOK, PushOff
    <2> QED
      BY SMT, <1>0, <2>1, <2>2 DEF TypeOK, PushOff
  <1>2. ~panic'
    BY <1>0, NotHeld DEF PushOff
  <1>3. \A g \in Frames \ {f} : Same(g)
    BY <1>0 DEF TypeOK, PushOff, Same
  <1>4. \A c \in CPUs \ {f[1]} : sie'[c] = sie[c] /\ noff'[c] = noff[c] /\ intena'[c] = intena[c]
    BY <1>0 DEF TypeOK, PushOff
  <1>5. /\ pc[f] = "push" /\ pc'[f] = (IF lk[f] = None THEN "run" ELSE "spin")
        /\ has'[f] = has[f] /\ lk' = lk
        /\ off'[f] = (off[f] \/ lk[f] = None)
    BY <1>0 DEF TypeOK, PushOff, At
  <1>6. Depth(f)' = Depth(f) + 1
    <2>1. Cardinality(has[f]) \in Nat
      BY <1>0, DepthType
    <2>2. CASE lk[f] = None
      <3>1. ~off[f] /\ off'[f] /\ pc'[f] = "run"
        BY <1>0, <1>5, <2>2 DEF FrameOK
      <3> QED
        BY SMT, <1>5, <2>1, <3>1 DEF Depth
    <2>3. CASE lk[f] # None
      <3>1. off'[f] = off[f] /\ pc'[f] = "spin"
        BY <1>0, <1>1, <1>5, <2>3 DEF TypeOK
      <3> QED
        BY SMT, <1>5, <2>1, <3>1 DEF Depth
    <2> QED
      BY <2>2, <2>3
  <1>7. FrameOK(f)'
    BY <1>0, <1>5 DEF FrameOK
  <1>8. CpuOK(f[1])'
    <2>1. noff'[f[1]] = noff[f[1]] + 1 /\ ~sie'[f[1]]
      BY <1>0 DEF TypeOK, PushOff
    <2>2. intena'[f[1]] = IF noff[f[1]] = 0 THEN old[f] ELSE intena[f[1]]
      BY <1>0 DEF TypeOK, PushOff
    <2>3. CASE f = <<f[1], "thread">> /\ pc[<<f[1], "handler">>] = "none" /\ Depth(<<f[1], "handler">>) = 0
      <3>1. pc'[<<f[1], "handler">>] = "none" /\ Depth(<<f[1], "handler">>)' = 0
        BY <1>3, <2>3, OtherFrame
      <3>2. noff[f[1]] = Depth(f) /\ Depth(f) \in Nat
        BY SMT, <1>0, <2>3, InvAt DEF CpuOK
      <3>3. intena'[f[1]]
        BY SMT, <1>0, <1>5, <2>2, <2>3, <3>2 DEF CpuOK, FrameOK
      <3> QED
        BY SMT, <1>6, <2>1, <2>3, <3>1, <3>2, <3>3 DEF CpuOK
    <2>4. CASE f = <<f[1], "handler">>
      <3>1. Depth(<<f[1], "thread">>)' = Depth(<<f[1], "thread">>)
        BY <1>3, <2>4, OtherFrame
      <3>2. Depth(<<f[1], "thread">>) = 0 /\ noff[f[1]] = Depth(f) /\ Depth(f) \in Nat
        BY SMT, <1>0, <1>5, <2>4, InvAt DEF CpuOK
      <3>3. ~intena'[f[1]]
        BY SMT, <1>0, <1>5, <2>2, <2>4, <3>2 DEF CpuOK, FrameOK
      <3> QED
        BY SMT, <1>5, <1>6, <2>1, <2>4, <3>1, <3>2, <3>3 DEF CpuOK
    <2> QED
      BY <1>0, <2>3, <2>4, Executing
  <1>9. ASSUME NEW j \in Locks PROVE LockOK(j)'
    BY <1>0, <1>5, SameLock DEF PushOff, TypeOK
  <1> QED
    BY <1>1, <1>2, <1>3, <1>4, <1>7, <1>8, <1>9, StepOfFrame

\* A step of frame f that leaves its depth and struct cpu as they are.
LEMMA QuietCpu ==
  ASSUME LockInv, NEW f \in Frames, NEW label, At(f, label), label # "none", pc'[f] # "none",
         \A g \in Frames \ {f} : Same(g), Depth(f)' = Depth(f),
         sie' = sie, noff' = noff, intena' = intena
  PROVE  CpuOK(f[1])'
  <1>1. CpuOK(f[1])
    BY InvAt
  <1>2. CASE f = <<f[1], "thread">> /\ pc[<<f[1], "handler">>] = "none" /\ Depth(<<f[1], "handler">>) = 0
    BY <1>1, <1>2, OtherFrame DEF CpuOK
  <1>3. CASE f = <<f[1], "handler">>
    BY <1>1, <1>3, OtherFrame DEF CpuOK, At
  <1> QED
    BY <1>2, <1>3, Executing

\* acquire() takes the lock.
LEMMA TestAndSetInv ==
  ASSUME LockInv, NEW f \in Frames, TestAndSet(f)
  PROVE  LockInv'
  <1> DEFINE k == lk[f]
  <1>0. TypeOK /\ FrameOK(f) /\ At(f, "spin") /\ ~locked[k]
    BY InvAt DEF TestAndSet
  <1>1. k \in Locks /\ k \notin has[f] /\ pc[f] = "spin"
    BY SMT, <1>0 DEF TypeOK, FrameOK, At, Locks, None
  <1>2. TypeOK' /\ ~panic'
    <2>1. locked' \in [Locks -> BOOLEAN] /\ has' \in [Frames -> SUBSET Locks]
      BY <1>0, <1>1 DEF TypeOK, TestAndSet
    <2> QED
      BY <1>0, <2>1 DEF TypeOK, TestAndSet, At
  <1>3. \A g \in Frames \ {f} : Same(g)
    BY <1>0 DEF TypeOK, TestAndSet, Same
  <1>4. pc'[f] = "own" /\ has'[f] = has[f] \cup {k} /\ lk' = lk /\ off' = off
    BY <1>0 DEF TypeOK, TestAndSet
  <1>5. Depth(f)' = Depth(f)
    <2>1. IsFiniteSet(has[f]) /\ Cardinality(has[f]) \in Nat
      BY <1>0, DepthType
    <2>2. Cardinality(has'[f]) = Cardinality(has[f]) + 1
      BY <1>1, <1>4, <2>1, FS_AddElement
    <2> QED
      BY SMT, <1>1, <1>4, <2>1, <2>2 DEF Depth
  <1>6. FrameOK(f)'
    BY <1>0, <1>1, <1>4 DEF FrameOK, Locks, None
  <1>7. CpuOK(f[1])'
    BY <1>0, <1>3, <1>4, <1>5, QuietCpu DEF TestAndSet
  <1>8. ASSUME NEW j \in Locks PROVE LockOK(j)'
    <2>0. LockOK(j) /\ LockOK(k)
      BY <1>1 DEF LockInv
    <2>1. CASE j = k
      <3>1. \A g \in Frames : k \notin has[g]
        BY <1>0, <2>0 DEF LockOK
      <3>2. \A g \in Frames : k \in has'[g] <=> g = f
        BY <1>3, <1>4, <3>1 DEF Same
      <3>3. locked'[k] /\ cpu'[k] = None
        BY <1>0, <1>1, <2>0, <3>1 DEF LockOK, TestAndSet, TypeOK
      <3> QED
        BY <1>4, <2>1, <3>2, <3>3 DEF LockOK
    <2>2. CASE j # k
      <3>1. \A g \in Frames : j \in has'[g] <=> j \in has[g]
        BY <1>3, <1>4, <2>2 DEF Same
      <3>2. locked'[j] = locked[j] /\ cpu'[j] = cpu[j]
        BY <1>0, <1>1, <2>2 DEF TestAndSet, TypeOK
      <3> QED
        BY <1>4, <2>0, <3>1, <3>2 DEF LockOK
    <2> QED
      BY <2>1, <2>2
  <1> QED
    BY <1>2, <1>3, <1>6, <1>7, <1>8, StepOfFrame DEF TestAndSet

\* acquire() returns with the CPU noted in the lock.
LEMMA OwnInv ==
  ASSUME LockInv, NEW f \in Frames, Own(f)
  PROVE  LockInv'
  <1> DEFINE k == lk[f]
  <1>0. TypeOK /\ FrameOK(f) /\ At(f, "own") /\ f[1] \in CPUs
    BY InvAt, FrameParts DEF Own
  <1>1. k \in Locks /\ k \in has[f] /\ pc[f] = "own"
    BY <1>0 DEF TypeOK, FrameOK, At, Locks, None
  <1>2. TypeOK' /\ ~panic'
    BY <1>0, <1>1 DEF TypeOK, Own, At
  <1>3. \A g \in Frames \ {f} : Same(g)
    BY <1>0 DEF TypeOK, Own, Same
  <1>4. pc'[f] = "run" /\ lk'[f] = None /\ has' = has /\ off' = off
    BY <1>0 DEF TypeOK, Own
  <1>5. Depth(f)' = Depth(f)
    BY <1>1, <1>4 DEF Depth
  <1>6. FrameOK(f)'
    BY <1>4 DEF FrameOK
  <1>7. CpuOK(f[1])'
    BY <1>0, <1>3, <1>4, <1>5, QuietCpu DEF Own
  <1>8. ASSUME NEW j \in Locks PROVE LockOK(j)'
    <2>0. LockOK(j) /\ j # None
      BY SMT, SpinlockAssumption DEF LockInv, Locks, None
    <2>1. CASE j = k
      <3>1. \A g \in Frames : k \in has[g] => g = f
        BY <1>1, <2>0, <2>1 DEF LockOK
      <3>2. locked'[k] /\ cpu'[k] = f[1]
        BY <1>0, <1>1, <2>0, <2>1 DEF LockOK, Own, TypeOK
      <3> QED
        BY <1>1, <1>4, <2>0, <2>1, <3>1, <3>2 DEF LockOK
    <2>2. CASE j # k
      <3>1. locked'[j] = locked[j] /\ cpu'[j] = cpu[j]
        BY <1>0, <1>1, <2>2 DEF Own, TypeOK
      <3>2. \A g \in Frames : lk'[g] = j <=> lk[g] = j
        BY <1>3, <1>4, <2>0, <2>2 DEF Same
      <3> QED
        BY <1>4, <2>0, <3>1, <3>2 DEF LockOK
    <2> QED
      BY <2>1, <2>2
  <1> QED
    BY <1>2, <1>3, <1>6, <1>7, <1>8, StepOfFrame DEF Own

\* release() of a lock that the frame has passes its test.
LEMMA ReleaseInv ==
  ASSUME LockInv, NEW f \in Frames, NEW k \in Locks, Release(f, k)
  PROVE  LockInv'
  <1>0. TypeOK /\ FrameOK(f) /\ At(f, "run") /\ LockOK(k) /\ k \in has[f] /\ k # None
    BY SMT, InvAt, SpinlockAssumption DEF Release, LockInv, Locks, None
  <1>1. pc[f] = "run" /\ lk[f] = None /\ locked[k] /\ cpu[k] = f[1]
    BY <1>0 DEF At, FrameOK, LockOK
  <1>2. TypeOK' /\ ~panic'
    <2>1. ~panic'
      BY <1>1 DEF Release, Holding
    <2> QED
      BY <1>0, <2>1 DEF TypeOK, Release
  <1>3. \A g \in Frames \ {f} : Same(g)
    BY <1>0 DEF TypeOK, Release, Same
  <1>4. pc'[f] = "clear" /\ lk'[f] = k /\ has' = has /\ off' = off
    BY <1>0 DEF TypeOK, Release
  <1>5. Depth(f)' = Depth(f)
    BY <1>1, <1>4 DEF Depth
  <1>6. FrameOK(f)'
    BY <1>0, <1>4 DEF FrameOK
  <1>7. CpuOK(f[1])'
    BY <1>0, <1>3, <1>4, <1>5, QuietCpu DEF Release
  <1>8. ASSUME NEW j \in Locks PROVE LockOK(j)'
    <2>0. LockOK(j) /\ j # None
      BY SMT, SpinlockAssumption DEF LockInv, Locks, None
    <2>1. CASE j = k
      <3>1. \A g \in Frames : k \in has[g] => g = f
        BY <1>0 DEF LockOK
      <3>2. locked'[k] /\ cpu'[k] = None
        BY <1>0, <1>1 DEF Release, TypeOK
      <3> QED
        BY <1>0, <1>4, <2>1, <3>1, <3>2 DEF LockOK
    <2>2. CASE j # k
      <3>1. locked'[j] = locked[j] /\ cpu'[j] = cpu[j]
        BY <1>0, <2>2 DEF Release, TypeOK
      <3>2. \A g \in Frames : lk'[g] = j <=> lk[g] = j
        BY <1>1, <1>3, <1>4, <2>0, <2>2 DEF Same
      <3> QED
        BY <1>4, <2>0, <3>1, <3>2 DEF LockOK
    <2> QED
      BY <2>1, <2>2
  <1> QED
    BY <1>2, <1>3, <1>6, <1>7, <1>8, StepOfFrame DEF Release

\* release() frees the lock.
LEMMA ClearInv ==
  ASSUME LockInv, NEW f \in Frames, Clear(f)
  PROVE  LockInv'
  <1> DEFINE k == lk[f]
  <1>0. TypeOK /\ FrameOK(f) /\ At(f, "clear")
    BY InvAt DEF Clear
  <1>1. k \in Locks /\ k \in has[f] /\ pc[f] = "clear"
    BY <1>0 DEF TypeOK, FrameOK, At, Locks, None
  <1>2. TypeOK' /\ ~panic'
    <2>1. locked' \in [Locks -> BOOLEAN] /\ has' \in [Frames -> SUBSET Locks]
      BY <1>0, <1>1 DEF TypeOK, Clear
    <2> QED
      BY <1>0, <2>1 DEF TypeOK, Clear, At
  <1>3. \A g \in Frames \ {f} : Same(g)
    BY <1>0 DEF TypeOK, Clear, Same
  <1>4. pc'[f] = "pop" /\ has'[f] = has[f] \ {k} /\ lk'[f] = None /\ off' = off
    BY <1>0 DEF TypeOK, Clear
  <1>5. Depth(f)' = Depth(f)
    <2>1. IsFiniteSet(has[f]) /\ Cardinality(has[f]) \in Nat
      BY <1>0, DepthType
    <2>2. Cardinality(has'[f]) = Cardinality(has[f]) - 1
      <3>1. Cardinality(has[f] \ {k}) = Cardinality(has[f]) - 1
        BY <1>1, <2>1, FS_RemoveElement
      <3> QED
        BY <1>4, <3>1
    <2> QED
      BY SMT, <1>1, <1>4, <2>1, <2>2 DEF Depth
  <1>6. FrameOK(f)'
    BY <1>4 DEF FrameOK
  <1>7. CpuOK(f[1])'
    BY <1>0, <1>3, <1>4, <1>5, QuietCpu DEF Clear
  <1>8. ASSUME NEW j \in Locks PROVE LockOK(j)'
    <2>0. LockOK(j) /\ LockOK(k) /\ j # None
      BY SMT, <1>1, SpinlockAssumption DEF LockInv, Locks, None
    <2>1. CASE j = k
      <3>1. \A g \in Frames : k \in has[g] => g = f
        BY <1>1, <2>0 DEF LockOK
      <3>2. \A g \in Frames : k \notin has'[g]
        BY <1>3, <1>4, <3>1 DEF Same
      <3>3. ~locked'[k] /\ cpu'[k] = None
        BY <1>0, <1>1, <2>0 DEF LockOK, Clear, TypeOK
      <3> QED
        BY <2>1, <3>2, <3>3 DEF LockOK
    <2>2. CASE j # k
      <3>1. \A g \in Frames : j \in has'[g] <=> j \in has[g]
        BY <1>3, <1>4, <2>2 DEF Same
      <3>2. locked'[j] = locked[j] /\ cpu'[j] = cpu[j]
        BY <1>0, <1>1, <2>2 DEF Clear, TypeOK
      <3>3. \A g \in Frames : lk'[g] = j <=> lk[g] = j
        BY <1>3, <1>4, <2>0, <2>2 DEF Same
      <3> QED
        BY <2>0, <3>1, <3>2, <3>3 DEF LockOK
    <2> QED
      BY <2>1, <2>2
  <1> QED
    BY <1>2, <1>3, <1>6, <1>7, <1>8, StepOfFrame DEF Clear

\* pop_off() without a lock begins.
LEMMA PopInv ==
  ASSUME LockInv, NEW f \in Frames, Pop(f)
  PROVE  LockInv'
  <1>0. TypeOK /\ FrameOK(f) /\ At(f, "run")
    BY InvAt DEF Pop
  <1>1. pc[f] = "run" /\ off[f]
    BY DEF Pop, At
  <1>2. TypeOK' /\ ~panic'
    BY <1>0 DEF TypeOK, Pop, At
  <1>3. \A g \in Frames \ {f} : Same(g)
    BY <1>0 DEF TypeOK, Pop, Same
  <1>4. pc'[f] = "pop" /\ has' = has /\ lk' = lk /\ ~off'[f]
    BY <1>0 DEF TypeOK, Pop
  <1>5. Depth(f)' = Depth(f)
    <2>1. Cardinality(has[f]) \in Nat
      BY <1>0, DepthType
    <2> QED
      BY SMT, <1>1, <1>4, <2>1 DEF Depth
  <1>6. FrameOK(f)'
    BY <1>0, <1>1, <1>4 DEF FrameOK
  <1>7. CpuOK(f[1])'
    BY <1>0, <1>3, <1>4, <1>5, QuietCpu DEF Pop
  <1>8. ASSUME NEW j \in Locks PROVE LockOK(j)'
    BY <1>4, SameLock DEF Pop
  <1> QED
    BY <1>2, <1>3, <1>6, <1>7, <1>8, StepOfFrame DEF Pop

\* pop_off(): the last one of a CPU restores how interrupts were.
LEMMA PopOffInv ==
  ASSUME LockInv, NEW f \in Frames, PopOff(f)
  PROVE  LockInv'
  <1> DEFINE c == f[1]
  <1>0. TypeOK /\ FrameOK(f) /\ CpuOK(c) /\ c \in CPUs /\ At(f, "pop")
    BY InvAt, FrameParts DEF PopOff
  <1>1. pc[f] = "pop" /\ Depth(f) > 0 /\ Depth(f) \in Nat
    BY SMT, <1>0, DepthType DEF At
  <1>2. noff[c] \in Nat /\ noff[c] >= 1 /\ ~sie[c]
    BY SMT, <1>0, <1>1, InvAt, Executing DEF CpuOK
  <1>3. TypeOK' /\ ~panic'
    <2>1. ~panic'
      <3>1. ~(noff[c] < 1)
        BY SMT, <1>2
      <3> QED
        BY <1>2, <3>1 DEF PopOff
    <2>2. sie' \in [CPUs -> BOOLEAN]
      BY <1>0 DEF TypeOK, PopOff
    <2> QED
      BY SMT, <1>0, <2>1, <2>2 DEF TypeOK, PopOff
  <1>4. \A g \in Frames \ {f} : Same(g)
    BY <1>0 DEF TypeOK, PopOff, Same
  <1>5. \A d \in CPUs \ {c} : sie'[d] = sie[d] /\ noff'[d] = noff[d] /\ intena'[d] = intena[d]
    BY <1>0 DEF TypeOK, PopOff
  <1>6. pc'[f] = "run" /\ has' = has /\ lk' = lk /\ off' = off
    BY <1>0 DEF TypeOK, PopOff
  <1>7. Depth(f)' = Depth(f) - 1
    <2>1. Cardinality(has[f]) \in Nat
      BY <1>0, DepthType
    <2> QED
      BY SMT, <1>1, <1>6, <2>1 DEF Depth
  <1>8. FrameOK(f)'
    BY <1>0, <1>1, <1>6 DEF FrameOK
  <1>9. CpuOK(c)'
    <2>1. noff'[c] = noff[c] - 1 /\ intena'[c] = intena[c]
      BY <1>0 DEF TypeOK, PopOff
    <2>2. sie'[c] <=> noff[c] = 1 /\ intena[c]
      BY <1>0, <1>2 DEF TypeOK, PopOff
    <2>3. CASE f = <<c, "thread">> /\ pc[<<c, "handler">>] = "none" /\ Depth(<<c, "handler">>) = 0
      <3>1. pc'[<<c, "handler">>] = "none" /\ Depth(<<c, "handler">>)' = 0
        BY <1>4, <2>3, OtherFrame
      <3>2. intena[c] /\ noff[c] = Depth(f)
        BY SMT, <1>0, <1>1, <1>2, <2>3 DEF CpuOK
      <3> QED
        BY SMT, <1>1, <1>2, <1>7, <2>1, <2>2, <2>3, <3>1, <3>2 DEF CpuOK
    <2>4. CASE f = <<c, "handler">>
      <3>1. Depth(<<c, "thread">>)' = Depth(<<c, "thread">>)
        BY <1>4, <2>4, OtherFrame
      <3>2. Depth(<<c, "thread">>) = 0 /\ noff[c] = Depth(f) /\ ~intena[c]
        BY SMT, <1>0, <1>1, <1>2, <2>4 DEF CpuOK
      <3> QED
        BY SMT, <1>1, <1>2, <1>6, <1>7, <2>1, <2>2, <2>4, <3>1, <3>2 DEF CpuOK
    <2> QED
      BY <1>0, <2>3, <2>4, Executing
  <1>10. ASSUME NEW j \in Locks PROVE LockOK(j)'
    BY <1>6, SameLock DEF PopOff
  <1> QED
    BY <1>3, <1>4, <1>5, <1>8, <1>9, <1>10, StepOfFrame

\* An interrupt comes only where no lock is held and no push_off() is open.
LEMMA InterruptInv ==
  ASSUME LockInv, NEW c \in CPUs, Interrupt(c)
  PROVE  LockInv'
  <1> DEFINE f == <<c, "handler">>
  <1>0. TypeOK /\ FrameOK(f) /\ CpuOK(c) /\ f \in Frames /\ f[1] = c /\ sie[c] /\ pc[f] = "none"
    BY InvAt DEF Frames, LockInv, Interrupt
  <1>1. TypeOK' /\ ~panic'
    BY <1>0 DEF TypeOK, Interrupt
  <1>2. \A g \in Frames \ {f} : Same(g)
    BY <1>0 DEF TypeOK, Interrupt, Same
  <1>3. \A d \in CPUs \ {c} : sie'[d] = sie[d] /\ noff'[d] = noff[d] /\ intena'[d] = intena[d]
    BY <1>0 DEF TypeOK, Interrupt
  <1>4. pc'[f] = "run" /\ has' = has /\ off' = off /\ lk' = lk
    BY <1>0 DEF TypeOK, Interrupt
  <1>5. Depth(f)' = Depth(f)
    BY <1>0, <1>4 DEF Depth
  <1>6. FrameOK(f)'
    BY <1>0, <1>4 DEF FrameOK
  <1>7. CpuOK(c)'
    <2>1. Depth(<<c, "thread">>) = 0 /\ Depth(f) = 0 /\ noff[c] = 0
      <3>1. Depth(<<c, "thread">>) \in Nat /\ Depth(f) \in Nat
        BY <1>0, InvAt
      <3> QED
        BY SMT, <1>0, <3>1 DEF CpuOK
    <2>2. Depth(<<c, "thread">>)' = Depth(<<c, "thread">>)
      BY <1>0, <1>2, OtherFrame
    <2>3. noff'[c] = 0 /\ ~sie'[c]
      BY <1>0, <2>1 DEF TypeOK, Interrupt
    <2> QED
      BY SMT, <1>4, <1>5, <2>1, <2>2, <2>3 DEF CpuOK
  <1>8. ASSUME NEW j \in Locks PROVE LockOK(j)'
    BY <1>4, SameLock DEF Interrupt
  <1> QED
    BY <1>0, <1>1, <1>2, <1>3, <1>6, <1>7, <1>8, StepOfFrame

\* A handler returns to a thread that had interrupts on.
LEMMA SretInv ==
  ASSUME LockInv, NEW c \in CPUs, Sret(c)
  PROVE  LockInv'
  <1> DEFINE f == <<c, "handler">>
  <1>0. /\ TypeOK /\ FrameOK(f) /\ CpuOK(c) /\ f \in Frames /\ f[1] = c /\ f[2] = "handler"
        /\ pc[f] = "run" /\ has[f] = {} /\ ~off[f]
    BY InvAt DEF Frames, LockInv, Sret, At
  <1>1. TypeOK' /\ ~panic'
    BY <1>0 DEF TypeOK, Sret, At
  <1>2. \A g \in Frames \ {f} : Same(g)
    BY <1>0 DEF TypeOK, Sret, Same
  <1>3. \A d \in CPUs \ {c} : sie'[d] = sie[d] /\ noff'[d] = noff[d] /\ intena'[d] = intena[d]
    BY <1>0 DEF TypeOK, Sret
  <1>4. pc'[f] = "none" /\ has' = has /\ off' = off /\ lk' = lk
    BY <1>0 DEF TypeOK, Sret
  <1>5. Depth(f) = 0 /\ Depth(f)' = 0
    BY SMT, <1>0, <1>4, FS_EmptySet DEF Depth
  <1>6. FrameOK(f)'
    BY <1>0, <1>4 DEF FrameOK
  <1>7. CpuOK(c)'
    <2>1. Depth(<<c, "thread">>) = 0 /\ noff[c] = 0
      BY SMT, <1>0, <1>5 DEF CpuOK
    <2>2. Depth(<<c, "thread">>)' = Depth(<<c, "thread">>)
      BY <1>0, <1>2, OtherFrame
    <2>3. noff'[c] = 0 /\ sie'[c]
      BY <1>0, <2>1 DEF TypeOK, Sret
    <2> QED
      BY SMT, <1>4, <1>5, <2>1, <2>2, <2>3 DEF CpuOK
  <1>8. ASSUME NEW j \in Locks PROVE LockOK(j)'
    BY <1>4, SameLock DEF Sret
  <1> QED
    BY <1>0, <1>1, <1>2, <1>3, <1>6, <1>7, <1>8, StepOfFrame

-----------------------------------------------------------------------------
\* At boot no lock is taken and interrupts are on.
LEMMA InitInv == Init => LockInv
  <1> SUFFICES ASSUME Init PROVE LockInv
    OBVIOUS
  <1>1. TypeOK /\ ~panic
    <2>1. pc \in [Frames -> {"none", "run", "push", "spin", "own", "clear", "pop"}]
      BY DEF Init
    <2>2. has \in [Frames -> SUBSET Locks] /\ noff \in [CPUs -> Int]
      BY SMT DEF Init
    <2> QED
      BY <2>1, <2>2 DEF Init, TypeOK
  <1>2. \A f \in Frames : Depth(f) = 0
    BY SMT, FS_EmptySet DEF Init, Depth
  <1>3. \A f \in Frames : FrameOK(f)
    BY FrameParts DEF Init, FrameOK
  <1>4. \A k \in Locks : LockOK(k)
    BY DEF Init, LockOK
  <1>5. ASSUME NEW c \in CPUs PROVE CpuOK(c)
    <2>1. <<c, "thread">> \in Frames /\ <<c, "handler">> \in Frames
      BY DEF Frames
    <2> QED
      BY SMT, <1>2, <2>1 DEF Init, CpuOK
  <1> QED
    BY <1>1, <1>3, <1>4, <1>5 DEF LockInv

\* Every instruction keeps the invariant.
LEMMA NextInv == LockInv /\ [Next]_vars => LockInv'
  <1> SUFFICES ASSUME LockInv, [Next]_vars PROVE LockInv'
    OBVIOUS
  <1>1. CASE UNCHANGED vars
    BY SMT, <1>1 DEF vars, LockInv, TypeOK, FrameOK, LockOK, CpuOK, Depth
  <1>2. CASE \E f \in Frames, k \in Locks \cup {None} : Push(f, k)
    BY <1>2, PushInv
  <1>3. CASE \E f \in Frames, k \in Locks : Release(f, k)
    BY <1>3, ReleaseInv
  <1>4. CASE \E f \in Frames : PushOff(f) \/ TestAndSet(f) \/ Own(f)
    BY <1>4, PushOffInv, TestAndSetInv, OwnInv
  <1>5. CASE \E f \in Frames : Clear(f) \/ Pop(f) \/ PopOff(f)
    BY <1>5, ClearInv, PopInv, PopOffInv
  <1>6. CASE \E c \in CPUs : Interrupt(c) \/ Sret(c)
    BY <1>6, InterruptInv, SretInv
  <1> QED
    BY <1>1, <1>2, <1>3, <1>4, <1>5, <1>6 DEF Next

\* The locks' invariant holds always, on any number of CPUs and for any number of locks.
THEOREM LocksInvariant == Spec => []LockInv
  BY InitInv, NextInv, PTL DEF Spec

\* acquire() and release() give mutual exclusion between the threads and the handlers of
\* all CPUs.
THEOREM LocksExclude == Spec => []MutualExclusion
  <1>1. LockInv => MutualExclusion
    BY DEF LockInv, LockOK, MutualExclusion
  <1> QED
    BY <1>1, LocksInvariant, PTL

\* push_off() and pop_off() count exactly, so that interrupts are off while a lock is
\* held and on again after the last one is released.
THEOREM LocksNest == Spec => []NoffExact
  <1>1. LockInv => NoffExact
    BY DEF LockInv, CpuOK, NoffExact
  <1> QED
    BY <1>1, LocksInvariant, PTL

\* No interrupt handler runs over code that holds a lock, and none of the panics of
\* spinlock.c happens in code that takes the locks in their order.
THEOREM LocksSafe == Spec => [](NoSelfDeadlock /\ NeverPanics)
  <1>1. LockInv => NoSelfDeadlock /\ NeverPanics
    BY DEF LockInv, CpuOK, NoSelfDeadlock, NeverPanics
  <1> QED
    BY <1>1, LocksInvariant, PTL
=============================================================================
