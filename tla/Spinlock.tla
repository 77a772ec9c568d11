------------------------------ MODULE Spinlock ------------------------------
(***************************************************************************)
(* Spin locks and the nesting of push_off() and pop_off() (spinlock.c).    *)
(*                                                                         *)
(* On each CPU there is the code of a thread and, when interrupts are on,  *)
(* that of an interrupt handler on top of it, which runs until it returns. *)
(* Both take any lock, in the order of the locks' numbers, and push_off()  *)
(* without a lock, as myproc() does, while they hold others or none.  A    *)
(* step is a read or write of the lock, or of the CPU's own state while    *)
(* nothing can come in between.  A local variable that is no longer used   *)
(* is reset.                                                               *)
(***************************************************************************)
EXTENDS Integers, FiniteSets

CONSTANTS CPUs, NLOCK

\* There are finitely many CPUs and locks, and 0 is no CPU.
ASSUME SpinlockAssumption == NLOCK \in Nat /\ IsFiniteSet(CPUs) /\ 0 \notin CPUs

Locks == 1 .. NLOCK
None == 0                       \* no lock, no CPU
Frames == CPUs \X {"thread", "handler"}

VARIABLES
  locked, cpu,          \* the fields of each lock
  sie, noff, intena,    \* of each CPU: interrupts are on, and struct cpu
  pc, lk, old,          \* of each frame: where it is, in a call for which lock, and push_off()'s old
  has,                  \* the locks that a frame has taken
  off,                  \* the frame is between push_off() and pop_off() without a lock
  panic

vars == <<locked, cpu, sie, noff, intena, pc, lk, old, has, off, panic>>

Init ==
  /\ locked = [k \in Locks |-> FALSE] /\ cpu = [k \in Locks |-> None]
  /\ sie = [c \in CPUs |-> TRUE] /\ noff = [c \in CPUs |-> 0] /\ intena = [c \in CPUs |-> FALSE]
  /\ pc = [f \in Frames |-> IF f[2] = "thread" THEN "run" ELSE "none"]
  /\ lk = [f \in Frames |-> None] /\ old = [f \in Frames |-> FALSE]
  /\ has = [f \in Frames |-> {}] /\ off = [f \in Frames |-> FALSE]
  /\ panic = FALSE

\* f is what its CPU executes, and is at label.
At(f, label) == /\ ~panic /\ pc[f] = label
                /\ f[2] = "thread" => pc[<<f[1], "handler">>] = "none"

\* holding(k), on CPU c.
Holding(c, k) == locked[k] /\ cpu[k] = c

\* acquire(k), or push_off() when k is None: int old = intr_get().
Push(f, k) ==
  /\ At(f, "run")
  /\ IF k = None THEN ~off[f] ELSE \A j \in has[f] : j < k
  /\ pc' = [pc EXCEPT ![f] = "push"]
  /\ lk' = [lk EXCEPT ![f] = k]
  /\ old' = [old EXCEPT ![f] = sie[f[1]]]
  /\ UNCHANGED <<locked, cpu, sie, noff, intena, has, off, panic>>

\* Variant: intena is not saved by the outermost push_off() only.
PushOffAlways(f) ==
  LET c == f[1]
  IN  /\ At(f, "push")
      /\ sie' = [sie EXCEPT ![c] = FALSE]
      /\ intena' = [intena EXCEPT ![c] = old[f]]
      /\ noff' = [noff EXCEPT ![c] = @ + 1]
      /\ pc' = [pc EXCEPT ![f] = IF lk[f] = None THEN "run" ELSE "spin"]
      /\ off' = [off EXCEPT ![f] = @ \/ lk[f] = None]
      /\ old' = [old EXCEPT ![f] = FALSE]
      /\ panic' = (lk[f] # None /\ Holding(c, lk[f]))
      /\ UNCHANGED <<locked, cpu, lk, has>>

\* The rest of push_off(), and acquire()'s test of holding().
PushOff(f) ==
  LET c == f[1]
  IN  /\ At(f, "push")
      /\ sie' = [sie EXCEPT ![c] = FALSE]
      /\ intena' = IF noff[c] = 0 THEN [intena EXCEPT ![c] = old[f]] ELSE intena
      /\ noff' = [noff EXCEPT ![c] = @ + 1]
      /\ pc' = [pc EXCEPT ![f] = IF lk[f] = None THEN "run" ELSE "spin"]
      /\ off' = [off EXCEPT ![f] = @ \/ lk[f] = None]
      /\ old' = [old EXCEPT ![f] = FALSE]
      /\ panic' = (lk[f] # None /\ Holding(c, lk[f]))
      /\ UNCHANGED <<locked, cpu, lk, has>>

\* Variant: the lock is tested and then set.
TestAndSetBlind(f) ==
  /\ At(f, "spin")
  /\ locked' = [locked EXCEPT ![lk[f]] = TRUE]
  /\ has' = [has EXCEPT ![f] = @ \cup {lk[f]}]
  /\ pc' = [pc EXCEPT ![f] = "own"]
  /\ UNCHANGED <<cpu, sie, noff, intena, lk, old, off, panic>>

\* __sync_lock_test_and_set() finds it free.
TestAndSet(f) ==
  /\ At(f, "spin") /\ ~locked[lk[f]]
  /\ locked' = [locked EXCEPT ![lk[f]] = TRUE]
  /\ has' = [has EXCEPT ![f] = @ \cup {lk[f]}]
  /\ pc' = [pc EXCEPT ![f] = "own"]
  /\ UNCHANGED <<cpu, sie, noff, intena, lk, old, off, panic>>

\* lk->cpu = mycpu()
Own(f) ==
  /\ At(f, "own")
  /\ cpu' = [cpu EXCEPT ![lk[f]] = f[1]]
  /\ lk' = [lk EXCEPT ![f] = None]
  /\ pc' = [pc EXCEPT ![f] = "run"]
  /\ UNCHANGED <<locked, sie, noff, intena, old, has, off, panic>>

\* release(k): the test of holding(), and lk->cpu = 0.
Release(f, k) ==
  /\ At(f, "run") /\ k \in has[f]
  /\ panic' = ~Holding(f[1], k)
  /\ cpu' = [cpu EXCEPT ![k] = None]
  /\ lk' = [lk EXCEPT ![f] = k]
  /\ pc' = [pc EXCEPT ![f] = "clear"]
  /\ UNCHANGED <<locked, sie, noff, intena, old, has, off>>

\* Variant: interrupts come on before the lock is free.
ClearLate(f) ==
  /\ At(f, "clear")
  /\ locked' = [locked EXCEPT ![lk[f]] = FALSE]
  /\ has' = [has EXCEPT ![f] = @ \ {lk[f]}]
  /\ sie' = [sie EXCEPT ![f[1]] = TRUE]
  /\ pc' = [pc EXCEPT ![f] = "pop"]
  /\ UNCHANGED <<cpu, noff, intena, lk, old, off, panic>>

\* __sync_lock_release()
Clear(f) ==
  /\ At(f, "clear")
  /\ locked' = [locked EXCEPT ![lk[f]] = FALSE]
  /\ has' = [has EXCEPT ![f] = @ \ {lk[f]}]
  /\ lk' = [lk EXCEPT ![f] = None]
  /\ pc' = [pc EXCEPT ![f] = "pop"]
  /\ UNCHANGED <<cpu, sie, noff, intena, old, off, panic>>

\* pop_off() without a lock begins.
Pop(f) ==
  /\ At(f, "run") /\ off[f]
  /\ off' = [off EXCEPT ![f] = FALSE]
  /\ pc' = [pc EXCEPT ![f] = "pop"]
  /\ UNCHANGED <<locked, cpu, sie, noff, intena, lk, old, has, panic>>

\* Variant: the first pop_off() turns interrupts on.
PopOffFirst(f) ==
  LET c == f[1]
  IN  /\ At(f, "pop")
      /\ panic' = (sie[c] \/ noff[c] < 1)
      /\ noff' = [noff EXCEPT ![c] = @ - 1]
      /\ sie' = [sie EXCEPT ![c] = @ \/ intena[c]]
      /\ pc' = [pc EXCEPT ![f] = "run"]
      /\ UNCHANGED <<locked, cpu, intena, lk, old, has, off>>

\* pop_off(): the outermost one turns interrupts on if they were.
PopOff(f) ==
  LET c == f[1]
  IN  /\ At(f, "pop")
      /\ panic' = (sie[c] \/ noff[c] < 1)
      /\ noff' = [noff EXCEPT ![c] = @ - 1]
      /\ sie' = [sie EXCEPT ![c] = @ \/ (noff[c] = 1 /\ intena[c])]
      /\ pc' = [pc EXCEPT ![f] = "run"]
      /\ UNCHANGED <<locked, cpu, intena, lk, old, has, off>>

\* A trap turns interrupts off, and sret turns them on again.
Interrupt(c) ==
  /\ sie[c] /\ ~panic /\ pc[<<c, "handler">>] = "none"
  /\ sie' = [sie EXCEPT ![c] = FALSE]
  /\ pc' = [pc EXCEPT ![<<c, "handler">>] = "run"]
  /\ UNCHANGED <<locked, cpu, noff, intena, lk, old, has, off, panic>>
Sret(c) ==
  LET f == <<c, "handler">>
  IN  /\ At(f, "run") /\ has[f] = {} /\ ~off[f]
      /\ sie' = [sie EXCEPT ![c] = TRUE]
      /\ pc' = [pc EXCEPT ![f] = "none"]
      /\ UNCHANGED <<locked, cpu, noff, intena, lk, old, has, off, panic>>

Next ==
  \/ \E f \in Frames : \/ \E k \in Locks \cup {None} : Push(f, k)
                       \/ \E k \in Locks : Release(f, k)
                       \/ PushOff(f) \/ TestAndSet(f) \/ Own(f) \/ Clear(f) \/ Pop(f) \/ PopOff(f)
  \/ \E c \in CPUs : Interrupt(c) \/ Sret(c)

Spec == Init /\ [][Next]_vars

-----------------------------------------------------------------------------
(* Properties                                                              *)

\* Every variable keeps its type.
TypeOK ==
  /\ locked \in [Locks -> BOOLEAN] /\ cpu \in [Locks -> CPUs \cup {None}]
  /\ sie \in [CPUs -> BOOLEAN] /\ noff \in [CPUs -> Int] /\ intena \in [CPUs -> BOOLEAN]
  /\ pc \in [Frames -> {"none", "run", "push", "spin", "own", "clear", "pop"}]
  /\ lk \in [Frames -> Locks \cup {None}] /\ old \in [Frames -> BOOLEAN]
  /\ has \in [Frames -> SUBSET Locks] /\ off \in [Frames -> BOOLEAN]
  /\ panic \in BOOLEAN

\* A lock is held by at most one frame of all CPUs at a time, and only while
\* acquire() has set it.
MutualExclusion ==
  \A k \in Locks : \A f \in Frames : k \in has[f] => locked[k] /\ \A g \in Frames : k \in has[g] => g = f

\* The depth of push_off() that a frame accounts for.
Depth(f) == Cardinality(has[f]) + (IF off[f] THEN 1 ELSE 0) + (IF pc[f] \in {"spin", "pop"} THEN 1 ELSE 0)

\* noff counts exactly the locks the CPU's code holds or waits for and the push_off()s
\* that are open; while it is not 0, interrupts are off.  So a handler never finds a
\* lock that the code it interrupts holds, and a thread with none has interrupts on.
NoffExact ==
  \A c \in CPUs : /\ noff[c] = Depth(<<c, "thread">>) + Depth(<<c, "handler">>)
                  /\ noff[c] > 0 => ~sie[c]
                  /\ noff[c] = 0 /\ pc[<<c, "handler">>] = "none" => sie[c]

\* A handler runs only over code that holds no lock: it cannot spin on a lock of its
\* own CPU, which would never be released.
NoSelfDeadlock ==
  \A c \in CPUs : pc[<<c, "handler">>] # "none" => Depth(<<c, "thread">>) = 0

\* None of the panics of acquire(), release() and pop_off() happens.
NeverPanics == ~panic

-----------------------------------------------------------------------------
(* The inductive invariant                                                 *)

\* Where a frame is says which lock it is about and which of the locks it has; code
\* that begins a push_off() at depth 0 has seen interrupts as they were.
FrameOK(f) ==
  /\ pc[f] \in {"none", "run", "pop"} => lk[f] = None
  /\ pc[f] \in {"spin", "own", "clear"} => lk[f] # None
  /\ pc[f] \in {"push", "spin"} /\ lk[f] # None => \A j \in has[f] : j < lk[f]
  /\ pc[f] \in {"own", "clear"} => lk[f] \in has[f]
  /\ pc[f] = "none" => f[2] = "handler" /\ has[f] = {} /\ ~off[f]
  /\ pc[f] = "push" => /\ lk[f] = None => ~off[f]
                       /\ f[2] = "handler" => ~old[f]
                       /\ f[2] = "thread" /\ Depth(f) = 0 => old[f]

\* A lock is set exactly while one frame has it, and names that frame's CPU between
\* the end of acquire() and the begin of release().
LockOK(k) ==
  /\ \A f \in Frames : k \in has[f] => locked[k] /\ cpu[k] = IF lk[f] = k THEN None ELSE f[1]
  /\ \A f, g \in Frames : k \in has[f] /\ k \in has[g] => f = g
  /\ (\A f \in Frames : k \notin has[f]) => ~locked[k] /\ cpu[k] = None

\* What struct cpu records is what the code on the CPU did.
CpuOK(c) ==
  LET t == <<c, "thread">>
      h == <<c, "handler">>
  IN  /\ noff[c] = Depth(t) + Depth(h)
      /\ noff[c] > 0 => ~sie[c]
      /\ noff[c] = 0 /\ pc[h] = "none" => sie[c]
      /\ pc[h] # "none" => Depth(t) = 0 /\ ~sie[c]
      /\ noff[c] > 0 => (intena[c] <=> pc[h] = "none")

\* What acquire(), release(), push_off() and pop_off() keep true at every step, on any
\* number of CPUs, and from which the properties above follow.
LockInv ==
  /\ TypeOK /\ ~panic
  /\ \A f \in Frames : FrameOK(f)
  /\ \A k \in Locks : LockOK(k)
  /\ \A c \in CPUs : CpuOK(c)
=============================================================================
