------------------------------ MODULE ProcList ------------------------------
(***************************************************************************)
(* The linked lists of kernel/proc.c: add_proc_to_list() and               *)
(* remove_proc_from_list() with the per-list lock, the per-process         *)
(* stateLock and the hand-over-hand walk.  One action per acquire(): the   *)
(* action takes the lock and runs on to just before the next acquire().    *)
(* Spinlocks disable interrupts, so a CPU runs a list operation without    *)
(* being preempted and the operation's locals are per CPU.                 *)
(*                                                                         *)
(* content is a history variable: the sequence each list stands for. No    *)
(* step of the algorithm reads it, except the callers' contract (which     *)
(* list a process may be removed from, when it may be added).              *)
(***************************************************************************)
EXTENDS ProcListSpec

CONSTANTS Cpus, NoCpu

ASSUME CpuAssumption == NoCpu \notin Cpus

Nil == -1

VARIABLES first,       \* list.first
          next,        \* proc.next_index_in_list
          listLock,    \* list.lock: the CPU that holds it, or NoCpu
          stateLock,   \* proc.stateLock
          procLock,    \* proc.lock, which every caller holds around a call
          pc,          \* where a CPU is in the list code
          lst, arg,    \* the arguments l and indexInProc
          prev, curr, nxt, canRelease   \* the locals of the walks

locks == <<listLock, stateLock, procLock>>
locals == <<lst, arg, prev, curr, nxt, canRelease>>
vars == <<content, first, next, locks, pc, locals>>

PCs == {"idle", "held", "addEmpty", "addHead", "addWalk",
        "remFirst", "remHead", "remWalk", "panic"}

\* procinit() has run: the unused list links the entries in table order.
ListInit ==
  /\ Init
  /\ first = [l \in Lists |-> IF l = UnusedList /\ NPROC > 0 THEN 0 ELSE Nil]
  /\ next = [p \in Procs |-> IF p = NPROC - 1 THEN Nil ELSE p + 1]
  /\ listLock = [l \in Lists |-> NoCpu]
  /\ stateLock = [p \in Procs |-> NoCpu]
  /\ procLock = [p \in Procs |-> NoCpu]
  /\ pc = [c \in Cpus |-> "idle"]
  /\ lst = [c \in Cpus |-> UnusedList]
  /\ arg = [c \in Cpus |-> Nil]
  /\ prev = [c \in Cpus |-> Nil]
  /\ curr = [c \in Cpus |-> Nil]
  /\ nxt = [c \in Cpus |-> Nil]
  /\ canRelease = [c \in Cpus |-> FALSE]

Goto(c, label) == pc' = [pc EXCEPT ![c] = label]

\* Return to the caller; the locals are dead and go back to their initial values.
Return(c) ==
  /\ Goto(c, "held")
  /\ lst' = [lst EXCEPT ![c] = UnusedList]
  /\ prev' = [prev EXCEPT ![c] = Nil]
  /\ curr' = [curr EXCEPT ![c] = Nil]
  /\ nxt' = [nxt EXCEPT ![c] = Nil]
  /\ canRelease' = [canRelease EXCEPT ![c] = FALSE]
  /\ UNCHANGED arg

\* release(&l->lock) if the walk still holds it.
ReleaseListIf(c, cond) ==
  listLock' = IF cond THEN [listLock EXCEPT ![lst[c]] = NoCpu] ELSE listLock

-----------------------------------------------------------------------------
(* The callers: acquire(&p->lock), move p between lists, release.          *)

AcquireProc(c, p) ==
  /\ pc[c] = "idle" /\ procLock[p] = NoCpu
  /\ procLock' = [procLock EXCEPT ![p] = c]
  /\ arg' = [arg EXCEPT ![c] = p]
  /\ Goto(c, "held")
  /\ UNCHANGED <<content, first, next, listLock, stateLock, lst, prev, curr, nxt, canRelease>>

ReleaseProc(c) ==
  /\ pc[c] = "held"
  /\ procLock' = [procLock EXCEPT ![arg[c]] = NoCpu]
  /\ arg' = [arg EXCEPT ![c] = Nil]
  /\ Goto(c, "idle")
  /\ UNCHANGED <<content, first, next, listLock, stateLock, lst, prev, curr, nxt, canRelease>>

-----------------------------------------------------------------------------
(* add_proc_to_list(l, arg)                                                *)

\* acquire(&l->lock); an empty list gets its first element here.
AddEnter(c, l) ==
  /\ pc[c] = "held" /\ OffList(arg[c])
  /\ listLock[l] = NoCpu
  /\ listLock' = [listLock EXCEPT ![l] = c]
  /\ lst' = [lst EXCEPT ![c] = l]
  /\ IF first[l] = Nil
     THEN /\ first' = [first EXCEPT ![l] = arg[c]]
          /\ content' = [content EXCEPT ![l] = Append(@, arg[c])]
          /\ Goto(c, "addEmpty")
     ELSE /\ UNCHANGED <<first, content>>
          /\ Goto(c, "addHead")
  /\ UNCHANGED <<next, stateLock, procLock, arg, prev, curr, nxt, canRelease>>

\* acquire and release the new element's stateLock around next = -1.
AddEmpty(c) ==
  /\ pc[c] = "addEmpty" /\ stateLock[arg[c]] = NoCpu
  /\ next' = [next EXCEPT ![first[lst[c]]] = Nil]
  /\ listLock' = [listLock EXCEPT ![lst[c]] = NoCpu]
  /\ Return(c)
  /\ UNCHANGED <<content, first, stateLock, procLock>>

\* acquire(&proc[l->first].stateLock); curr, next = ...
AddHead(c) ==
  /\ pc[c] = "addHead" /\ stateLock[first[lst[c]]] = NoCpu
  /\ stateLock' = [stateLock EXCEPT ![first[lst[c]]] = c]
  /\ curr' = [curr EXCEPT ![c] = first[lst[c]]]
  /\ nxt' = [nxt EXCEPT ![c] = next[first[lst[c]]]]
  /\ canRelease' = [canRelease EXCEPT ![c] = TRUE]
  /\ Goto(c, "addWalk")
  /\ UNCHANGED <<content, first, next, listLock, procLock, lst, arg, prev>>

\* One turn of the loop: lock the next element, then let the current one go.
AddWalk(c) ==
  /\ pc[c] = "addWalk" /\ nxt[c] # Nil
  /\ stateLock[nxt[c]] = NoCpu
  /\ stateLock' = [stateLock EXCEPT ![nxt[c]] = c, ![curr[c]] = NoCpu]
  /\ curr' = [curr EXCEPT ![c] = nxt[c]]
  /\ nxt' = [nxt EXCEPT ![c] = next[nxt[c]]]
  /\ ReleaseListIf(c, canRelease[c])
  /\ canRelease' = [canRelease EXCEPT ![c] = FALSE]
  /\ UNCHANGED <<content, first, next, procLock, pc, lst, arg, prev>>

\* At the tail: acquire the new element's stateLock, link it, release all.
AddLink(c) ==
  /\ pc[c] = "addWalk" /\ nxt[c] = Nil
  /\ stateLock[arg[c]] = NoCpu
  /\ next' = [next EXCEPT ![curr[c]] = arg[c], ![arg[c]] = Nil]
  /\ stateLock' = [stateLock EXCEPT ![curr[c]] = NoCpu]
  /\ ReleaseListIf(c, canRelease[c])
  /\ content' = [content EXCEPT ![lst[c]] = Append(@, arg[c])]
  /\ Return(c)
  /\ UNCHANGED <<first, procLock>>

-----------------------------------------------------------------------------
(* remove_proc_from_list(l, arg)                                           *)

\* acquire(&l->lock) and the three-way test on l->first.
RemoveEnter(c, l) ==
  /\ pc[c] = "held" /\ OnList(arg[c], l)
  /\ listLock[l] = NoCpu
  /\ listLock' = [listLock EXCEPT ![l] = c]
  /\ lst' = [lst EXCEPT ![c] = l]
  /\ Goto(c, CASE first[l] = Nil -> "panic"
               [] first[l] = arg[c] -> "remFirst"
               [] OTHER -> "remHead")
  /\ UNCHANGED <<content, first, next, stateLock, procLock, arg, prev, curr, nxt, canRelease>>

\* Variant: the new head is the next table entry.
RemoveFirstElementByIndex(c) ==
  /\ pc[c] = "remFirst" /\ stateLock[arg[c]] = NoCpu
  /\ first' = [first EXCEPT ![lst[c]] = first[lst[c]] + 1]
  /\ next' = [next EXCEPT ![arg[c]] = Nil]
  /\ listLock' = [listLock EXCEPT ![lst[c]] = NoCpu]
  /\ content' = [content EXCEPT ![lst[c]] = Without(@, arg[c])]
  /\ Return(c)
  /\ UNCHANGED <<stateLock, procLock>>

RemoveFirstElement(c) ==
  /\ pc[c] = "remFirst" /\ stateLock[arg[c]] = NoCpu
  /\ first' = [first EXCEPT ![lst[c]] = next[first[lst[c]]]]
  /\ next' = [next EXCEPT ![arg[c]] = Nil]
  /\ listLock' = [listLock EXCEPT ![lst[c]] = NoCpu]
  /\ content' = [content EXCEPT ![lst[c]] = Without(@, arg[c])]
  /\ Return(c)
  /\ UNCHANGED <<stateLock, procLock>>

RemoveHead(c) ==
  /\ pc[c] = "remHead" /\ stateLock[first[lst[c]]] = NoCpu
  /\ stateLock' = [stateLock EXCEPT ![first[lst[c]]] = c]
  /\ prev' = [prev EXCEPT ![c] = Nil]
  /\ curr' = [curr EXCEPT ![c] = first[lst[c]]]
  /\ nxt' = [nxt EXCEPT ![c] = next[first[lst[c]]]]
  /\ canRelease' = [canRelease EXCEPT ![c] = TRUE]
  /\ Goto(c, "remWalk")
  /\ UNCHANGED <<content, first, next, listLock, procLock, lst, arg>>

\* Variant: the walk does not wait for the next element's lock.
RemoveWalkRacing(c) ==
  /\ pc[c] = "remWalk" /\ nxt[c] \notin {arg[c], Nil}
  /\ stateLock' = [p \in Procs |-> IF p = nxt[c] THEN c
                                     ELSE IF p = prev[c] THEN NoCpu ELSE stateLock[p]]
  /\ prev' = [prev EXCEPT ![c] = curr[c]]
  /\ curr' = [curr EXCEPT ![c] = nxt[c]]
  /\ nxt' = [nxt EXCEPT ![c] = next[nxt[c]]]
  /\ ReleaseListIf(c, canRelease[c])
  /\ canRelease' = [canRelease EXCEPT ![c] = FALSE]
  /\ UNCHANGED <<content, first, next, procLock, pc, lst, arg>>

\* One turn of the loop.  There is no test for the end of the list: with
\* nxt = Nil the code would index proc[-1].
RemoveWalk(c) ==
  /\ pc[c] = "remWalk" /\ nxt[c] \notin {arg[c], Nil}
  /\ stateLock[nxt[c]] = NoCpu
  /\ stateLock' = [p \in Procs |-> IF p = nxt[c] THEN c
                                     ELSE IF p = prev[c] THEN NoCpu ELSE stateLock[p]]
  /\ prev' = [prev EXCEPT ![c] = curr[c]]
  /\ curr' = [curr EXCEPT ![c] = nxt[c]]
  /\ nxt' = [nxt EXCEPT ![c] = next[nxt[c]]]
  /\ ReleaseListIf(c, canRelease[c])
  /\ canRelease' = [canRelease EXCEPT ![c] = FALSE]
  /\ UNCHANGED <<content, first, next, procLock, pc, lst, arg>>

\* Variant: the removed element keeps its next_index_in_list.
RemoveUnlinkStale(c) ==
  /\ pc[c] = "remWalk" /\ nxt[c] = arg[c]
  /\ stateLock[nxt[c]] = NoCpu
  /\ next' = [next EXCEPT ![curr[c]] = next[nxt[c]]]
  /\ stateLock' = [p \in Procs |-> IF p \in {curr[c], prev[c]} THEN NoCpu ELSE stateLock[p]]
  /\ ReleaseListIf(c, canRelease[c])
  /\ content' = [content EXCEPT ![lst[c]] = Without(@, arg[c])]
  /\ Return(c)
  /\ UNCHANGED <<first, procLock>>

\* The target is next: lock it, unlink it, release everything.
RemoveUnlink(c) ==
  /\ pc[c] = "remWalk" /\ nxt[c] = arg[c]
  /\ stateLock[nxt[c]] = NoCpu
  /\ next' = [next EXCEPT ![curr[c]] = next[nxt[c]], ![nxt[c]] = Nil]
  /\ stateLock' = [p \in Procs |-> IF p \in {curr[c], prev[c]} THEN NoCpu ELSE stateLock[p]]
  /\ ReleaseListIf(c, canRelease[c])
  /\ content' = [content EXCEPT ![lst[c]] = Without(@, arg[c])]
  /\ Return(c)
  /\ UNCHANGED <<first, procLock>>

-----------------------------------------------------------------------------
CpuStep(c) ==
  \/ \E p \in Procs : AcquireProc(c, p)
  \/ ReleaseProc(c)
  \/ \E l \in Lists : AddEnter(c, l)
  \/ AddEmpty(c) \/ AddHead(c) \/ AddWalk(c) \/ AddLink(c)
  \/ \E l \in Lists : RemoveEnter(c, l)
  \/ RemoveFirstElement(c) \/ RemoveHead(c) \/ RemoveWalk(c) \/ RemoveUnlink(c)

ListNext == \E c \in Cpus : CpuStep(c)

ListSpec == ListInit /\ [][ListNext]_vars

-----------------------------------------------------------------------------
(* Properties                                                              *)

\* Every variable keeps its type.
TypeOK ==
  /\ content \in [Lists -> Seq(Procs)]
  /\ first \in [Lists -> Procs \cup {Nil}]
  /\ next \in [Procs -> Procs \cup {Nil}]
  /\ listLock \in [Lists -> Cpus \cup {NoCpu}]
  /\ stateLock \in [Procs -> Cpus \cup {NoCpu}]
  /\ procLock \in [Procs -> Cpus \cup {NoCpu}]
  /\ pc \in [Cpus -> PCs]
  /\ lst \in [Cpus -> Lists]
  /\ arg \in [Cpus -> Procs \cup {Nil}]
  /\ prev \in [Cpus -> Procs \cup {Nil}]
  /\ curr \in [Cpus -> Procs \cup {Nil}]
  /\ nxt \in [Cpus -> Procs \cup {Nil}]
  /\ canRelease \in [Cpus -> BOOLEAN]

\* The pointers of every list spell out exactly the processes that were added
\* and not removed, in order, at every moment, also in the middle of other
\* CPUs' walks, and next_index_in_list of a process off every list is -1: no
\* element is lost behind a concurrent unlink and no two lists get joined.
Encoded ==
  /\ \A l \in Lists :
       /\ first[l] = IF content[l] = << >> THEN Nil ELSE content[l][1]
       /\ \A i \in 1 .. Len(content[l]) :
            next[content[l][i]] = IF i = Len(content[l]) THEN Nil ELSE content[l][i + 1]
  /\ \A p \in Procs : OffList(p) => next[p] = Nil

\* remove_proc_from_list() never panics on an empty list and its loop, which
\* has no end-of-list test, never steps off the list to proc[-1].
RemoveFindsTarget ==
  \A c \in Cpus : /\ pc[c] # "panic"
                  /\ pc[c] = "remWalk" => nxt[c] # Nil
=============================================================================
