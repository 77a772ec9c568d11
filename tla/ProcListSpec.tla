---------------------------- MODULE ProcListSpec ----------------------------
(***************************************************************************)
(* What the process lists of kernel/proc.c promise their callers: every    *)
(* list is a FIFO sequence of process-table indices, a process is on at    *)
(* most one list, and adding to the tail or removing from anywhere is one  *)
(* indivisible step.  ProcList is the pointer-and-lock implementation.     *)
(***************************************************************************)
EXTENDS Integers, Sequences

CONSTANTS NPROC,       \* size of the process table
          Lists,       \* the lists: unused, zombie, sleeping, one runnable per CPU
          UnusedList   \* the list procinit() fills

ASSUME ListAssumption == NPROC \in Nat /\ UnusedList \in Lists

Procs == 0 .. NPROC - 1

VARIABLE content       \* content[l]: the processes on list l, first to last

OnList(p, l) == \E i \in 1 .. Len(content[l]) : content[l][i] = p

OffList(p) == \A l \in Lists : ~OnList(p, l)

\* The sequence s without p, which occurs in it once.
Without(s, p) ==
  LET i == CHOOSE k \in 1 .. Len(s) : s[k] = p
  IN  [j \in 1 .. Len(s) - 1 |-> IF j < i THEN s[j] ELSE s[j + 1]]

\* The table as procinit() leaves it: every entry on the unused list, in order.
Init == content = [l \in Lists |->
                     IF l = UnusedList THEN [i \in 1 .. NPROC |-> i - 1] ELSE << >>]

\* add_proc_to_list(l, p)
AddProc(l, p) ==
  /\ OffList(p)
  /\ content' = [content EXCEPT ![l] = Append(@, p)]

\* remove_proc_from_list(l, p)
RemoveProc(l, p) ==
  /\ OnList(p, l)
  /\ content' = [content EXCEPT ![l] = Without(@, p)]

Next == \E l \in Lists, p \in Procs : AddProc(l, p) \/ RemoveProc(l, p)

Spec == Init /\ [][Next]_content
=============================================================================
