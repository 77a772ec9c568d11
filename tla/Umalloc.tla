------------------------------- MODULE Umalloc -------------------------------
(***************************************************************************)
(* The user-level allocator (user/umalloc.c): a circular list of free      *)
(* blocks, sorted by address, in which neighbours are joined.              *)
(*                                                                         *)
(* Addresses and sizes count headers.  base is at address 0, below the     *)
(* heap, whose first address is 1.  s = [ptr, size, freep, brk] is what    *)
(* the program's memory holds; sbrk() may fail, and the program may call   *)
(* it itself, so that the heap has holes.  Fields that are no longer those *)
(* of a free block's header are the program's, and 0 here.                 *)
(***************************************************************************)
EXTENDS Integers, FiniteSets

CONSTANTS MaxHeap,      \* where sbrk() fails
          MinCore,      \* the 4096 of morecore()
          Sizes,        \* sizes of malloc(), in headers
          MaxHoles      \* calls of sbrk() by the program

VARIABLES s, used, holes

vars == <<s, used, holes>>

Null == -1
Addrs == 0 .. MaxHeap

Init ==
  /\ s = [ptr |-> [a \in Addrs |-> 0], size |-> [a \in Addrs |-> 0], freep |-> Null, brk |-> 1]
  /\ used = {}          \* the blocks malloc() has returned
  /\ holes = {}         \* what the program got from sbrk()

\* free(): the block of the list behind which bp belongs, from p on.
RECURSIVE Before(_, _, _)
Before(m, p, bp) ==
  LET next == m.ptr[p]
  IN  IF (bp > p /\ bp < next) \/ (p >= next /\ (bp > p \/ bp < next)) THEN p ELSE Before(m, next, bp)

\* Variant: the block is not joined with the one before it.
freeApart(m, bp) ==
  LET p == Before(m, m.freep, bp)
      next == m.ptr[p]
      up == bp + m.size[bp] = next
  IN  [m EXCEPT !.size[bp] = IF up THEN @ + m.size[next] ELSE @,
                !.ptr[bp] = IF up THEN m.ptr[next] ELSE next, !.ptr[p] = bp, !.freep = p]

\* free(bp): joined with the block behind it, then with the one before it.
free(m, bp) ==
  LET p == Before(m, m.freep, bp)
      next == m.ptr[p]
      up == bp + m.size[bp] = next
      m1 == IF up THEN [m EXCEPT !.size[bp] = @ + m.size[next], !.ptr[bp] = m.ptr[next],
                                 !.size[next] = 0, !.ptr[next] = 0]
            ELSE [m EXCEPT !.ptr[bp] = next]
  IN  IF p + m.size[p] = bp
      THEN [m1 EXCEPT !.size[p] = @ + m1.size[bp], !.ptr[p] = m1.ptr[bp], !.freep = p,
                      !.size[bp] = 0, !.ptr[bp] = 0]
      ELSE [m1 EXCEPT !.ptr[p] = bp, !.freep = p]

\* morecore(nu); freep of the result is Null when sbrk() fails.
morecore(m, nu) ==
  LET n == IF nu < MinCore THEN MinCore ELSE nu
  IN  IF m.brk + n > MaxHeap + 1 THEN [m EXCEPT !.freep = Null]
      ELSE free([m EXCEPT !.size[m.brk] = n, !.brk = @ + n], m.brk)

\* Variant: the rest of a block that is divided keeps its size.
TakeWhole(m, prev, p, nunits) ==
  IF m.size[p] = nunits THEN [m |-> [m EXCEPT !.ptr[prev] = m.ptr[p], !.ptr[p] = 0, !.freep = prev], p |-> p]
  ELSE LET q == p + m.size[p] - nunits
       IN  [m |-> [m EXCEPT !.size[q] = nunits, !.freep = prev], p |-> q]

\* malloc() takes block p, or the end of it.
Take(m, prev, p, nunits) ==
  IF m.size[p] = nunits THEN [m |-> [m EXCEPT !.ptr[prev] = m.ptr[p], !.ptr[p] = 0, !.freep = prev], p |-> p]
  ELSE LET q == p + m.size[p] - nunits
       IN  [m |-> [m EXCEPT !.size[p] = @ - nunits, !.size[q] = nunits, !.freep = prev], p |-> q]

\* malloc()'s loop; p of the result is Null when there is no memory.
RECURSIVE Search(_, _, _, _)
Search(m, prev, p, nunits) ==
  IF m.size[p] >= nunits THEN Take(m, prev, p, nunits)
  ELSE IF p # m.freep THEN Search(m, p, m.ptr[p], nunits)
  ELSE LET more == morecore(m, nunits)
       IN  IF more.freep = Null THEN [m |-> m, p |-> Null]
           ELSE Search(more, more.freep, more.ptr[more.freep], nunits)

malloc(m, n) ==
  LET m0 == IF m.freep = Null THEN [m EXCEPT !.ptr[0] = 0, !.size[0] = 0, !.freep = 0] ELSE m
  IN  Search(m0, m0.freep, m0.ptr[m0.freep], n + 1)

Malloc ==
  \E n \in Sizes :
    LET r == malloc(s, n)
    IN  /\ s' = r.m
        /\ used' = IF r.p = Null THEN used ELSE used \cup {r.p}
        /\ UNCHANGED holes
Free ==
  \E bp \in used :
    /\ s' = free(s, bp) /\ used' = used \ {bp}
    /\ UNCHANGED holes

\* The program calls sbrk() itself.
Sbrk ==
  /\ Cardinality(holes) < MaxHoles /\ s.brk <= MaxHeap
  /\ holes' = holes \cup {s.brk} /\ s' = [s EXCEPT !.brk = @ + 1]
  /\ UNCHANGED used

Next == Malloc \/ Free \/ Sbrk
Spec == Init /\ [][Next]_vars

-----------------------------------------------------------------------------
\* The blocks of the free list, from base on.
RECURSIVE From(_, _)
From(a, seen) == IF a \in seen THEN seen ELSE From(s.ptr[a], seen \cup {a})
FreeBlocks == From(0, {})
Block(a) == a .. a + s.size[a] - 1

\* The heap is made of the blocks in use, the free blocks and what the program got
\* from sbrk(): none overlap and nothing is lost, whatever is freed in which order.
HeapPartition ==
  /\ UNION {Block(a) : a \in used \cup FreeBlocks} \cup holes = 1 .. s.brk - 1
  /\ \A a, b \in used \cup FreeBlocks : a # b => Block(a) \cap Block(b) = {}
  /\ \A a \in used \cup FreeBlocks : Block(a) \cap holes = {}

\* The list is a circle sorted by address that contains freep, with neighbours
\* joined: free() finds the place of every block, and a free area is one block.
SortedJoined ==
  s.freep # Null =>
    /\ s.freep \in FreeBlocks
    /\ \A a \in FreeBlocks : /\ s.ptr[a] > a \/ s.ptr[a] = 0
                             /\ a + s.size[a] \notin FreeBlocks \ {a}
=============================================================================
