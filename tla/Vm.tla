--------------------------------- MODULE Vm ---------------------------------
(***************************************************************************)
(* Physical pages and address spaces: the page allocator (kalloc.c), page  *)
(* tables (vm.c), sbrk() and fork()'s copy (proc.c), exec() (exec.c,       *)
(* sys_exec()).                                                            *)
(*                                                                         *)
(* The loops that allocate a page at a time are a step per page, because   *)
(* kmem.lock is released in between and any kalloc() may be the one that   *)
(* finds no page; what frees pages is one step.  A page table has a root,  *)
(* middle and leaf tables of SPAN entries, and the pages that are mapped.  *)
(* A size counts bytes, of which a page has PGSIZE; what a page holds is   *)
(* "zero", "data" or the "junk" that kalloc() and kfree() fill it with.    *)
(***************************************************************************)
EXTENDS Integers, FiniteSets, Sequences

CONSTANTS Procs,
          NPAGES,       \* pages between end and PHYSTOP
          PGSIZE, SPAN,
          MaxVa,        \* pages of virtual memory
          MaxSize,      \* bound on p->sz that the calls keep to
          MaxOther,     \* bound on them for the rest of the kernel
          Sbrks,        \* arguments of sbrk()
          Images,       \* what can be exec()ed: sequences of segments' ends
          Args,         \* numbers of arguments of exec()
          MaxCalls      \* bound on the calls of all processes

Pages == 1 .. NPAGES
Vas == 0 .. MaxVa - 1
TRAMPOLINE == MaxVa - 1
TRAPFRAME == MaxVa - 2
Trampoline == NPAGES + 1            \* the page of the kernel with trampoline.S
Mids == 0 .. TRAMPOLINE \div (SPAN * SPAN)
Leaves == 0 .. TRAMPOLINE \div SPAN

VARIABLES
  free,         \* kmem.freelist
  content,      \* what each page holds
  other,        \* pages that the rest of the kernel has (pipes)
  proc,         \* per proc: state, trapframe, pagetable, sz
  new,          \* the page table that p's exec() builds, and its size
  l,            \* where each process is in a call, and its local variables
  calls

vars == <<free, content, other, proc, new, l, calls>>

NoTable == [root |-> 0, mid |-> [i \in Mids |-> 0], leaf |-> [i \in Leaves |-> 0],
            map |-> [va \in Vas |-> 0], user |-> [va \in Vas |-> FALSE]]
NoProc == [state |-> "unused", trapframe |-> 0, pt |-> NoTable, sz |-> 0]
NoNew == [pt |-> NoTable, sz |-> 0]
Idle == [pc |-> "idle", a |-> 0, from |-> 0, to |-> 0, child |-> 0, image |-> << >>, argc |-> 0, argv |-> {}]

\* PGROUNDUP(sz) / PGSIZE
Up(sz) == (sz + PGSIZE - 1) \div PGSIZE

\* kalloc(): some page of the free list.
Pick(S) == CHOOSE x \in S : TRUE

-----------------------------------------------------------------------------
(* Page tables.  r = [fr, t, ok]: the free pages, the table, success.      *)

WalkMid(r, va) ==
  IF r.t.mid[va \div (SPAN * SPAN)] # 0 THEN r
  ELSE IF r.fr = {} THEN [r EXCEPT !.ok = FALSE]
  ELSE [r EXCEPT !.fr = @ \ {Pick(r.fr)}, !.t.mid[va \div (SPAN * SPAN)] = Pick(r.fr)]
WalkLeaf(r, va) ==
  IF ~r.ok \/ r.t.leaf[va \div SPAN] # 0 THEN r
  ELSE IF r.fr = {} THEN [r EXCEPT !.ok = FALSE]
  ELSE [r EXCEPT !.fr = @ \ {Pick(r.fr)}, !.t.leaf[va \div SPAN] = Pick(r.fr)]

\* walk(pagetable, va, 1)
Walk(fr, t, va) == WalkLeaf(WalkMid([fr |-> fr, t |-> t, ok |-> TRUE], va), va)

\* mappages() of one page; what walk() added before it failed stays in the table.
Mappages(fr, t, va, pa, user) ==
  LET w == Walk(fr, t, va)
  IN  IF ~w.ok THEN w ELSE [w EXCEPT !.t.map[va] = pa, !.t.user[va] = user]

\* uvmunmap(t, va, n, ...) for the addresses in S, and the pages it frees.
Unmapped(t, S) == [t EXCEPT !.map = [va \in Vas |-> IF va \in S THEN 0 ELSE @[va]],
                            !.user = [va \in Vas |-> IF va \in S THEN FALSE ELSE @[va]]]
Mapped(t, S) == {t.map[va] : va \in S} \ {0}

\* freewalk(): the pages of the table itself.
TablePages(t) == ({t.root} \cup {t.mid[i] : i \in Mids} \cup {t.leaf[i] : i \in Leaves}) \ {0}

\* The addresses of a process of size sz.
Image(sz) == {va \in Vas : va < Up(sz)}

\* proc_freepagetable(t, sz): what it frees.
FreedBy(t, sz) == Mapped(t, Image(sz)) \cup TablePages(t)

\* uvmcreate() with the free pages fr, which is not empty.
Uvmcreate(fr) == [fr |-> fr \ {Pick(fr)}, t |-> [NoTable EXCEPT !.root = Pick(fr)]]

\* proc_pagetable(): the root, trampoline and trapframe, or nothing.
ProcPagetable(fr, trapframe) ==
  LET r0 == Uvmcreate(fr)
      r == Mappages(r0.fr, r0.t, TRAMPOLINE, Trampoline, FALSE)
      r2 == Mappages(r.fr, r.t, TRAPFRAME, trapframe, FALSE)
  IN  IF fr = {} \/ ~r.ok \/ ~r2.ok THEN [fr |-> fr, t |-> NoTable, ok |-> FALSE] ELSE r2

\* uvminit(): the page of initcode.
Uvminit(r) == Mappages(r.fr \ {Pick(r.fr)}, r.t, 0, Pick(r.fr), TRUE)

\* userinit(): one process, with one page.  The rest of the kernel may use pages.
Init ==
  /\ LET tf == Pick(Pages)
         m == Uvminit(ProcPagetable(Pages \ {tf}, tf))
         initproc == [state |-> "live", trapframe |-> tf, pt |-> m.t, sz |-> PGSIZE]
     IN  /\ \E n \in 0 .. MaxOther : other = {x \in m.fr : x > NPAGES - n}
         /\ free = m.fr \ other
         /\ proc = [q \in Procs |-> IF q = Pick(Procs) THEN initproc ELSE NoProc]
         /\ content = [x \in Pages |-> IF x = m.t.map[0] THEN "data" ELSE "junk"]
  /\ new = [p \in Procs |-> NoNew] /\ l = [p \in Procs |-> Idle] /\ calls = 0

\* The contents when the pages in S are freed, or page x is filled.
Junk(S) == [x \in Pages |-> IF x \in S THEN "junk" ELSE content[x]]
Fill(x, c) == [content EXCEPT ![x] = c]

At(p, label) == l[p].pc = label /\ proc[p].state = "live"

\* A process that is in no call makes one.
Call(p) == At(p, "idle") /\ calls < MaxCalls /\ calls' = calls + 1

-----------------------------------------------------------------------------
(* sbrk()                                                                  *)

\* growproc(n), n > 0: the loop of uvmalloc() begins.
SbrkGrow(p) ==
  \E n \in Sbrks :
    /\ Call(p) /\ n > 0 /\ proc[p].sz + n <= MaxSize
    /\ l' = [l EXCEPT ![p] = [Idle EXCEPT !.pc = "grow", !.a = Up(proc[p].sz), !.from = Up(proc[p].sz),
                                          !.to = proc[p].sz + n]]
    /\ UNCHANGED <<free, content, other, proc, new>>

\* growproc(n), n < 0: uvmdealloc(); a size below zero wraps to a large one, and
\* nothing happens.
SbrkShrink(p) ==
  \E n \in Sbrks :
    LET sz == proc[p].sz
        gone == Image(sz) \ Image(sz + n)
    IN  /\ Call(p) /\ n < 0 /\ sz + n >= 0
        /\ free' = free \cup Mapped(proc[p].pt, gone)
        /\ content' = Junk(Mapped(proc[p].pt, gone))
        /\ proc' = [proc EXCEPT ![p].pt = Unmapped(@, gone), ![p].sz = sz + n]
        /\ UNCHANGED <<other, new, l>>

\* Variant: it takes the page before with it.
UndoneBefore(p) == {va \in Vas : l[p].from - 1 <= va /\ va < l[p].a}

\* What uvmdealloc() unmaps when uvmalloc()'s loop fails.
Undone(p) == {va \in Vas : l[p].from <= va /\ va < l[p].a}

\* A turn of uvmalloc()'s loop for table t: [fr, t, ok] with the page mapped, or
\* with all that the loop mapped unmapped again by uvmdealloc().
Uvmalloc(p, t) ==
  LET mem == Pick(free)
      m == Mappages(free \ {mem}, t, l[p].a, mem, TRUE)
      gone == Undone(p)
  IN  IF free # {} /\ m.ok THEN m
      ELSE IF free = {} THEN [fr |-> free \cup Mapped(t, gone), t |-> Unmapped(t, gone), ok |-> FALSE]
      ELSE [fr |-> m.fr \cup {mem} \cup Mapped(t, gone), t |-> Unmapped(m.t, gone), ok |-> FALSE]

\* Variant: the new page is not cleared.
UvmallocContentJunk(p, t, r) == IF r.ok THEN Fill(r.t.map[l[p].a], "junk") ELSE Junk(r.fr \ free)

\* What the pages hold after it: memset() clears the new page.
UvmallocContent(p, t, r) == IF r.ok THEN Fill(r.t.map[l[p].a], "zero") ELSE Junk(r.fr \ free)

\* Variant: the pages mapped before the failure stay.
GrowKeeps(p) ==
  LET m == Mappages(free \ {Pick(free)}, proc[p].pt, l[p].a, Pick(free), TRUE)
      r == IF free = {} THEN [fr |-> {}, t |-> proc[p].pt, ok |-> FALSE]
           ELSE IF m.ok THEN m ELSE [m EXCEPT !.fr = @ \cup {Pick(free)}]
  IN  /\ At(p, "grow") /\ l[p].a * PGSIZE < l[p].to
      /\ free' = r.fr
      /\ content' = UvmallocContent(p, proc[p].pt, r)
      /\ proc' = [proc EXCEPT ![p].pt = r.t]
      /\ l' = [l EXCEPT ![p] = IF r.ok THEN [@ EXCEPT !.a = @ + 1] ELSE Idle]
      /\ UNCHANGED <<other, new, calls>>

\* sbrk() gets another page, or fails with the old size.
Grow(p) ==
  LET r == Uvmalloc(p, proc[p].pt)
  IN  /\ At(p, "grow") /\ l[p].a * PGSIZE < l[p].to
      /\ free' = r.fr
      /\ content' = UvmallocContent(p, proc[p].pt, r)
      /\ proc' = [proc EXCEPT ![p].pt = r.t]
      /\ l' = [l EXCEPT ![p] = IF r.ok THEN [@ EXCEPT !.a = @ + 1] ELSE Idle]
      /\ UNCHANGED <<other, new, calls>>

Grown(p) ==
  /\ At(p, "grow") /\ l[p].a * PGSIZE >= l[p].to
  /\ proc' = [proc EXCEPT ![p].sz = l[p].to]
  /\ l' = [l EXCEPT ![p] = Idle]
  /\ UNCHANGED <<free, content, other, new, calls>>

-----------------------------------------------------------------------------
(* fork() and the end of a process                                         *)

\* freeproc() of a child that is on no zombie list: its pages are freed, and then
\* remove_proc_from_list() does not return to fork() (see MCProcAlloc).
Lost(p, q, back) ==
  /\ free' = free \cup back
  /\ content' = Junk(back)
  /\ proc' = [proc EXCEPT ![q] = [NoProc EXCEPT !.state = "used"]]
  /\ l' = [l EXCEPT ![p] = [Idle EXCEPT !.pc = "lost"]]

\* allocproc(): a free proc, a trapframe and a page table.
ForkAlloc(p) ==
  LET unused == {q \in Procs : proc[q].state = "unused"}
      q == Pick(unused)
      tf == Pick(free)
      t == ProcPagetable(free \ {tf}, tf)
  IN  /\ Call(p) /\ unused # {}
      /\ IF free # {} /\ t.ok
         THEN /\ free' = t.fr
              /\ proc' = [proc EXCEPT ![q] = [state |-> "used", trapframe |-> tf, pt |-> t.t, sz |-> 0]]
              /\ l' = [l EXCEPT ![p] = [Idle EXCEPT !.pc = "copy", !.child = q]]
              /\ UNCHANGED content
         ELSE Lost(p, q, {})
      /\ UNCHANGED <<other, new>>

\* Variant: every page of the child is the user's.
CopiedFlagsUser(p, a) == TRUE

\* PTE_FLAGS() of the parent's page.
CopiedFlags(p, a) == proc[p].pt.user[a]

\* A turn of uvmcopy()'s loop; freeproc() of the child when it fails.
Copy(p) ==
  LET q == l[p].child
      a == l[p].a
      mem == Pick(free)
      m == Mappages(free \ {mem}, proc[q].pt, a, mem, CopiedFlags(p, a))
      back == Mapped(proc[q].pt, 0 .. a - 1) \cup TablePages(IF free = {} THEN proc[q].pt ELSE m.t)
                \cup {proc[q].trapframe}
  IN  /\ At(p, "copy") /\ a < Up(proc[p].sz)
      /\ IF free # {} /\ m.ok
         THEN /\ free' = m.fr
              /\ content' = Fill(mem, content[proc[p].pt.map[a]])
              /\ proc' = [proc EXCEPT ![q].pt = m.t]
              /\ l' = [l EXCEPT ![p].a = @ + 1]
              /\ UNCHANGED <<other, new, calls>>
         ELSE Lost(p, q, back) /\ UNCHANGED <<other, new, calls>>

Copied(p) ==
  /\ At(p, "copy") /\ l[p].a >= Up(proc[p].sz)
  /\ proc' = [proc EXCEPT ![l[p].child].state = "live", ![l[p].child].sz = proc[p].sz]
  /\ l' = [l EXCEPT ![p] = Idle]
  /\ UNCHANGED <<free, content, other, new, calls>>

\* Variant: the trapframe stays allocated.
FreeprocKeeps(p) ==
  /\ Call(p) /\ \E q \in Procs \ {p} : proc[q].state = "live"
  /\ LET back == FreedBy(proc[p].pt, proc[p].sz)
          IN  /\ free' = free \cup back
              /\ content' = Junk(back)
              /\ proc' = [proc EXCEPT ![p] = NoProc]
              /\ UNCHANGED <<other, new, l>>

\* p exits and wait() calls freeproc().
Freeproc(p) ==
  /\ Call(p) /\ \E q \in Procs \ {p} : proc[q].state = "live"
  /\ LET back == FreedBy(proc[p].pt, proc[p].sz) \cup {proc[p].trapframe}
          IN  /\ free' = free \cup back
              /\ content' = Junk(back)
              /\ proc' = [proc EXCEPT ![p] = NoProc]
              /\ UNCHANGED <<other, new, l>>

-----------------------------------------------------------------------------
(* exec()                                                                  *)

Exec(p) ==
  \E image \in Images, n \in Args :
    /\ Call(p)
    /\ l' = [l EXCEPT ![p] = [Idle EXCEPT !.pc = "argv", !.image = image, !.argc = n]]
    /\ UNCHANGED <<free, content, other, proc, new>>

\* sys_exec(): the strings of argv are copied, a page each; without a page, or
\* with a bad address, those it has are freed.
Argv(p) ==
  /\ At(p, "argv") /\ l[p].argc > 0
  /\ \/ /\ free # {}
        /\ free' = free \ {Pick(free)}
        /\ l' = [l EXCEPT ![p].argc = @ - 1, ![p].argv = @ \cup {Pick(free)}]
        /\ UNCHANGED content
     \/ /\ free' = free \cup l[p].argv
        /\ content' = Junk(l[p].argv)
        /\ l' = [l EXCEPT ![p] = Idle]
  /\ UNCHANGED <<other, proc, new, calls>>

\* What exec() goes on with when it has size sz: the next segment, or the stack.
NextPart(r, image, sz) ==
  IF image = << >> THEN [r EXCEPT !.pc = "stack", !.image = << >>, !.a = Up(sz), !.from = Up(sz), !.to = (Up(sz) + 2) * PGSIZE]
  ELSE [r EXCEPT !.pc = "load", !.image = image, !.a = Up(sz), !.from = Up(sz),
                 !.to = IF Head(image) < sz THEN sz ELSE Head(image)]

\* The pages that sys_exec() frees when exec() returns.
ExecReturns(p, back) ==
  /\ free' = free \cup back \cup l[p].argv
  /\ content' = Junk(back \cup l[p].argv)
  /\ l' = [l EXCEPT ![p] = Idle]

\* proc_pagetable(), for a file that is a program.
ExecTable(p) ==
  LET t == ProcPagetable(free, proc[p].trapframe)
  IN  /\ At(p, "argv") /\ l[p].argc = 0
      /\ \/ /\ t.ok
            /\ free' = t.fr
            /\ new' = [new EXCEPT ![p] = [pt |-> t.t, sz |-> 0]]
            /\ l' = [l EXCEPT ![p] = NextPart(@, l[p].image, 0)]
            /\ UNCHANGED content
         \/ ExecReturns(p, {}) /\ UNCHANGED new
      /\ UNCHANGED <<other, proc, calls>>

\* exec() fails: the new page table and what is in it are freed.
ExecBad(p, t, fr) ==
  /\ free' = fr \cup FreedBy(t, new[p].sz) \cup l[p].argv
  /\ content' = Junk((fr \ free) \cup FreedBy(t, new[p].sz) \cup l[p].argv)
  /\ new' = [new EXCEPT ![p] = NoNew]
  /\ l' = [l EXCEPT ![p] = Idle]
  /\ UNCHANGED <<other, proc, calls>>

\* A turn of uvmalloc()'s loop for a segment, or for the guard page and the stack.
ExecAlloc(p) ==
  LET r == Uvmalloc(p, new[p].pt)
  IN  /\ At(p, "load") \/ At(p, "stack")
      /\ l[p].a * PGSIZE < l[p].to
      /\ IF ~r.ok THEN ExecBad(p, r.t, r.fr)
         ELSE /\ free' = r.fr
              /\ content' = UvmallocContent(p, new[p].pt, r)
              /\ new' = [new EXCEPT ![p].pt = r.t]
              /\ l' = [l EXCEPT ![p].a = @ + 1]
              /\ UNCHANGED <<other, proc, calls>>

\* loadseg() of a segment with the pages seg.
Loadseg(seg) == [x \in Pages |-> IF x \in seg THEN "data" ELSE content[x]]

\* The segment is allocated and loaded, or cannot be.
ExecLoad(p) ==
  LET sz == l[p].to
      seg == {new[p].pt.map[va] : va \in {v \in Vas : l[p].from <= v /\ v < Up(sz)}}
  IN  /\ At(p, "load") /\ l[p].a * PGSIZE >= sz
      /\ \/ /\ new' = [new EXCEPT ![p].sz = sz]
            /\ content' = Loadseg(seg)
            /\ l' = [l EXCEPT ![p] = NextPart(@, Tail(l[p].image), sz)]
            /\ UNCHANGED free
         \/ /\ ExecReturns(p, FreedBy(new[p].pt, sz))
            /\ new' = [new EXCEPT ![p] = NoNew]
      /\ UNCHANGED <<other, proc, calls>>

\* uvmclear() of one page.
Uvmclear(t, va) == [t EXCEPT !.user[va] = FALSE]

\* The guard page is cleared; the arguments fit on the stack, and the new image
\* replaces the old one, or they do not.
ExecCommit(p) ==
  LET sz == l[p].to
      t == Uvmclear(new[p].pt, Up(sz) - 2)
      old == proc[p]
  IN  /\ At(p, "stack") /\ l[p].a * PGSIZE >= sz
      /\ \/ /\ proc' = [proc EXCEPT ![p].pt = t, ![p].sz = sz]
            /\ ExecReturns(p, FreedBy(old.pt, old.sz))
         \/ /\ UNCHANGED proc
            /\ ExecReturns(p, FreedBy(t, sz))
      /\ new' = [new EXCEPT ![p] = NoNew]
      /\ UNCHANGED <<other, calls>>

Next ==
  \E p \in Procs :
    \/ SbrkGrow(p) \/ SbrkShrink(p) \/ Grow(p) \/ Grown(p)
    \/ ForkAlloc(p) \/ Copy(p) \/ Copied(p) \/ Freeproc(p)
    \/ Exec(p) \/ Argv(p) \/ ExecTable(p) \/ ExecAlloc(p) \/ ExecLoad(p) \/ ExecCommit(p)

Spec == Init /\ [][Next]_vars

-----------------------------------------------------------------------------
(* Properties                                                              *)

\* Every variable keeps its type.
TypeOK ==
  /\ free \in SUBSET Pages /\ other \in SUBSET Pages
  /\ content \in [Pages -> {"zero", "data", "junk"}]
  /\ \A p \in Procs : /\ proc[p].state \in {"unused", "used", "live"}
                      /\ proc[p].pt.map \in [Vas -> Pages \cup {0, Trampoline}]
                      /\ proc[p].sz \in 0 .. MaxVa * PGSIZE
                      /\ l[p].argv \in SUBSET Pages

\* The places that hold a page: the mappings and tables of a page table ...
Tables == {<<"proc", p>> : p \in Procs} \cup {<<"new", p>> : p \in Procs}
Table(k) == IF k[1] = "proc" THEN proc[k[2]].pt ELSE new[k[2]].pt
PlacesIn(t, x) ==
  Cardinality({va \in Vas \ {TRAPFRAME} : t.map[va] = x}) + Cardinality({i \in Mids : t.mid[i] = x})
  + Cardinality({i \in Leaves : t.leaf[i] = x}) + IF t.root = x THEN 1 ELSE 0
UsedIn(x) == {k \in Tables : PlacesIn(Table(k), x) > 0}

\* ... and whatever else does.
Holders(x) == Cardinality(UsedIn(x)) + Cardinality({p \in Procs : proc[p].trapframe = x})
              + Cardinality({p \in Procs : x \in l[p].argv})
              + (IF x \in free THEN 1 ELSE 0) + (IF x \in other THEN 1 ELSE 0)

\* Every page is in exactly one place: on the free list, mapped at one address of
\* one process, a table, a trapframe, an argument string, or the rest of the kernel's.
\* No path of sbrk(), fork() or exec(), at whichever kalloc() it fails, loses a page
\* or frees one that is in use.
PagesPartition == \A x \in Pages : Holders(x) = 1 /\ \A k \in Tables : PlacesIn(Table(k), x) <= 1

\* A page table maps exactly the pages of its size, the pages that a loop has added
\* so far, the trapframe and the trampoline.  So none of the panics of mappages()
\* ("remap"), uvmunmap() ("not mapped"), uvmcopy() ("pte should exist") and
\* freewalk() ("leaf") can happen, whichever call fails where.
Maps(t, sz, a) == {va \in Vas : t.map[va] # 0} = Image(sz) \cup {va \in Vas : va < a} \cup {TRAPFRAME, TRAMPOLINE}
ImageWhole ==
  \A p \in Procs :
    /\ proc[p].state = "live" => /\ Maps(proc[p].pt, proc[p].sz, IF l[p].pc = "grow" THEN l[p].a ELSE 0)
                                 /\ proc[p].pt.map[TRAPFRAME] = proc[p].trapframe
    /\ l[p].pc = "copy" => Maps(proc[l[p].child].pt, 0, l[p].a)
    /\ l[p].pc \in {"load", "stack"} => /\ Maps(new[p].pt, new[p].sz, l[p].a)
                                        /\ new[p].pt.map[TRAPFRAME] = proc[p].trapframe

\* No page that a process can see holds what its former user left or junk.
NoJunk == \A p \in Procs : proc[p].state = "live" => \A va \in Image(proc[p].sz) : content[proc[p].pt.map[va]] # "junk"

\* As long as a process keeps its page table (exec() has not replaced it), the pages
\* below both its old and its new size stay where they are: a sbrk(), fork() or
\* exec() that fails half way leaves the caller's memory as it was.
KeepsImages ==
  \A p \in Procs : proc[p].state = "live" /\ proc'[p].pt.root = proc[p].pt.root =>
    \A va \in Image(proc[p].sz) \cap Image(proc'[p].sz) : proc'[p].pt.map[va] = proc[p].pt.map[va]
ImageStable == [][KeepsImages]_vars

\* The child of a fork() has a copy of the parent's memory, with the same rights.
CopiesAll ==
  \A p \in Procs : l[p].pc = "copy" /\ l'[p].pc = "idle" /\ proc'[l[p].child].state = "live" =>
    LET c == proc'[l[p].child]
    IN  /\ c.sz = proc[p].sz
        /\ \A va \in Image(c.sz) : /\ content[c.pt.map[va]] = content[proc[p].pt.map[va]]
                                   /\ c.pt.user[va] = proc[p].pt.user[va]
ForkCopies == [][CopiesAll]_vars
=============================================================================
