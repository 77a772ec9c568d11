------------------------------ MODULE UserCopy ------------------------------
(***************************************************************************)
(* Copies of bytes: between the kernel and a user's pages (walkaddr(),     *)
(* copyin(), copyout(), copyinstr() of vm.c), in place (memmove() of       *)
(* string.c), and of the elements of a path (skipelem() of fs.c), each     *)
(* against what it is to compute.                                          *)
(*                                                                         *)
(* pt[v] is 0 or the physical page of the user page v; mem is physical     *)
(* memory, byte by byte.  The loops go page by page, as the code does.     *)
(***************************************************************************)
EXTENDS Integers, Sequences, FiniteSets

CONSTANTS PGSIZE, DIRSIZ

\* walkaddr(pt, va): addresses above the table are not mapped.
walkaddr(pt, va) == IF va \div PGSIZE \notin DOMAIN pt THEN 0 ELSE pt[va \div PGSIZE] * PGSIZE

\* The bytes left on va's page, at most len.
Chunk(va, len) == LET n == PGSIZE - (va % PGSIZE) IN IF n > len THEN len ELSE n

RECURSIVE copyin(_, _, _, _, _)
copyin(mem, pt, dst, va, len) ==
  LET pa == walkaddr(pt, va)
      n == Chunk(va, len)
  IN  IF len = 0 THEN [ok |-> TRUE, dst |-> dst]
      ELSE IF pa = 0 THEN [ok |-> FALSE, dst |-> dst]
      ELSE copyin(mem, pt, dst \o [i \in 1 .. n |-> mem[pa + (va % PGSIZE) + i - 1]], (va \div PGSIZE + 1) * PGSIZE, len - n)

\* Variant: the next chunk starts at the same offset in its page.
RECURSIVE copyoutOffset(_, _, _, _)
copyoutOffset(mem, pt, va, src) ==
  LET pa == walkaddr(pt, va)
      n == Chunk(va, Len(src))
      at == pa + (va % PGSIZE)
  IN  IF src = << >> THEN [ok |-> TRUE, mem |-> mem]
      ELSE IF pa = 0 THEN [ok |-> FALSE, mem |-> mem]
      ELSE copyoutOffset([a \in DOMAIN mem |-> IF a \in at .. at + n - 1 THEN src[a - at + 1] ELSE mem[a]],
                         pt, va + PGSIZE, SubSeq(src, n + 1, Len(src)))

RECURSIVE copyout(_, _, _, _)
copyout(mem, pt, va, src) ==
  LET pa == walkaddr(pt, va)
      n == Chunk(va, Len(src))
      at == pa + (va % PGSIZE)
  IN  IF src = << >> THEN [ok |-> TRUE, mem |-> mem]
      ELSE IF pa = 0 THEN [ok |-> FALSE, mem |-> mem]
      ELSE copyout([a \in DOMAIN mem |-> IF a \in at .. at + n - 1 THEN src[a - at + 1] ELSE mem[a]],
                   pt, (va \div PGSIZE + 1) * PGSIZE, SubSeq(src, n + 1, Len(src)))

\* Variant: max is not counted down.
RECURSIVE copyinstrUnbounded(_, _, _, _, _)
copyinstrUnbounded(mem, pt, dst, va, max) ==
  LET pa == walkaddr(pt, va)
      n == Chunk(va, max)
      page == [i \in 1 .. n |-> mem[pa + (va % PGSIZE) + i - 1]]
      nul == {i \in 1 .. n : page[i] = 0}
  IN  IF max = 0 \/ pa = 0 THEN [ok |-> FALSE, dst |-> dst]
      ELSE IF nul # {} THEN [ok |-> TRUE, dst |-> dst \o SubSeq(page, 1, CHOOSE i \in nul : \A j \in nul : i <= j)]
      ELSE copyinstrUnbounded(mem, pt, dst \o page, (va \div PGSIZE + 1) * PGSIZE, max)

\* The inner loop copies up to the first NUL of a page.
RECURSIVE copyinstr(_, _, _, _, _)
copyinstr(mem, pt, dst, va, max) ==
  LET pa == walkaddr(pt, va)
      n == Chunk(va, max)
      page == [i \in 1 .. n |-> mem[pa + (va % PGSIZE) + i - 1]]
      nul == {i \in 1 .. n : page[i] = 0}
  IN  IF max = 0 \/ pa = 0 THEN [ok |-> FALSE, dst |-> dst]
      ELSE IF nul # {} THEN [ok |-> TRUE, dst |-> dst \o SubSeq(page, 1, CHOOSE i \in nul : \A j \in nul : i <= j)]
      ELSE copyinstr(mem, pt, dst \o page, (va \div PGSIZE + 1) * PGSIZE, max - n)

\* memmove(): from the end when the source starts before the destination and reaches
\* into it.
RECURSIVE Forward(_, _, _, _)
Forward(m, d, s, n) == IF n = 0 THEN m ELSE Forward([m EXCEPT ![d] = m[s]], d + 1, s + 1, n - 1)
RECURSIVE Backward(_, _, _, _)
Backward(m, d, s, n) == IF n = 0 THEN m ELSE Backward([m EXCEPT ![d + n - 1] = m[s + n - 1]], d, s, n - 1)

\* Variant: an overlap of one byte is taken for none.
memmoveTouching(m, d, s, n) == IF s < d /\ s + n > d + 1 THEN Backward(m, d, s, n) ELSE Forward(m, d, s, n)
memmove(m, d, s, n) == IF s < d /\ s + n > d THEN Backward(m, d, s, n) ELSE Forward(m, d, s, n)

\* skipelem(path): the element, cut off at DIRSIZ, and the rest of the path.
RECURSIVE SkipSlashes(_)
SkipSlashes(p) == IF p # << >> /\ Head(p) = "/" THEN SkipSlashes(Tail(p)) ELSE p
ElemLen(p) == LET ends == {i \in 1 .. Len(p) : p[i] = "/"} \cup {Len(p) + 1}
              IN  (CHOOSE i \in ends : \A j \in ends : i <= j) - 1

\* Variant: the slashes behind the element stay.
skipelemKeeps(path) ==
  LET p == SkipSlashes(path)
      len == ElemLen(p)
  IN  [found |-> p # << >>, name |-> SubSeq(p, 1, IF len >= DIRSIZ THEN DIRSIZ ELSE len),
       rest |-> SubSeq(p, len + 1, Len(p))]
skipelem(path) ==
  LET p == SkipSlashes(path)
      len == ElemLen(p)
  IN  [found |-> p # << >>, name |-> SubSeq(p, 1, IF len >= DIRSIZ THEN DIRSIZ ELSE len),
       rest |-> SkipSlashes(SubSeq(p, len + 1, Len(p)))]

-----------------------------------------------------------------------------
(* What they are to compute                                                *)

\* The physical address of the byte at va; 0 when it is not the user's.
Phys(pt, va) == IF walkaddr(pt, va) = 0 THEN 0 ELSE walkaddr(pt, va) + (va % PGSIZE)
Readable(pt, va, len) == \A i \in 0 .. len - 1 : Phys(pt, va + i) # 0

\* copyin() succeeds exactly when every byte is on a page of the user, and then has
\* read each byte from where the page table says it is, across page ends.
CopyinExact(mem, pt, va, len) ==
  LET r == copyin(mem, pt, << >>, va, len)
  IN  /\ r.ok <=> Readable(pt, va, len)
      /\ r.ok => r.dst = [i \in 1 .. len |-> mem[Phys(pt, va + i - 1)]]

\* copyout() changes only the bytes of the destination, and all of them exactly when
\* it succeeds.
CopyoutExact(mem, pt, va, src) ==
  LET r == copyout(mem, pt, va, src)
      dst == {Phys(pt, va + i - 1) : i \in 1 .. Len(src)}
  IN  /\ r.ok <=> Readable(pt, va, Len(src))
      /\ \A a \in DOMAIN mem \ dst : r.mem[a] = mem[a]
      /\ r.ok => \A i \in 1 .. Len(src) : r.mem[Phys(pt, va + i - 1)] = src[i]

\* copyinstr() succeeds exactly when a NUL is among the first max bytes and all up to
\* it can be read; it never stores more than max bytes.
CopyinstrExact(mem, pt, va, max) ==
  LET r == copyinstr(mem, pt, << >>, va, max)
      ends == {n \in 1 .. max : /\ Readable(pt, va, n) /\ mem[Phys(pt, va + n - 1)] = 0
                                /\ \A i \in 1 .. n - 1 : mem[Phys(pt, va + i - 1)] # 0}
  IN  /\ r.ok <=> ends # {}
      /\ \A n \in ends : r.dst = [i \in 1 .. n |-> mem[Phys(pt, va + i - 1)]]
      /\ Len(r.dst) <= max

\* memmove() leaves at the destination what was at the source, however they overlap,
\* and nothing else changed.
MemmoveExact(m, d, s, n) ==
  memmove(m, d, s, n) = [a \in DOMAIN m |-> IF a \in d .. d + n - 1 THEN m[s + a - d] ELSE m[a]]

\* Taking elements off a path one after the other gives its maximal runs without a
\* slash, and the rest is empty exactly when the element was the last: what
\* nameiparent() goes by.
Starts(path) == {i \in DOMAIN path : path[i] # "/" /\ (i = 1 \/ path[i - 1] = "/")}
RECURSIVE Elements(_)
Elements(path) == LET e == skipelem(path) IN IF ~e.found THEN << >> ELSE <<e>> \o Elements(e.rest)
PathExact(path) ==
  LET es == Elements(path)
  IN  /\ Len(es) = Cardinality(Starts(path))
      /\ \A k \in DOMAIN es : /\ es[k].rest = << >> <=> k = Len(es)
                              /\ Len(es[k].name) \in 1 .. DIRSIZ
                              /\ \E i \in Starts(path) : /\ Cardinality({j \in Starts(path) : j <= i}) = k
                                                         /\ es[k].name = SubSeq(path, i, i + Len(es[k].name) - 1)
=============================================================================
