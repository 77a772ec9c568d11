--------------------------- MODULE ProcListProofs ---------------------------
(***************************************************************************)
(* Proofs about module ProcList: its inductive invariant, what its operators *)
(* do, that every step preserves the invariant, and the theorems.          *)
(***************************************************************************)
EXTENDS ProcList, TLAPS

\* A process is on at most one list, at one place.
Distinct ==
  \A l, m \in Lists : \A i \in 1 .. Len(content[l]), j \in 1 .. Len(content[m]) :
    content[l][i] = content[m][j] => l = m /\ i = j

\* Only elements of lists have their stateLock taken.
LockedOnList == \A p \in Procs : stateLock[p] # NoCpu => ~OffList(p)

\* A walk stands on an element it has locked and knows its successor.
Walking(c) ==
  /\ curr[c] \in Procs /\ stateLock[curr[c]] = c
  /\ OnList(curr[c], lst[c])
  /\ nxt[c] = next[curr[c]]
  /\ canRelease[c] => listLock[lst[c]] = c

\* The target of a removal is behind the element the walk stands on.
TargetAhead(c) ==
  \E i, j \in 1 .. Len(content[lst[c]]) :
    i < j /\ content[lst[c]][i] = curr[c] /\ content[lst[c]][j] = arg[c]

CpuInv(c) ==
  /\ pc[c] # "panic"
  /\ pc[c] # "idle" => arg[c] \in Procs /\ procLock[arg[c]] = c
  /\ pc[c] \in {"addEmpty", "addHead", "remFirst", "remHead"} => listLock[lst[c]] = c
  /\ pc[c] = "addEmpty" => content[lst[c]] = <<arg[c]>> /\ stateLock[arg[c]] = NoCpu
  /\ pc[c] \in {"addHead", "addWalk"} => OffList(arg[c])
  /\ pc[c] \in {"addHead", "remHead"} => first[lst[c]] # Nil
  /\ pc[c] = "remFirst" => first[lst[c]] = arg[c]
  /\ pc[c] = "remHead" => OnList(arg[c], lst[c]) /\ first[lst[c]] # arg[c]
  /\ pc[c] \in {"addWalk", "remWalk"} => Walking(c)
  /\ pc[c] = "remWalk" => TargetAhead(c)
  /\ pc[c] = "remWalk" /\ prev[c] # Nil => stateLock[prev[c]] = c /\ prev[c] # curr[c]

\* The inductive invariant.
IInv == TypeOK /\ Distinct /\ Encoded /\ LockedOnList /\ \A c \in Cpus : CpuInv(c)


\* Zenon proves the leaves that name no other prover.
USE ZenonT(60)

\* What is used of sequences.
LEMMA SeqElement ==
  ASSUME NEW S, NEW s \in Seq(S), NEW i \in 1 .. Len(s)
  PROVE  s[i] \in S
BY SMT

\* The empty sequence, and the length of the others.
LEMMA SeqEmpty ==
  ASSUME NEW S
  PROVE  << >> \in Seq(S) /\ Len(<< >>) = 0 /\ \A s \in Seq(S) : s # << >> => Len(s) \in Nat \ {0}
BY SMT

\* A function on 1 .. n is a sequence.
LEMMA SeqFunction ==
  ASSUME NEW S, NEW n \in Nat, NEW f \in [1 .. n -> S]
  PROVE  f \in Seq(S) /\ Len(f) = n
BY SMT

\* What Append does.
LEMMA SeqAppend ==
  ASSUME NEW S, NEW s \in Seq(S), NEW e \in S
  PROVE  /\ Append(s, e) \in Seq(S) /\ Len(Append(s, e)) = Len(s) + 1
         /\ \A i \in 1 .. Len(s) : Append(s, e)[i] = s[i]
         /\ Append(s, e)[Len(s) + 1] = e
BY SMT

\* Two places that hold the same process are the same place.
LEMMA SamePlace ==
  ASSUME Distinct, NEW l \in Lists, NEW m \in Lists,
         NEW i \in 1 .. Len(content[l]), NEW j \in 1 .. Len(content[m]),
         content[l][i] = content[m][j]
  PROVE  l = m /\ i = j
BY DEF Distinct

\* What is left of a sequence when its i-th element, which occurs once, goes.
LEMMA WithoutIs ==
  ASSUME NEW S, NEW s \in Seq(S), NEW i \in 1 .. Len(s),
         \A j \in 1 .. Len(s) : s[j] = s[i] => j = i
  PROVE  /\ Without(s, s[i]) \in Seq(S)
         /\ Len(Without(s, s[i])) = Len(s) - 1
         /\ \A j \in 1 .. Len(s) - 1 :
              Without(s, s[i])[j] = IF j < i THEN s[j] ELSE s[j + 1]
<1>1. (CHOOSE k \in 1 .. Len(s) : s[k] = s[i]) = i
  OBVIOUS
<1>2. Without(s, s[i]) = [j \in 1 .. Len(s) - 1 |-> IF j < i THEN s[j] ELSE s[j + 1]]
  BY <1>1 DEF Without
<1>3. QED
  BY SMT, <1>2, SeqFunction, SeqElement

\* Appending a process that is on no list.
LEMMA AppendEffect ==
  ASSUME TypeOK, Distinct, NEW l \in Lists, NEW p \in Procs, OffList(p),
         content' = [content EXCEPT ![l] = Append(@, p)]
  PROVE  /\ content' \in [Lists -> Seq(Procs)]
         /\ \A m \in Lists \ {l} : content'[m] = content[m]
         /\ Len(content'[l]) = Len(content[l]) + 1
         /\ \A i \in 1 .. Len(content[l]) : content'[l][i] = content[l][i]
         /\ content'[l][Len(content[l]) + 1] = p
         /\ Distinct'
<1>1. content[l] \in Seq(Procs) /\ content'[l] = Append(content[l], p)
  BY DEF TypeOK
<1>2. /\ content' \in [Lists -> Seq(Procs)]
      /\ \A m \in Lists \ {l} : content'[m] = content[m]
      /\ Len(content'[l]) = Len(content[l]) + 1
      /\ \A i \in 1 .. Len(content[l]) : content'[l][i] = content[l][i]
      /\ content'[l][Len(content[l]) + 1] = p
  BY SMT, <1>1, SeqAppend DEF TypeOK
<1>3. Distinct'
  BY SMT, <1>1, <1>2 DEF Distinct, OffList, OnList, TypeOK
<1>4. QED
  BY <1>2, <1>3

\* Removing the k-th element of list l.
LEMMA RemoveEffect ==
  ASSUME TypeOK, Distinct, NEW l \in Lists, NEW k \in 1 .. Len(content[l]),
         NEW p, p = content[l][k],
         content' = [content EXCEPT ![l] = Without(@, p)]
  PROVE  /\ content' \in [Lists -> Seq(Procs)]
         /\ \A m \in Lists \ {l} : content'[m] = content[m]
         /\ Len(content'[l]) = Len(content[l]) - 1
         /\ \A i \in 1 .. Len(content[l]) - 1 :
              content'[l][i] = IF i < k THEN content[l][i] ELSE content[l][i + 1]
         /\ Distinct'
<1>1. content[l] \in Seq(Procs) /\ content'[l] = Without(content[l], content[l][k])
  BY DEF TypeOK
<1>2. \A j \in 1 .. Len(content[l]) : content[l][j] = content[l][k] => j = k
  BY DEF Distinct
<1>3. /\ content' \in [Lists -> Seq(Procs)]
      /\ \A m \in Lists \ {l} : content'[m] = content[m]
      /\ Len(content'[l]) = Len(content[l]) - 1
      /\ \A i \in 1 .. Len(content[l]) - 1 :
           content'[l][i] = IF i < k THEN content[l][i] ELSE content[l][i + 1]
  <2>1. /\ content'[l] \in Seq(Procs) /\ Len(content'[l]) = Len(content[l]) - 1
        /\ \A i \in 1 .. Len(content[l]) - 1 :
             content'[l][i] = IF i < k THEN content[l][i] ELSE content[l][i + 1]
    <3> DEFINE s == content[l]
    <3>1. s \in Seq(Procs) /\ k \in 1 .. Len(s) /\ \A j \in 1 .. Len(s) : s[j] = s[k] => j = k
      BY <1>1, <1>2
    <3>2. content'[l] = Without(s, s[k])
      BY <1>1
    <3> HIDE DEF s
    <3>3. /\ Without(s, s[k]) \in Seq(Procs) /\ Len(Without(s, s[k])) = Len(s) - 1
          /\ \A i \in 1 .. Len(s) - 1 :
               Without(s, s[k])[i] = IF i < k THEN s[i] ELSE s[i + 1]
      BY <3>1, WithoutIs
    <3>4. QED
      BY <3>2, <3>3 DEF s
  <2>2. QED
    BY <2>1 DEF TypeOK
<1> DEFINE n == Len(content[l])
<1>4. n \in Nat /\ k \in 1 .. n
  BY SMT, <1>1
<1>5. ASSUME NEW m \in Lists \ {l}, NEW i \in 1 .. n - 1, NEW j \in 1 .. Len(content[m])
      PROVE  content'[l][i] # content[m][j]
  BY SMT, <1>3, <1>4 DEF Distinct
<1>6. ASSUME NEW i \in 1 .. n - 1, NEW j \in 1 .. n - 1, content'[l][i] = content'[l][j]
      PROVE  i = j
  BY SMTT(30), <1>3, <1>4, <1>6 DEF Distinct
<1> HIDE DEF n
<1>7. Distinct'
  <2> SUFFICES ASSUME NEW m1 \in Lists, NEW m2 \in Lists,
                      NEW i \in 1 .. Len(content'[m1]), NEW j \in 1 .. Len(content'[m2]),
                      content'[m1][i] = content'[m2][j]
               PROVE  m1 = m2 /\ i = j
    BY DEF Distinct
  <2>1. CASE m1 = l /\ m2 = l
    BY <1>3, <1>6, <2>1 DEF n
  <2>2. CASE m1 = l /\ m2 # l
    BY SMT, <1>3, <1>5, <2>2 DEF n
  <2>3. CASE m1 # l /\ m2 = l
    BY SMT, <1>3, <1>5, <2>3 DEF n
  <2>4. CASE m1 # l /\ m2 # l
    BY SMT, <1>3, <2>4 DEF Distinct
  <2>5. QED
    BY <2>1, <2>2, <2>3, <2>4
<1>8. QED
  BY <1>3, <1>7

\* Which processes are on a list after an append.
LEMMA AppendMembers ==
  ASSUME TypeOK, Distinct, NEW l \in Lists, NEW p \in Procs, OffList(p),
         content' = [content EXCEPT ![l] = Append(@, p)]
  PROVE  \A q \in Procs, m \in Lists :
           OnList(q, m)' <=> (OnList(q, m) \/ (q = p /\ m = l))
<1> SUFFICES ASSUME NEW q \in Procs, NEW m \in Lists
             PROVE  OnList(q, m)' <=> (OnList(q, m) \/ (q = p /\ m = l))
  OBVIOUS
<1>1. CASE m # l
  BY <1>1, AppendEffect DEF OnList
<1>2. CASE m = l
  <2> DEFINE n == Len(content[l])
  <2>1. n \in Nat
    BY SMT DEF TypeOK
  <2>2. /\ Len(content'[l]) = n + 1
        /\ \A i \in 1 .. n : content'[l][i] = content[l][i]
        /\ content'[l][n + 1] = p
    BY AppendEffect
  <2> HIDE DEF n
  <2>3. OnList(q, l)' <=> \E i \in 1 .. n + 1 : content'[l][i] = q
    BY <2>2 DEF OnList
  <2>4. OnList(q, l) <=> \E i \in 1 .. n : content[l][i] = q
    BY DEF OnList, n
  <2>5. QED
    BY SMT, <1>2, <2>1, <2>2, <2>3, <2>4
<1>3. QED
  BY <1>1, <1>2

\* Which processes are on a list after a removal.
LEMMA RemoveMembers ==
  ASSUME TypeOK, Distinct, NEW l \in Lists, NEW p \in Procs, OnList(p, l),
         content' = [content EXCEPT ![l] = Without(@, p)]
  PROVE  \A q \in Procs, m \in Lists :
           OnList(q, m)' <=> (OnList(q, m) /\ q # p)
<1> SUFFICES ASSUME NEW q \in Procs, NEW m \in Lists
             PROVE  OnList(q, m)' <=> (OnList(q, m) /\ q # p)
  OBVIOUS
<1>0. PICK k \in 1 .. Len(content[l]) : content[l][k] = p
  BY DEF OnList
<1>1. CASE m # l
  BY SMT, <1>0, <1>1, RemoveEffect DEF OnList, Distinct
<1>2. CASE m = l
  <2> DEFINE n == Len(content[l])
  <2>1. n \in Nat /\ k \in 1 .. n
    BY SMT DEF TypeOK
  <2>2. /\ Len(content'[l]) = n - 1
        /\ \A i \in 1 .. n - 1 : content'[l][i] = IF i < k THEN content[l][i] ELSE content[l][i + 1]
    BY <1>0, RemoveEffect
  <2>3. \A i \in 1 .. n : content[l][i] = p => i = k
    BY <1>0 DEF Distinct
  <2>4. OnList(q, l)' <=> \E i \in 1 .. n - 1 : content'[l][i] = q
    BY <2>2 DEF OnList
  <2>5. OnList(q, l) <=> \E i \in 1 .. n : content[l][i] = q
    BY DEF OnList
  <2> HIDE DEF n
  <2>6. ASSUME NEW i \in 1 .. n - 1, content'[l][i] = q
        PROVE  OnList(q, l) /\ q # p
    <3>1. i \in 1 .. n /\ i + 1 \in 1 .. n /\ (i < k => i # k) /\ (~(i < k) => i + 1 # k)
      BY SMT, <2>1
    <3>2. content'[l][i] = IF i < k THEN content[l][i] ELSE content[l][i + 1]
      BY <2>2
    <3>3. QED
      BY <2>3, <2>5, <2>6, <3>1, <3>2
  <2>7. ASSUME NEW i \in 1 .. n, content[l][i] = q, q # p
        PROVE  OnList(q, l)'
    <3>1. CASE i < k
      BY SMT, <2>1, <2>2, <2>4, <2>7, <3>1
    <3>2. CASE i > k
      <4>1. i - 1 \in 1 .. n - 1 /\ ~(i - 1 < k) /\ (i - 1) + 1 = i
        BY SMT, <2>1, <3>2
      <4>2. content'[l][i - 1] = q
        BY <2>2, <2>7, <4>1
      <4>3. QED
        BY <2>4, <4>1, <4>2
    <3>3. QED
      BY SMT, <1>0, <2>1, <2>7, <3>1, <3>2
  <2>8. QED
    BY <1>2, <2>4, <2>5, <2>6, <2>7
<1>3. QED
  BY <1>1, <1>2

\* The lists that procinit() builds satisfy the invariant.
LEMMA InitIInv == ListInit => IInv
<1> SUFFICES ASSUME ListInit PROVE IInv
  OBVIOUS
<1> USE ListAssumption, CpuAssumption
<1> DEFINE table == [i \in 1 .. NPROC |-> i - 1]
<1>1. table \in Seq(Procs) /\ Len(table) = NPROC /\ \A i \in 1 .. NPROC : table[i] = i - 1
  BY SMT, SeqFunction DEF Procs
<1>2. \A l \in Lists : /\ l = UnusedList => content[l] = table
                       /\ l # UnusedList => content[l] = << >>
  BY DEF ListInit, Init
<1>3. content \in [Lists -> Seq(Procs)]
  BY <1>1, SeqEmpty DEF ListInit, Init
<1>4. TypeOK
  BY SMT, <1>3 DEF ListInit, TypeOK, Procs, Nil, PCs
<1> HIDE DEF table
<1>5. Distinct
  BY SMT, <1>1, <1>2 DEF Distinct
<1>6. ASSUME NEW p \in Procs PROVE ~OffList(p)
  <2>1. p + 1 \in 1 .. Len(content[UnusedList]) /\ content[UnusedList][p + 1] = p
    BY SMT, <1>1, <1>2 DEF Procs
  <2>2. QED
    BY <2>1 DEF OffList, OnList
<1>7. Encoded
  <2>1. ASSUME NEW l \in Lists
        PROVE  first[l] = IF content[l] = << >> THEN Nil ELSE content[l][1]
    <3>1. CASE l = UnusedList /\ NPROC > 0
      <4>1. content[l] # << >> /\ content[l][1] = 0
        BY SMT, <1>1, <1>2, <3>1, SeqEmpty
      <4>2. QED
        BY <3>1, <4>1 DEF ListInit
    <3>2. CASE l = UnusedList /\ NPROC = 0
      <4>1. content[l] = << >>
        BY SMT, <1>1, <1>2, <3>2
      <4>2. QED
        BY SMT, <3>2, <4>1 DEF ListInit
    <3>3. CASE l # UnusedList
      BY <1>2, <3>3 DEF ListInit
    <3>4. QED
      BY SMT, <3>1, <3>2, <3>3
  <2>2. ASSUME NEW l \in Lists, NEW i \in 1 .. Len(content[l])
        PROVE  next[content[l][i]] = IF i = Len(content[l]) THEN Nil ELSE content[l][i + 1]
    <3>1. l = UnusedList
      BY SMT, <1>2, <2>2, SeqEmpty
    <3>2. content[l][i] = i - 1 /\ i \in 1 .. NPROC /\ Len(content[l]) = NPROC
      BY <1>1, <1>2, <2>2, <3>1
    <3>3. i # NPROC => content[l][i + 1] = i
      BY SMT, <1>1, <1>2, <3>1, <3>2
    <3>4. QED
      BY SMT, <3>2, <3>3 DEF ListInit, Procs
  <2>3. QED
    BY <1>6, <2>1, <2>2 DEF Encoded
<1>8. LockedOnList /\ \A c \in Cpus : CpuInv(c)
  BY DEF ListInit, LockedOnList, CpuInv
<1>9. QED
  BY <1>4, <1>5, <1>7, <1>8 DEF IInv

\* An element of a list is not Nil, and the successor of a non-last element
\* is the next element.
LEMMA Successor ==
  ASSUME IInv, NEW l \in Lists, NEW i \in 1 .. Len(content[l])
  PROVE  /\ content[l][i] \in Procs
         /\ next[content[l][i]] = Nil => i = Len(content[l])
         /\ next[content[l][i]] # Nil => /\ i + 1 \in 1 .. Len(content[l])
                                         /\ next[content[l][i]] = content[l][i + 1]
<1>1. content[l] \in Seq(Procs) /\ Len(content[l]) \in Nat
  BY SMT DEF IInv, TypeOK
<1>2. \A j \in 1 .. Len(content[l]) : content[l][j] \in Procs
  BY <1>1, SeqElement
<1>3. next[content[l][i]] = IF i = Len(content[l]) THEN Nil ELSE content[l][i + 1]
  BY DEF IInv, Encoded
<1>4. i # Len(content[l]) => i + 1 \in 1 .. Len(content[l]) /\ content[l][i + 1] # Nil
  BY SMT, <1>1, <1>2 DEF Procs, Nil
<1>5. QED
  BY <1>2, <1>3, <1>4

\* The head of a list that is not empty.
LEMMA HeadOfList ==
  ASSUME IInv, NEW l \in Lists
  PROVE  /\ first[l] # Nil => /\ 1 \in 1 .. Len(content[l])
                              /\ content[l][1] = first[l] /\ first[l] \in Procs
                              /\ OnList(first[l], l)
         /\ \A i \in 1 .. Len(content[l]) : first[l] # Nil
<1>1. content[l] \in Seq(Procs) /\ Len(content[l]) \in Nat
  BY SMT DEF IInv, TypeOK
<1>2. content[l] = << >> <=> Len(content[l]) = 0
  BY <1>1, SeqEmpty
<1>3. first[l] = IF content[l] = << >> THEN Nil ELSE content[l][1]
  BY DEF IInv, Encoded
<1>4. 1 \in 1 .. Len(content[l]) => content[l][1] \in Procs
  BY <1>1, SeqElement
<1>5. QED
  BY SMT, <1>1, <1>2, <1>3, <1>4 DEF OnList, Procs, Nil

\* A step that leaves the lists and the element locks alone.
LEMMA SameLists ==
  ASSUME IInv, UNCHANGED <<content, first, next, stateLock>>
  PROVE  Distinct' /\ Encoded' /\ LockedOnList'
<1>1. \A p : OffList(p)' <=> OffList(p)
  BY DEF OffList, OnList
<1>2. Distinct'
  BY SMT DEF IInv, Distinct
<1>3. Encoded'
  BY <1>1 DEF IInv, Encoded
<1>4. LockedOnList'
  BY <1>1 DEF IInv, LockedOnList
<1>5. QED
  BY <1>2, <1>3, <1>4

-----------------------------------------------------------------------------
(* The steps that move locks and walks only                                *)

\* Taking and giving back p->lock.
LEMMA ProcLockStep ==
  ASSUME IInv, NEW c \in Cpus, (\E p \in Procs : AcquireProc(c, p)) \/ ReleaseProc(c)
  PROVE  IInv'
<1> USE DEF IInv
<1>1. UNCHANGED <<content, first, next, listLock, stateLock, lst, prev, curr, nxt, canRelease>>
  BY DEF AcquireProc, ReleaseProc
<1>2. TypeOK'
  <2>1. CASE \E p \in Procs : AcquireProc(c, p)
    BY SMT, <2>1 DEF TypeOK, AcquireProc, Goto, PCs
  <2>2. CASE ReleaseProc(c)
    BY <2>2 DEF TypeOK, ReleaseProc, Goto, PCs
  <2>3. QED
    BY <2>1, <2>2
<1>3. Distinct' /\ Encoded' /\ LockedOnList'
  BY <1>1, SameLists
<1>4. ASSUME NEW d \in Cpus PROVE CpuInv(d)'
  <2>1. CpuInv(d) /\ CpuInv(c)
    OBVIOUS
  <2>2. CASE d = c
    BY SMT, <1>1, <2>1, <2>2 DEF CpuInv, AcquireProc, ReleaseProc, Goto, TypeOK
  <2>3. CASE d # c
    <3>1. pc'[d] = pc[d] /\ arg'[d] = arg[d]
      BY <2>3 DEF AcquireProc, ReleaseProc, Goto, TypeOK
    <3>2. pc[d] # "idle" => procLock'[arg[d]] = d
      BY SMT, <2>1, <2>3, CpuAssumption DEF CpuInv, AcquireProc, ReleaseProc, TypeOK
    <3>3. (Walking(d)' <=> Walking(d)) /\ (TargetAhead(d)' <=> TargetAhead(d))
      BY <1>1, <3>1 DEF Walking, TargetAhead, OnList
    <3>4. /\ OffList(arg[d])' <=> OffList(arg[d])
          /\ OnList(arg[d], lst[d])' <=> OnList(arg[d], lst[d])
      BY <1>1, <3>1 DEF OnList, OffList
    <3>5. QED
      BY <1>1, <2>1, <3>1, <3>2, <3>3, <3>4 DEF CpuInv
  <2>4. QED
    BY <2>2, <2>3
<1>5. QED
  BY <1>2, <1>3, <1>4

\* What another CPU d knows survives a step of c that changes neither the
\* lists nor d's locals, takes no lock d holds and releases only locks of c.
LEMMA OtherCpuWalk ==
  ASSUME IInv, NEW c \in Cpus, NEW d \in Cpus, c # d,
         UNCHANGED <<content, first, next, procLock>>,
         pc'[d] = pc[d], lst'[d] = lst[d], arg'[d] = arg[d], prev'[d] = prev[d],
         curr'[d] = curr[d], nxt'[d] = nxt[d], canRelease'[d] = canRelease[d],
         \A l \in Lists : listLock[l] = d => listLock'[l] = d,
         \A p \in Procs : stateLock[p] = d => stateLock'[p] = d,
         pc[d] = "addEmpty" => stateLock'[arg[d]] = NoCpu
  PROVE  CpuInv(d)'
<1>1. CpuInv(d) /\ lst[d] \in Lists /\ prev[d] \in Procs \cup {Nil}
  BY DEF IInv, TypeOK
<1>2. \A p, l : (OnList(p, l)' <=> OnList(p, l)) /\ (OffList(p)' <=> OffList(p))
  <2>1. content' = content
    OBVIOUS
  <2>2. QED
    BY ONLY Zenon, <2>1 DEF OnList, OffList
<1>3. Walking(d) => Walking(d)'
  BY <1>1, <1>2 DEF Walking
<1>4. TargetAhead(d) => TargetAhead(d)'
  BY DEF TargetAhead
<1>5. QED
  BY <1>1, <1>2, <1>3, <1>4 DEF CpuInv

\* Locking the head of the list and starting to walk.
LEMMA HeadStep ==
  ASSUME IInv, NEW c \in Cpus, AddHead(c) \/ RemoveHead(c)
  PROVE  IInv'
<1> DEFINE l == lst[c]
           h == first[l]
<1>1. TypeOK /\ CpuInv(c) /\ Distinct /\ l \in Lists
  BY DEF IInv, TypeOK
<1>2. UNCHANGED <<content, first, next, listLock, procLock, lst, arg>>
  BY DEF AddHead, RemoveHead
<1>3. /\ stateLock[h] = NoCpu /\ stateLock' = [stateLock EXCEPT ![h] = c]
      /\ pc[c] \in {"addHead", "remHead"}
  BY DEF AddHead, RemoveHead
<1>4. listLock[l] = c /\ h # Nil /\ arg[c] \in Procs /\ procLock[arg[c]] = c
  BY <1>1, <1>3 DEF CpuInv
<1>5. 1 \in 1 .. Len(content[l]) /\ content[l][1] = h /\ h \in Procs /\ OnList(h, l)
  BY <1>1, <1>4, HeadOfList
<1>6. \A p \in Procs : stateLock'[p] = IF p = h THEN c ELSE stateLock[p]
  BY <1>1, <1>3 DEF TypeOK
<1>7. \A p : OffList(p)' <=> OffList(p)
  BY <1>2 DEF OnList, OffList
<1>8. TypeOK'
  <2>1. next[h] \in Procs \cup {Nil} /\ h \in Procs \cup {Nil}
    BY <1>1, <1>5 DEF TypeOK
  <2>2. /\ stateLock \in [Procs -> Cpus \cup {NoCpu}] /\ pc \in [Cpus -> PCs]
        /\ curr \in [Cpus -> Procs \cup {Nil}] /\ nxt \in [Cpus -> Procs \cup {Nil}]
        /\ prev \in [Cpus -> Procs \cup {Nil}] /\ canRelease \in [Cpus -> BOOLEAN]
    BY <1>1 DEF TypeOK
  <2>3. stateLock' \in [Procs -> Cpus \cup {NoCpu}]
    BY <1>3, <2>2
  <2>4. /\ curr' = [curr EXCEPT ![c] = h] /\ nxt' = [nxt EXCEPT ![c] = next[h]]
        /\ prev' = prev \/ prev' = [prev EXCEPT ![c] = Nil]
        /\ pc' = [pc EXCEPT ![c] = "addWalk"] \/ pc' = [pc EXCEPT ![c] = "remWalk"]
        /\ canRelease' = [canRelease EXCEPT ![c] = TRUE]
    BY DEF AddHead, RemoveHead, Goto
  <2>5. /\ curr' \in [Cpus -> Procs \cup {Nil}] /\ nxt' \in [Cpus -> Procs \cup {Nil}]
        /\ prev' \in [Cpus -> Procs \cup {Nil}] /\ canRelease' \in [Cpus -> BOOLEAN]
    BY <2>1, <2>2, <2>4
  <2>6. pc' \in [Cpus -> PCs]
    BY <2>2, <2>4 DEF PCs
  <2>7. QED
    BY <1>1, <1>2, <2>3, <2>5, <2>6 DEF TypeOK
<1>9. Distinct' /\ Encoded'
  <2>1. Distinct'
    BY SMT, <1>1, <1>2 DEF Distinct
  <2>2. Encoded'
    BY <1>2, <1>7 DEF IInv, Encoded
  <2>3. QED
    BY <2>1, <2>2
<1>10. LockedOnList'
  <2>1. ~OffList(h)
    BY <1>1, <1>5 DEF OffList
  <2>2. QED
    BY <1>6, <1>7, <2>1 DEF IInv, LockedOnList
<1>11. CpuInv(c)'
  <2>1. curr'[c] = h /\ nxt'[c] = next[h] /\ canRelease'[c] = TRUE
    BY <1>1 DEF TypeOK, AddHead, RemoveHead
  <2>2. lst'[c] = l /\ arg'[c] = arg[c] /\ listLock'[l] = c /\ procLock'[arg[c]] = c /\ next' = next
    BY <1>2, <1>4
  <2>3. stateLock'[h] = c
    BY <1>5, <1>6
  <2>4. Walking(c)'
    <3>1. OnList(curr[c], lst[c])'
      BY <1>2, <1>5, <2>1 DEF OnList
    <3>2. QED
      BY <1>5, <2>1, <2>2, <2>3, <3>1 DEF Walking
  <2>5. CASE AddHead(c)
    <3>1. pc[c] = "addHead" /\ pc'[c] = "addWalk"
      BY <1>1, <2>5 DEF AddHead, Goto, TypeOK
    <3>2. OffList(arg[c])
      BY <1>1, <3>1 DEF CpuInv
    <3>3. OffList(arg[c])'
      BY <1>2, <3>2 DEF OffList, OnList
    <3>4. QED
      BY <1>4, <2>2, <2>4, <3>1, <3>3 DEF CpuInv
  <2>6. CASE RemoveHead(c)
    <3>1. pc[c] = "remHead" /\ pc'[c] = "remWalk" /\ prev'[c] = Nil
      BY <1>1, <2>6 DEF RemoveHead, Goto, TypeOK
    <3>2. OnList(arg[c], l) /\ h # arg[c]
      BY <1>1, <3>1 DEF CpuInv
    <3>3. PICK j \in 1 .. Len(content[l]) : content[l][j] = arg[c]
      BY <3>2 DEF OnList
    <3>4. 1 < j
      BY SMT, <1>5, <3>2, <3>3
    <3>5. TargetAhead(c)'
      BY <1>2, <1>5, <2>1, <3>3, <3>4 DEF TargetAhead
    <3>6. QED
      BY <1>4, <2>2, <2>4, <3>1, <3>5 DEF CpuInv
  <2>7. QED
    BY <2>5, <2>6
<1>12. ASSUME NEW d \in Cpus, d # c PROVE CpuInv(d)'
  <2>1. CpuInv(d) /\ lst[d] \in Lists
    BY <1>1 DEF IInv, TypeOK
  <2>2. pc[d] = "addEmpty" => arg[d] # h /\ arg[d] \in Procs /\ stateLock[arg[d]] = NoCpu
    <3> SUFFICES ASSUME pc[d] = "addEmpty"
                 PROVE  arg[d] # h /\ arg[d] \in Procs /\ stateLock[arg[d]] = NoCpu
      OBVIOUS
    <3>1. /\ content[lst[d]] = <<arg[d]>> /\ listLock[lst[d]] = d
          /\ arg[d] \in Procs /\ stateLock[arg[d]] = NoCpu
      BY <2>1 DEF CpuInv
    <3>2. 1 \in 1 .. Len(content[lst[d]]) /\ content[lst[d]][1] = arg[d]
      BY SMT, <3>1
    <3>3. lst[d] # l
      BY <1>4, <1>12, <3>1
    <3>4. arg[d] # h
      BY <1>1, <1>5, <2>1, <3>2, <3>3, SamePlace
    <3>5. QED
      BY <3>1, <3>4
  <2>3. /\ pc'[d] = pc[d] /\ prev'[d] = prev[d] /\ curr'[d] = curr[d]
        /\ nxt'[d] = nxt[d] /\ canRelease'[d] = canRelease[d]
    BY <1>1, <1>12 DEF TypeOK, AddHead, RemoveHead, Goto
  <2>4. \A p \in Procs : stateLock[p] = d => stateLock'[p] = d
    BY <1>3, <1>6, CpuAssumption
  <2>5. pc[d] = "addEmpty" => stateLock'[arg[d]] = NoCpu
    BY <1>6, <2>2
  <2>6. QED
    BY <1>2, <1>12, <2>3, <2>4, <2>5, OtherCpuWalk
<1>13. QED
  BY <1>8, <1>9, <1>10, <1>11, <1>12 DEF IInv

\* Advancing the walk by one element.
LEMMA WalkStep ==
  ASSUME IInv, NEW c \in Cpus, AddWalk(c) \/ RemoveWalk(c)
  PROVE  IInv'
<1> DEFINE l == lst[c]
           n == nxt[c]
<1>0. /\ TypeOK /\ CpuInv(c) /\ Distinct /\ l \in Lists
      /\ prev[c] \in Procs \cup {Nil} /\ n \in Procs \cup {Nil}
  BY DEF IInv, TypeOK
<1>1. /\ UNCHANGED <<content, first, next, procLock, lst, arg, pc>>
      /\ stateLock[n] = NoCpu /\ n # Nil /\ pc[c] \in {"addWalk", "remWalk"}
      /\ ReleaseListIf(c, canRelease[c])
      /\ curr' = [curr EXCEPT ![c] = n] /\ nxt' = [nxt EXCEPT ![c] = next[n]]
      /\ canRelease' = [canRelease EXCEPT ![c] = FALSE]
  BY DEF AddWalk, RemoveWalk
<1>2. Walking(c) /\ n \in Procs /\ arg[c] \in Procs /\ procLock[arg[c]] = c
  BY <1>0, <1>1 DEF CpuInv
<1>3. PICK i \in 1 .. Len(content[l]) : content[l][i] = curr[c]
  BY <1>2 DEF Walking, OnList
<1>4. /\ i + 1 \in 1 .. Len(content[l]) /\ n = content[l][i + 1]
      /\ curr[c] \in Procs /\ stateLock[curr[c]] = c
  <2>1. n = next[content[l][i]] /\ curr[c] \in Procs /\ stateLock[curr[c]] = c
    BY <1>2, <1>3 DEF Walking
  <2>2. QED
    BY <1>0, <1>1, <2>1, Successor
<1>5. \A p \in Procs : /\ p = n => stateLock'[p] = c
                       /\ p # n => stateLock'[p] \in {stateLock[p], NoCpu}
                       /\ p # n /\ stateLock[p] # c => stateLock'[p] = stateLock[p]
  <2>1. CASE AddWalk(c)
    <3>1. stateLock' = [stateLock EXCEPT ![n] = c, ![curr[c]] = NoCpu] /\ curr[c] # n
      <4>1. curr[c] # n
        BY <1>1, <1>4, CpuAssumption
      <4>2. QED
        BY <2>1, <4>1 DEF AddWalk
    <3>2. stateLock \in [Procs -> Cpus \cup {NoCpu}]
      BY <1>0 DEF TypeOK
    <3>3. QED
      BY <1>2, <1>4, <3>1, <3>2
  <2>2. CASE RemoveWalk(c)
    <3>1. prev[c] # Nil => stateLock[prev[c]] = c
      BY <1>0, <2>2 DEF RemoveWalk, CpuInv
    <3>2. Nil \notin Procs
      BY SMT DEF Nil, Procs
    <3>3. stateLock' = [p \in Procs |-> IF p = n THEN c
                                          ELSE IF p = prev[c] THEN NoCpu ELSE stateLock[p]]
      BY <2>2 DEF RemoveWalk
    <3>4. QED
      BY <3>1, <3>2, <3>3
  <2>3. QED
    BY <2>1, <2>2
<1>6. \A p : OffList(p)' <=> OffList(p)
  BY <1>1 DEF OnList, OffList
<1>7. OnList(n, l) /\ ~OffList(n)
  BY <1>0, <1>4 DEF OffList, OnList
<1>8. TypeOK'
  <2>1. /\ stateLock \in [Procs -> Cpus \cup {NoCpu}] /\ listLock \in [Lists -> Cpus \cup {NoCpu}]
        /\ next \in [Procs -> Procs \cup {Nil}] /\ prev \in [Cpus -> Procs \cup {Nil}]
    BY <1>0 DEF TypeOK
  <2>2. listLock' \in [Lists -> Cpus \cup {NoCpu}]
    BY <1>1, <2>1 DEF ReleaseListIf
  <2>3. stateLock' \in [Procs -> Cpus \cup {NoCpu}]
    BY <2>1 DEF AddWalk, RemoveWalk
  <2>4. prev' \in [Cpus -> Procs \cup {Nil}]
    BY <1>4, <2>1 DEF AddWalk, RemoveWalk
  <2>5. next[n] \in Procs \cup {Nil}
    BY <1>2, <2>1
  <2>6. QED
    BY <1>0, <1>1, <1>2, <2>2, <2>3, <2>4, <2>5 DEF TypeOK
<1>9. Distinct' /\ Encoded'
  <2>1. Distinct'
    <3>1. Distinct /\ content' = content
      BY <1>0, <1>1
    <3>2. QED
      BY ONLY <3>1 DEF Distinct
  <2>2. Encoded'
    BY <1>1, <1>6 DEF IInv, Encoded
  <2>3. QED
    BY <2>1, <2>2
<1>10. LockedOnList'
  BY <1>5, <1>6, <1>7 DEF IInv, LockedOnList
<1>11. CpuInv(c)'
  <2>1. /\ curr'[c] = n /\ nxt'[c] = next[n] /\ canRelease'[c] = FALSE
    <3>1. /\ curr \in [Cpus -> Procs \cup {Nil}] /\ nxt \in [Cpus -> Procs \cup {Nil}]
          /\ canRelease \in [Cpus -> BOOLEAN]
      BY <1>0 DEF TypeOK
    <3>2. QED
      BY <1>1, <3>1
  <2>2. /\ pc'[c] = pc[c] /\ lst'[c] = l /\ arg'[c] = arg[c] /\ next' = next
        /\ arg[c] \in Procs /\ procLock'[arg[c]] = c
    BY <1>1, <1>2
  <2>3. Walking(c)'
    <3>1. stateLock'[n] = c
      BY <1>2, <1>5
    <3>2. OnList(curr[c], lst[c])'
      BY <1>1, <1>7, <2>1 DEF OnList
    <3>3. QED
      BY <1>2, <2>1, <2>2, <3>1, <3>2 DEF Walking
  <2>4. CASE AddWalk(c)
    <3>1. pc[c] = "addWalk"
      BY <2>4 DEF AddWalk
    <3>2. OffList(arg[c])
      BY <1>0, <3>1 DEF CpuInv
    <3>3. OffList(arg[c])'
      BY <1>1, <3>2 DEF OffList, OnList
    <3>4. QED
      BY <2>2, <2>3, <3>1, <3>3 DEF CpuInv
  <2>5. CASE RemoveWalk(c)
    <3>1. pc[c] = "remWalk" /\ prev'[c] = curr[c] /\ n # arg[c]
      BY <1>0, <2>5 DEF RemoveWalk, TypeOK
    <3>2. TargetAhead(c) /\ prev[c] # curr[c]
      <4>1. TargetAhead(c) /\ (prev[c] # Nil => prev[c] # curr[c])
        BY <1>0, <3>1 DEF CpuInv
      <4>2. curr[c] # Nil
        BY SMT, <1>4 DEF Procs, Nil
      <4>3. QED
        BY <4>1, <4>2
    <3>3. PICK a, b \in 1 .. Len(content[l]) :
            a < b /\ content[l][a] = curr[c] /\ content[l][b] = arg[c]
      BY <3>2 DEF TargetAhead
    <3>4. a = i
      BY ONLY <1>0, <1>3, <3>3, SamePlace
    <3>5. i + 1 < b
      BY SMT, <1>4, <3>1, <3>3, <3>4
    <3>6. TargetAhead(c)'
      BY <1>1, <1>4, <2>1, <3>3, <3>5 DEF TargetAhead
    <3>7. curr[c] # n
      BY <1>1, <1>4, CpuAssumption
    <3>8. stateLock'[curr[c]] = c
      BY <1>4, <2>5, <3>2, <3>7 DEF RemoveWalk
    <3>9. QED
      BY <2>1, <2>2, <2>3, <3>1, <3>6, <3>7, <3>8 DEF CpuInv
  <2>6. QED
    BY <2>4, <2>5
<1>12. ASSUME NEW d \in Cpus, d # c PROVE CpuInv(d)'
  <2>1. CpuInv(d) /\ lst[d] \in Lists
    BY <1>0 DEF IInv, TypeOK
  <2>2. pc[d] = "addEmpty" => arg[d] # n /\ arg[d] \in Procs /\ stateLock[arg[d]] = NoCpu
    <3> SUFFICES ASSUME pc[d] = "addEmpty"
                 PROVE  arg[d] # n /\ arg[d] \in Procs /\ stateLock[arg[d]] = NoCpu
      OBVIOUS
    <3>1. content[lst[d]] = <<arg[d]>> /\ arg[d] \in Procs /\ stateLock[arg[d]] = NoCpu
      BY <2>1 DEF CpuInv
    <3>2. 1 \in 1 .. Len(content[lst[d]]) /\ content[lst[d]][1] = arg[d]
      BY SMT, <3>1
    <3>3. i + 1 # 1
      BY SMT, <1>3
    <3>4. arg[d] # n
      BY SMT, <1>0, <1>4, <2>1, <3>2, <3>3, SamePlace
    <3>5. QED
      BY <3>1, <3>4
  <2>3. /\ prev'[d] = prev[d] /\ curr'[d] = curr[d]
        /\ nxt'[d] = nxt[d] /\ canRelease'[d] = canRelease[d]
    BY <1>0, <1>12 DEF TypeOK, AddWalk, RemoveWalk
  <2>4. \A p \in Procs : stateLock[p] = d => stateLock'[p] = d
    BY <1>1, <1>5, <1>12, CpuAssumption
  <2>5. pc[d] = "addEmpty" => stateLock'[arg[d]] = NoCpu
    BY <1>5, <2>2
  <2>6. \A m \in Lists : listLock[m] = d => listLock'[m] = d
    <3>1. canRelease[c] => listLock[l] = c
      BY <1>2 DEF Walking
    <3>2. listLock \in [Lists -> Cpus \cup {NoCpu}]
      BY <1>0 DEF TypeOK
    <3>3. QED
      BY <1>1, <1>12, <3>1, <3>2 DEF ReleaseListIf
  <2>7. QED
    BY <1>1, <1>12, <2>3, <2>4, <2>5, <2>6, OtherCpuWalk
<1>13. QED
  BY <1>8, <1>9, <1>10, <1>11, <1>12 DEF IInv

\* Taking the list lock to remove.
LEMMA RemoveEnterStep ==
  ASSUME IInv, NEW c \in Cpus, NEW l \in Lists, RemoveEnter(c, l)
  PROVE  IInv'
<1>1. /\ TypeOK /\ CpuInv(c) /\ pc[c] = "held" /\ OnList(arg[c], l)
      /\ UNCHANGED <<content, first, next, stateLock, procLock, arg, prev, curr, nxt, canRelease>>
      /\ listLock[l] = NoCpu /\ listLock' = [listLock EXCEPT ![l] = c]
      /\ lst' = [lst EXCEPT ![c] = l]
  BY DEF IInv, RemoveEnter
<1>2. first[l] # Nil
  BY <1>1, HeadOfList DEF OnList
<1>3. pc' = [pc EXCEPT ![c] = IF first[l] = arg[c] THEN "remFirst" ELSE "remHead"]
  BY <1>2 DEF RemoveEnter, Goto
<1>4. TypeOK'
  BY <1>1, <1>3 DEF TypeOK, PCs
<1>5. Distinct' /\ Encoded' /\ LockedOnList'
  <2>1. UNCHANGED <<content, first, next, stateLock>>
    BY <1>1
  <2>2. QED
    BY <2>1, SameLists
<1>6. CpuInv(c)'
  BY <1>1, <1>2, <1>3 DEF CpuInv, TypeOK, OnList
<1>7. ASSUME NEW d \in Cpus, d # c PROVE CpuInv(d)'
  <2>1. CpuInv(d)
    BY DEF IInv
  <2>2. /\ pc'[d] = pc[d] /\ lst'[d] = lst[d]
        /\ \A m \in Lists : listLock[m] = d => listLock'[m] = d
    BY <1>1, <1>3, <1>7, CpuAssumption DEF TypeOK
  <2>3. pc[d] = "addEmpty" => stateLock'[arg[d]] = NoCpu
    BY <1>1, <2>1 DEF CpuInv
  <2>4. QED
    BY <1>1, <1>7, <2>2, <2>3, OtherCpuWalk
<1>8. QED
  BY <1>4, <1>5, <1>6, <1>7 DEF IInv

-----------------------------------------------------------------------------
(* The invariant under add_proc_to_list()                                  *)

\* What another CPU d knows survives an append by c of the process whose
\* p->lock c holds, when no next pointer of an element d has locked changes.
LEMMA OtherCpuAppend ==
  ASSUME IInv, NEW c \in Cpus, NEW d \in Cpus, c # d,
         NEW l \in Lists, arg[c] \in Procs, procLock[arg[c]] = c, OffList(arg[c]),
         content' = [content EXCEPT ![l] = Append(@, arg[c])],
         UNCHANGED procLock,
         pc'[d] = pc[d], lst'[d] = lst[d], arg'[d] = arg[d], prev'[d] = prev[d],
         curr'[d] = curr[d], nxt'[d] = nxt[d], canRelease'[d] = canRelease[d],
         \A m \in Lists : listLock[m] = d => listLock'[m] = d /\ first'[m] = first[m],
         \A p \in Procs : stateLock[p] = d => stateLock'[p] = d /\ next'[p] = next[p],
         pc[d] = "addEmpty" => stateLock'[arg[d]] = NoCpu /\ lst[d] # l
  PROVE  CpuInv(d)'
<1>1. CpuInv(d) /\ lst[d] \in Lists /\ prev[d] \in Procs \cup {Nil} /\ TypeOK /\ Distinct
  BY DEF IInv, TypeOK
<1>2. \A q \in Procs, m \in Lists :
         OnList(q, m)' <=> (OnList(q, m) \/ (q = arg[c] /\ m = l))
  BY <1>1, AppendMembers
<1>3. /\ \A m \in Lists \ {l} : content'[m] = content[m]
      /\ Len(content'[l]) = Len(content[l]) + 1
      /\ \A i \in 1 .. Len(content[l]) : content'[l][i] = content[l][i]
  BY <1>1, AppendEffect
<1>4. pc[d] # "idle" => arg[d] \in Procs /\ arg[d] # arg[c]
  BY <1>1 DEF CpuInv
<1>5. pc[d] # "idle" => (OffList(arg[d]) => OffList(arg[d])')
  BY <1>2, <1>4 DEF OffList
<1>6. pc[d] # "idle" => (OnList(arg[d], lst[d]) => OnList(arg[d], lst[d])')
  BY <1>1, <1>2, <1>4
<1>7. Walking(d) => Walking(d)'
  BY SMT, <1>1, <1>2 DEF Walking
<1>8. TargetAhead(d) => TargetAhead(d)'
  <2>1. CASE lst[d] # l
    BY SMT, <1>1, <1>3, <2>1 DEF TargetAhead
  <2>2. CASE lst[d] = l
    <3>0. content[l] \in Seq(Procs)
      BY <1>1 DEF TypeOK
    <3>1. Len(content[l]) \in Nat
      BY ONLY SMT, <3>0
    <3>2. \A i \in 1 .. Len(content[l]) : i \in 1 .. Len(content'[l])
      BY SMT, <1>3, <3>1
    <3>3. ASSUME TargetAhead(d) PROVE TargetAhead(d)'
      <4>1. PICK i, j \in 1 .. Len(content[l]) :
              i < j /\ content[l][i] = curr[d] /\ content[l][j] = arg[d]
        BY <2>2, <3>3 DEF TargetAhead
      <4>2. i \in 1 .. Len(content'[l]) /\ j \in 1 .. Len(content'[l])
        BY <3>2
      <4>3. content'[l][i] = curr'[d] /\ content'[l][j] = arg'[d]
        BY <1>3, <4>1
      <4>4. QED
        BY SMT, <2>2, <4>1, <4>2, <4>3 DEF TargetAhead
    <3>4. QED
      BY <3>3
  <2>3. QED
    BY <2>1, <2>2
<1>9. pc[d] = "addEmpty" => content'[lst[d]] = <<arg[d]>>
  BY <1>1, <1>3 DEF CpuInv
<1>10. QED
  BY <1>1, <1>5, <1>6, <1>7, <1>8, <1>9 DEF CpuInv

\* Taking the list lock to add; an empty list gets its first element.
LEMMA AddEnterStep ==
  ASSUME IInv, NEW c \in Cpus, NEW l \in Lists, AddEnter(c, l)
  PROVE  IInv'
<1>1. /\ TypeOK /\ Distinct /\ CpuInv(c) /\ pc[c] = "held" /\ OffList(arg[c])
      /\ arg[c] \in Procs /\ procLock[arg[c]] = c
      /\ UNCHANGED <<next, stateLock, procLock, arg, prev, curr, nxt, canRelease>>
      /\ listLock[l] = NoCpu /\ listLock' = [listLock EXCEPT ![l] = c]
      /\ lst' = [lst EXCEPT ![c] = l]
  BY DEF IInv, AddEnter, CpuInv
<1>2. stateLock[arg[c]] = NoCpu
  BY <1>1 DEF IInv, LockedOnList
<1>3. ASSUME NEW d \in Cpus, d # c
      PROVE  /\ lst'[d] = lst[d]
             /\ \A m \in Lists : listLock[m] = d => listLock'[m] = d
             /\ pc[d] = "addEmpty" => stateLock'[arg[d]] = NoCpu /\ lst[d] # l
  <2>1. CpuInv(d)
    BY DEF IInv
  <2>2. QED
    BY <1>1, <1>3, <2>1, CpuAssumption DEF TypeOK, CpuInv
<1>4. CASE first[l] # Nil
  <2>1. UNCHANGED <<first, content>> /\ pc' = [pc EXCEPT ![c] = "addHead"]
    BY <1>4 DEF AddEnter, Goto
  <2>2. TypeOK'
    BY <1>1, <2>1 DEF TypeOK, PCs
  <2>3. Distinct' /\ Encoded' /\ LockedOnList'
    <3>1. UNCHANGED <<content, first, next, stateLock>>
      BY <1>1, <2>1
    <3>2. QED
      BY <3>1, SameLists
  <2>4. CpuInv(c)'
    BY <1>1, <1>4, <2>1 DEF CpuInv, TypeOK, OffList, OnList
  <2>5. ASSUME NEW d \in Cpus, d # c PROVE CpuInv(d)'
    <3>1. pc'[d] = pc[d]
      BY SMT, <2>1, <2>5 DEF TypeOK
    <3>2. QED
      BY <1>1, <1>3, <2>1, <2>5, <3>1, OtherCpuWalk
  <2>6. QED
    BY <2>2, <2>3, <2>4, <2>5 DEF IInv
<1>5. CASE first[l] = Nil
  <2>1. /\ first' = [first EXCEPT ![l] = arg[c]]
        /\ content' = [content EXCEPT ![l] = Append(@, arg[c])]
        /\ pc' = [pc EXCEPT ![c] = "addEmpty"]
    BY <1>5 DEF AddEnter, Goto
  <2>2. content[l] = << >>
    BY SMT, <1>1, <1>5, HeadOfList, SeqEmpty DEF TypeOK
  <2>3. content'[l] = <<arg[c]>>
    BY SMT, <1>1, <2>1, <2>2 DEF TypeOK
  <2>4. /\ content' \in [Lists -> Seq(Procs)] /\ Distinct'
        /\ \A m \in Lists \ {l} : content'[m] = content[m]
    BY <1>1, <2>1, AppendEffect
  <2>5. TypeOK'
    BY <1>1, <2>1, <2>4 DEF TypeOK, PCs
  <2>6. \A q \in Procs, m \in Lists :
           OnList(q, m)' <=> (OnList(q, m) \/ (q = arg[c] /\ m = l))
    BY <1>1, <2>1, AppendMembers
  <2>7. \A q \in Procs : OffList(q)' <=> (OffList(q) /\ q # arg[c])
    BY <2>6 DEF OffList
  <2>8. Encoded'
    <3>1. next[arg[c]] = Nil
      BY <1>1 DEF IInv, Encoded
    <3>2. ASSUME NEW m \in Lists
          PROVE  /\ first'[m] = IF content'[m] = << >> THEN Nil ELSE content'[m][1]
                 /\ \A i \in 1 .. Len(content'[m]) :
                      next'[content'[m][i]] =
                        IF i = Len(content'[m]) THEN Nil ELSE content'[m][i + 1]
      <4>1. CASE m = l
        <5>1. content'[m] # << >> /\ content'[m][1] = arg[c] /\ Len(content'[m]) = 1
          <6>1. content'[m] = <<arg[c]>>
            BY <2>3, <4>1
          <6>2. QED
            BY ONLY <6>1
        <5>2. first'[m] = arg[c]
          BY <1>1, <2>1, <4>1 DEF TypeOK
        <5>3. QED
          BY SMT, <1>1, <3>1, <5>1, <5>2
      <4>2. CASE m # l
        <5>1. content'[m] = content[m] /\ first'[m] = first[m] /\ next' = next
          BY <1>1, <2>1, <2>4, <4>2 DEF TypeOK
        <5>2. QED
          BY SMT, <5>1 DEF IInv, Encoded
      <4>3. QED
        BY <4>1, <4>2
    <3>3. \A p \in Procs : OffList(p)' => next'[p] = Nil
      BY <1>1, <2>7 DEF IInv, Encoded
    <3>4. QED
      BY <3>2, <3>3 DEF Encoded
  <2>9. LockedOnList'
    BY <1>1, <2>7 DEF IInv, LockedOnList
  <2>10. CpuInv(c)'
    BY <1>1, <1>2, <2>1, <2>3 DEF CpuInv, TypeOK
  <2>11. ASSUME NEW d \in Cpus, d # c PROVE CpuInv(d)'
    <3>1. pc'[d] = pc[d]
      BY <1>1, <2>1, <2>11 DEF TypeOK
    <3>2. \A m \in Lists : listLock[m] = d => first'[m] = first[m]
      BY <1>1, <2>1, CpuAssumption DEF TypeOK
    <3>3. QED
      BY <1>1, <1>3, <2>1, <2>11, <3>1, <3>2, OtherCpuAppend
  <2>12. QED
    BY <2>4, <2>5, <2>8, <2>9, <2>10, <2>11 DEF IInv
<1>6. QED
  BY <1>4, <1>5

\* Writing next = -1 into the only element of the list.
LEMMA AddEmptyStep ==
  ASSUME IInv, NEW c \in Cpus, AddEmpty(c)
  PROVE  IInv'
<1> DEFINE l == lst[c]
<1>1. /\ TypeOK /\ CpuInv(c) /\ l \in Lists
      /\ listLock[l] = c /\ content[l] = <<arg[c]>>
      /\ UNCHANGED <<content, first, stateLock, procLock, arg>>
      /\ next' = [next EXCEPT ![first[l]] = Nil]
      /\ listLock' = [listLock EXCEPT ![l] = NoCpu] /\ Return(c)
  BY DEF IInv, TypeOK, AddEmpty, CpuInv, Return
<1>2. first[l] \in Procs /\ next[first[l]] = Nil
  <2>0. content[l] = <<arg[c]>>
    BY <1>1
  <2>1. 1 \in 1 .. Len(content[l]) /\ Len(content[l]) = 1
    BY ONLY <2>0
  <2>2. first[l] = content[l][1] /\ first[l] \in Procs
    BY <1>1, <2>1, HeadOfList
  <2>3. QED
    BY <1>1, <2>1, <2>2 DEF IInv, Encoded
<1>3. next' = next
  BY <1>1, <1>2 DEF TypeOK
<1>4. TypeOK'
  BY <1>1, <1>3, ListAssumption DEF TypeOK, Return, Goto, PCs
<1>5. Distinct' /\ Encoded' /\ LockedOnList'
  <2>1. UNCHANGED <<content, first, next, stateLock>>
    BY <1>1, <1>3
  <2>2. QED
    BY <2>1, SameLists
<1>6. CpuInv(c)'
  BY <1>1 DEF CpuInv, TypeOK, Return, Goto, AddEmpty
<1>7. ASSUME NEW d \in Cpus, d # c PROVE CpuInv(d)'
  <2>1. CpuInv(d)
    BY DEF IInv
  <2>2. /\ pc'[d] = pc[d] /\ lst'[d] = lst[d] /\ prev'[d] = prev[d] /\ curr'[d] = curr[d]
        /\ nxt'[d] = nxt[d] /\ canRelease'[d] = canRelease[d]
    BY <1>1, <1>7 DEF TypeOK, Return, Goto
  <2>3. \A m \in Lists : listLock[m] = d => listLock'[m] = d
    BY <1>1, <1>7 DEF TypeOK
  <2>4. pc[d] = "addEmpty" => stateLock'[arg[d]] = NoCpu
    BY <1>1, <2>1 DEF CpuInv
  <2>5. QED
    BY <1>1, <1>3, <1>7, <2>2, <2>3, <2>4, OtherCpuWalk
<1>8. QED
  BY <1>4, <1>5, <1>6, <1>7 DEF IInv

\* Linking the new element behind the last one.
LEMMA AddLinkStep ==
  ASSUME IInv, NEW c \in Cpus, AddLink(c)
  PROVE  IInv'
<1> DEFINE l == lst[c]
           p == arg[c]
           n == Len(content[l])
<1>1. /\ TypeOK /\ Distinct /\ CpuInv(c) /\ Walking(c) /\ l \in Lists
      /\ p \in Procs /\ procLock[p] = c /\ OffList(p) /\ stateLock[p] = NoCpu
      /\ curr[c] \in Procs /\ stateLock[curr[c]] = c /\ next[curr[c]] = Nil
      /\ next' = [next EXCEPT ![curr[c]] = p, ![p] = Nil]
      /\ stateLock' = [stateLock EXCEPT ![curr[c]] = NoCpu]
      /\ ReleaseListIf(c, canRelease[c])
      /\ content' = [content EXCEPT ![l] = Append(@, p)]
      /\ Return(c) /\ UNCHANGED <<first, procLock, arg>>
  BY DEF IInv, TypeOK, AddLink, CpuInv, Walking, Return
<1>2. PICK k \in 1 .. n : content[l][k] = curr[c]
  BY <1>1 DEF Walking, OnList
<1>3. n \in Nat /\ n >= 1 /\ content[l][n] = curr[c]
  <2>1. k = n
    BY <1>1, <1>2, Successor
  <2>2. n \in Nat
    <3>1. content \in [Lists -> Seq(Procs)]
      BY <1>1 DEF TypeOK
    <3>2. content[l] \in Seq(Procs)
      BY <1>1, <3>1
    <3>3. QED
      BY ONLY <3>2
  <2>3. QED
    BY ONLY <1>2, <2>1, <2>2
<1>4. /\ content' \in [Lists -> Seq(Procs)] /\ Distinct'
      /\ \A m \in Lists \ {l} : content'[m] = content[m]
      /\ Len(content'[l]) = n + 1
      /\ \A i \in 1 .. n : content'[l][i] = content[l][i]
      /\ content'[l][n + 1] = p
  BY <1>1, AppendEffect
<1>5. \A q \in Procs, m \in Lists :
         OnList(q, m)' <=> (OnList(q, m) \/ (q = p /\ m = l))
  BY <1>1, AppendMembers
<1>6. \A q \in Procs : OffList(q)' <=> (OffList(q) /\ q # p)
  BY <1>1, <1>5 DEF OffList
<1>7. p # curr[c]
  BY <1>1, CpuAssumption
<1>8. TypeOK'
  <2>1. listLock' \in [Lists -> Cpus \cup {NoCpu}]
    BY <1>1 DEF TypeOK, ReleaseListIf
  <2>2. QED
    BY <1>1, <1>4, <2>1, ListAssumption DEF TypeOK, Return, Goto, PCs
<1>9. Encoded'
  <2>1. \A q \in Procs : next'[q] = IF q = p THEN Nil ELSE IF q = curr[c] THEN p ELSE next[q]
    BY <1>1, <1>7 DEF TypeOK
  <2>2. ASSUME NEW m \in Lists
        PROVE  /\ first'[m] = IF content'[m] = << >> THEN Nil ELSE content'[m][1]
               /\ \A i \in 1 .. Len(content'[m]) :
                    next'[content'[m][i]] = IF i = Len(content'[m]) THEN Nil ELSE content'[m][i + 1]
    <3>1. CASE m = l
      <4>1. content'[l] # << >> /\ content[l] # << >>
        <5>1. Len(<< >>) = 0
          BY SeqEmpty
        <5> HIDE DEF n, l, p
        <5>2. n + 1 # 0 /\ n # 0
          BY SMT, <1>3
        <5>3. QED
          BY <1>4, <5>1, <5>2 DEF n
      <4>2. first'[l] = content'[l][1]
        <5>1. l \in Lists /\ first' = first /\ Encoded
          BY <1>1 DEF IInv
        <5>2. first[l] = content[l][1]
          BY ONLY Zenon, <4>1, <5>1 DEF Encoded
        <5>3. 1 \in 1 .. n
          BY ONLY <1>3
        <5>4. content'[l][1] = content[l][1]
          BY <1>4, <5>3
        <5>5. QED
          BY ONLY Zenon, <5>1, <5>2, <5>4
      <4>3. ASSUME NEW i \in 1 .. n + 1
            PROVE  next'[content'[l][i]] = IF i = n + 1 THEN Nil ELSE content'[l][i + 1]
        <5>1. CASE i = n + 1
          BY <1>1, <1>4, <2>1, <5>1
        <5>2. CASE i = n
          <6> HIDE DEF n, l, p
          <6>1. i \in 1 .. n /\ i # n + 1 /\ content'[l][i] = curr[c]
            BY SMT, <1>3, <1>4, <5>2
          <6>2. next'[curr[c]] = p
            BY <1>1, <1>7, <2>1
          <6>3. QED
            BY <1>4, <5>2, <6>1, <6>2
        <5>3. CASE i < n
          <6>1. i \in 1 .. n /\ i + 1 \in 1 .. n /\ i # n
            BY SMT, <1>3, <5>3
          <6>2. content[l][i] # curr[c]
            <7>1. Distinct /\ l \in Lists /\ n \in 1 .. n /\ content[l][n] = curr[c]
              BY SMT, <1>1, <1>3
            <7>2. QED
              BY ONLY SMTT(30), <6>1, <7>1 DEF Distinct
          <6>3. content[l][i] # p /\ content[l][i] \in Procs
            <7>1. content \in [Lists -> Seq(Procs)] /\ content[l] \in Seq(Procs)
              BY <1>1 DEF TypeOK
            <7>2. content[l][i] \in Procs
              BY <6>1, <7>1, SeqElement
            <7>3. content[l][i] # p
              BY <1>1, <6>1 DEF OffList, OnList
            <7>4. QED
              BY <7>2, <7>3
          <6>4. next[content[l][i]] = content[l][i + 1]
            <7>1. Encoded /\ l \in Lists
              BY <1>1 DEF IInv
            <7>2. QED
              BY ONLY Zenon, <6>1, <7>1 DEF Encoded
          <6> HIDE DEF n, l, p
          <6>5. QED
            BY <1>3, <1>4, <2>1, <6>1, <6>2, <6>3, <6>4
        <5>4. QED
          BY SMT, <1>3, <5>1, <5>2, <5>3
      <4>4. QED
        BY <1>4, <3>1, <4>1, <4>2, <4>3
    <3>2. CASE m # l
      <4>1. content'[m] = content[m] /\ first'[m] = first[m]
        BY <1>1, <1>4, <3>2
      <4>2. ASSUME NEW i \in 1 .. Len(content[m])
            PROVE  content[m][i] \in Procs /\ content[m][i] # curr[c] /\ content[m][i] # p
        <5>1. content[m][i] \in Procs
          BY <1>1, SeqElement DEF TypeOK
        <5>2. content[m][i] # p
          BY <1>1 DEF OffList, OnList
        <5>3. content[m][i] # curr[c]
          <6>1. Distinct /\ l \in Lists /\ content[l][k] = curr[c]
            BY <1>1, <1>2
          <6>2. QED
            BY ONLY <3>2, <6>1 DEF Distinct
        <5>4. QED
          BY <5>1, <5>2, <5>3
      <4>3. QED
        BY SMT, <2>1, <4>1, <4>2 DEF IInv, Encoded
    <3>3. QED
      BY <3>1, <3>2
  <2>3. \A q \in Procs : OffList(q)' => next'[q] = Nil
    <3>1. ~OffList(curr[c])
      BY <1>1 DEF Walking, OffList
    <3>2. QED
      BY <1>6, <2>1, <3>1 DEF IInv, Encoded
  <2>4. QED
    BY <2>2, <2>3 DEF Encoded
<1>10. LockedOnList'
  BY <1>1, <1>6 DEF IInv, LockedOnList, TypeOK
<1>11. CpuInv(c)'
  BY <1>1 DEF CpuInv, TypeOK, Return, Goto
<1>12. ASSUME NEW d \in Cpus, d # c PROVE CpuInv(d)'
  <2>1. CpuInv(d)
    BY DEF IInv
  <2>2. /\ pc'[d] = pc[d] /\ lst'[d] = lst[d] /\ prev'[d] = prev[d] /\ curr'[d] = curr[d]
        /\ nxt'[d] = nxt[d] /\ canRelease'[d] = canRelease[d]
    BY <1>1, <1>12 DEF TypeOK, Return, Goto
  <2>3. \A m \in Lists : listLock[m] = d => listLock'[m] = d /\ first'[m] = first[m]
    BY <1>1, <1>12 DEF TypeOK, ReleaseListIf, Walking
  <2>4. \A q \in Procs : stateLock[q] = d => stateLock'[q] = d /\ next'[q] = next[q]
    BY <1>1, <1>12, CpuAssumption DEF TypeOK
  <2>5. pc[d] = "addEmpty" => stateLock'[arg[d]] = NoCpu /\ lst[d] # l
    <3> SUFFICES ASSUME pc[d] = "addEmpty"
                 PROVE  stateLock'[arg[d]] = NoCpu /\ lst[d] # l
      OBVIOUS
    <3>1. content[lst[d]] = <<arg[d]>> /\ stateLock[arg[d]] = NoCpu /\ arg[d] \in Procs
      BY <2>1 DEF CpuInv
    <3>2. stateLock'[arg[d]] = NoCpu
      BY <1>1, <3>1 DEF TypeOK
    <3>3. ASSUME lst[d] = l PROVE FALSE
      <4>1. n = 1 /\ content[l][1] = arg[d]
        <5>1. content[l] = <<arg[d]>>
          BY <3>1, <3>3
        <5>2. QED
          BY ONLY <5>1
      <4>2. arg[d] = curr[c]
        BY <1>3, <4>1
      <4>3. QED
        BY <1>1, <3>1, <4>2, CpuAssumption
    <3>4. QED
      BY <3>2, <3>3
  <2>6. QED
    BY <1>1, <1>12, <2>2, <2>3, <2>4, <2>5, OtherCpuAppend
<1>13. QED
  BY <1>4, <1>8, <1>9, <1>10, <1>11, <1>12 DEF IInv

\* The pointer writes that take p, the k-th element of l, out of the chain.
Bypass(l, k, p) ==
  /\ \A m \in Lists : first'[m] = IF m = l /\ k = 1 THEN next[p] ELSE first[m]
  /\ \A q \in Procs : next'[q] = IF q = p THEN Nil
                                 ELSE IF k > 1 /\ q = content[l][k - 1] THEN next[p]
                                 ELSE next[q]

-----------------------------------------------------------------------------
(* remove_proc_from_list(), and the theorems                               *)

\* What another CPU d knows survives the removal by c of the k-th element of l,
\* whose stateLock is free.
LEMMA OtherCpuRemove ==
  ASSUME IInv, NEW c \in Cpus, NEW d \in Cpus, c # d,
         NEW l \in Lists, NEW k \in 1 .. Len(content[l]), arg[c] = content[l][k],
         procLock[arg[c]] = c, stateLock[arg[c]] = NoCpu,
         content' = [content EXCEPT ![l] = Without(@, arg[c])],
         UNCHANGED procLock,
         pc'[d] = pc[d], lst'[d] = lst[d], arg'[d] = arg[d], prev'[d] = prev[d],
         curr'[d] = curr[d], nxt'[d] = nxt[d], canRelease'[d] = canRelease[d],
         \A m \in Lists : listLock[m] = d => listLock'[m] = d /\ first'[m] = first[m],
         \A p \in Procs : stateLock[p] = d => stateLock'[p] = d /\ next'[p] = next[p],
         pc[d] = "addEmpty" => stateLock'[arg[d]] = NoCpu /\ lst[d] # l
  PROVE  CpuInv(d)'
<1>1. CpuInv(d) /\ lst[d] \in Lists /\ prev[d] \in Procs \cup {Nil} /\ TypeOK /\ Distinct
  BY DEF IInv, TypeOK
<1>2. \A q \in Procs, m \in Lists :
         OnList(q, m)' <=> (OnList(q, m) /\ q # arg[c])
  <2>1. OnList(arg[c], l) /\ arg[c] \in Procs
    <3>1. content[l] \in Seq(Procs)
      BY <1>1 DEF TypeOK
    <3>2. arg[c] \in Procs
      BY <3>1, SeqElement
    <3>3. QED
      BY <3>2 DEF OnList
  <2>2. QED
    BY <1>1, <2>1, RemoveMembers
<1>3. /\ \A m \in Lists \ {l} : content'[m] = content[m]
      /\ Len(content'[l]) = Len(content[l]) - 1
      /\ \A i \in 1 .. Len(content[l]) - 1 :
           content'[l][i] = IF i < k THEN content[l][i] ELSE content[l][i + 1]
  BY <1>1, RemoveEffect
<1>4. pc[d] # "idle" => arg[d] \in Procs /\ arg[d] # arg[c]
  BY <1>1 DEF CpuInv
<1>5. pc[d] # "idle" => (OffList(arg[d]) => OffList(arg[d])')
  BY <1>2, <1>4 DEF OffList
<1>6. pc[d] # "idle" => (OnList(arg[d], lst[d]) => OnList(arg[d], lst[d])')
  BY <1>1, <1>2, <1>4
<1>7. Walking(d) => Walking(d)' /\ curr[d] # arg[c]
  <2>1. NoCpu \notin Cpus
    BY CpuAssumption
  <2>2. Walking(d) => curr[d] # arg[c]
    BY <2>1 DEF Walking
  <2>3. ASSUME Walking(d) PROVE Walking(d)'
    <3>1. curr[d] \in Procs /\ stateLock[curr[d]] = d /\ OnList(curr[d], lst[d]) /\ nxt[d] = next[curr[d]]
      BY <2>3 DEF Walking
    <3>2. stateLock'[curr[d]] = d /\ next'[curr[d]] = next[curr[d]]
      BY <3>1
    <3>3. OnList(curr[d], lst[d])'
      <4>1. OnList(curr[d], lst[d])' <=> (OnList(curr[d], lst[d]) /\ curr[d] # arg[c])
        BY <1>1, <1>2, <3>1
      <4>2. QED
        BY <2>2, <2>3, <3>1, <4>1
    <3>4. canRelease'[d] => listLock'[lst'[d]] = d
      BY <1>1, <2>3 DEF Walking
    <3>5. QED
      BY <3>1, <3>2, <3>3, <3>4 DEF Walking
  <2>4. QED
    BY <2>2, <2>3
<1>8. pc[d] = "remWalk" => TargetAhead(d)'
  <2> SUFFICES ASSUME pc[d] = "remWalk" PROVE TargetAhead(d)'
    OBVIOUS
  <2>1. PICK i, j \in 1 .. Len(content[lst[d]]) :
          i < j /\ content[lst[d]][i] = curr[d] /\ content[lst[d]][j] = arg[d]
    BY <1>1 DEF CpuInv, TargetAhead
  <2>2. CASE lst[d] # l
    <3>1. content'[lst[d]] = content[lst[d]]
      BY <1>1, <1>3, <2>2
    <3>2. content'[lst'[d]] = content[lst[d]] /\ curr'[d] = curr[d] /\ arg'[d] = arg[d]
      BY <3>1
    <3>3. /\ i \in 1 .. Len(content'[lst'[d]]) /\ content'[lst'[d]][i] = curr'[d]
          /\ j \in 1 .. Len(content'[lst'[d]]) /\ content'[lst'[d]][j] = arg'[d]
      BY <2>1, <3>2
    <3>4. QED
      BY <2>1, <3>3 DEF TargetAhead
  <2>3. CASE lst[d] = l
    <3> DEFINE n == Len(content[l])
               at(x) == IF x < k THEN x ELSE x - 1
    <3>1. n \in Nat /\ k \in 1 .. n
      <4>1. content[l] \in Seq(Procs)
        BY <1>1 DEF TypeOK
      <4>2. n \in Nat
        BY ONLY SMT, <4>1
      <4>3. QED
        BY <4>2
    <3>2. i # k /\ j # k
      BY <1>1, <1>4, <1>7, <2>1, <2>3 DEF CpuInv
    <3>3. \A x \in 1 .. n : x # k => /\ at(x) \in 1 .. n - 1
                                     /\ content'[l][at(x)] = content[l][x]
      <4> TAKE x \in 1 .. n
      <4>1. CASE x < k
        <5>1. at(x) = x /\ x \in 1 .. n - 1
          BY SMT, <3>1, <4>1
        <5>2. QED
          BY <1>3, <4>1, <5>1
      <4>2. CASE x > k
        <5>1. at(x) = x - 1 /\ x - 1 \in 1 .. n - 1 /\ ~(x - 1 < k) /\ (x - 1) + 1 = x
          BY SMT, <3>1, <4>2
        <5>2. content'[l][x - 1] = content[l][(x - 1) + 1]
          BY <1>3, <5>1
        <5>3. QED
          BY <5>1, <5>2
      <4>3. x < k \/ x > k \/ x = k
        BY SMT, <3>1
      <4>4. QED
        BY <4>1, <4>2, <4>3
    <3>4. at(i) < at(j)
      BY SMT, <2>1, <2>3, <3>1, <3>2
    <3> HIDE DEF at
    <3>5. /\ at(i) \in 1 .. n - 1 /\ at(j) \in 1 .. n - 1
          /\ content'[l][at(i)] = curr[d] /\ content'[l][at(j)] = arg[d]
      BY <2>1, <2>3, <3>2, <3>3
    <3>6. /\ lst'[d] = l /\ curr'[d] = curr[d] /\ arg'[d] = arg[d]
          /\ Len(content'[l]) = n - 1
      BY <1>3, <2>3
    <3> HIDE DEF n
    <3>7. /\ at(i) \in 1 .. Len(content'[lst'[d]]) /\ content'[lst'[d]][at(i)] = curr'[d]
          /\ at(j) \in 1 .. Len(content'[lst'[d]]) /\ content'[lst'[d]][at(j)] = arg'[d]
      BY <3>5, <3>6
    <3>8. QED
      BY <3>4, <3>7 DEF TargetAhead
  <2>4. QED
    BY <2>2, <2>3
<1>9. pc[d] = "addEmpty" => content'[lst[d]] = <<arg[d]>>
  BY <1>1, <1>3 DEF CpuInv
<1>10. QED
  BY <1>1, <1>5, <1>6, <1>7, <1>8, <1>9 DEF CpuInv

\* Bypassing the k-th element of l in the pointers removes it from the list.
LEMMA RemoveEncoded ==
  ASSUME IInv, NEW l \in Lists, NEW k \in 1 .. Len(content[l]),
         NEW p, p = content[l][k],
         content' = [content EXCEPT ![l] = Without(@, p)],
         Bypass(l, k, p)
  PROVE  Encoded'
<1> DEFINE s == content[l]
           t == content'[l]
           n == Len(content[l])
<1>1. /\ TypeOK /\ Distinct /\ n \in Nat /\ k \in 1 .. n /\ s[k] = p
      /\ \A i \in 1 .. n : s[i] \in Procs
  BY SMT, SeqElement DEF IInv, TypeOK
<1>2. /\ \A m \in Lists \ {l} : content'[m] = content[m]
      /\ t \in Seq(Procs) /\ Len(t) = n - 1
      /\ \A i \in 1 .. n - 1 : t[i] = IF i < k THEN s[i] ELSE s[i + 1]
  BY <1>1, RemoveEffect
<1>3. \A i, j \in 1 .. n : s[i] = s[j] => i = j
  BY <1>1 DEF Distinct
<1>4. \A i \in 1 .. n : next[s[i]] = IF i = n THEN Nil ELSE s[i + 1]
  BY DEF IInv, Encoded
<1>5. first[l] = s[1]
  BY <1>1, HeadOfList DEF IInv, Encoded
<1>6. ASSUME NEW m \in Lists, m # l
      PROVE  /\ first'[m] = IF content'[m] = << >> THEN Nil ELSE content'[m][1]
             /\ \A i \in 1 .. Len(content'[m]) :
                  next'[content'[m][i]] = IF i = Len(content'[m]) THEN Nil ELSE content'[m][i + 1]
  <2>1. content'[m] = content[m] /\ first'[m] = first[m]
    BY <1>2, <1>6 DEF Bypass
  <2>2. ASSUME NEW i \in 1 .. Len(content[m])
        PROVE  next'[content[m][i]] = next[content[m][i]]
    <3>1. content[m][i] \in Procs
      BY <1>1, SeqElement DEF TypeOK
    <3>2. \A j \in 1 .. n : content[m][i] # s[j]
      BY <1>1, <1>6 DEF Distinct
    <3>3. k > 1 => k - 1 \in 1 .. n
      BY SMT, <1>1
    <3>4. QED
      BY <1>1, <3>1, <3>2, <3>3 DEF Bypass
  <2>3. first[m] = IF content[m] = << >> THEN Nil ELSE content[m][1]
    BY DEF IInv, Encoded
  <2>4. \A i \in 1 .. Len(content[m]) :
           next[content[m][i]] = IF i = Len(content[m]) THEN Nil ELSE content[m][i + 1]
    BY DEF IInv, Encoded
  <2>5. QED
    BY SMT, <2>1, <2>2, <2>3, <2>4
<1>7. t = << >> <=> n = 1
  <2>1. Len(<< >>) = 0
    BY SeqEmpty
  <2>2. t # << >> => Len(t) # 0
    BY <1>2, SeqEmpty
  <2> HIDE DEF t, n
  <2>3. QED
    BY SMT, <1>1, <1>2, <2>1, <2>2
<1>8. first'[l] = IF t = << >> THEN Nil ELSE t[1]
  <2>1. CASE k = 1
    <3>0. first'[l] = next[p]
      BY <2>1 DEF Bypass
    <3> HIDE DEF s, t, n
    <3>1. first'[l] = IF n = 1 THEN Nil ELSE s[1 + 1]
      BY <1>1, <1>4, <2>1, <3>0
    <3>2. n # 1 => t[1] = s[1 + 1]
      BY SMT, <1>1, <1>2, <2>1
    <3>3. QED
      BY <1>7, <3>1, <3>2
  <2>2. CASE k # 1
    <3>1. n # 1 /\ 1 \in 1 .. n - 1 /\ 1 < k
      BY SMT, <1>1, <2>2
    <3>2. t[1] = s[1]
      BY <1>2, <3>1
    <3>3. QED
      BY <1>5, <1>7, <2>2, <3>1, <3>2 DEF Bypass
  <2>3. QED
    BY <2>1, <2>2
<1> HIDE DEF s, t, n
<1>9. ASSUME NEW i \in 1 .. n - 1
      PROVE  next'[t[i]] = IF i = n - 1 THEN Nil ELSE t[i + 1]
  <2>1. CASE i < k - 1
    <3>1. i \in 1 .. n /\ i + 1 \in 1 .. n - 1 /\ i # n /\ i # n - 1 /\ i < k /\ i + 1 < k
          /\ i # k /\ i # k - 1 /\ (k > 1 => k - 1 \in 1 .. n)
      BY SMT, <1>1, <2>1
    <3>2. t[i] = s[i] /\ t[i + 1] = s[i + 1] /\ s[i] \in Procs
      BY <1>1, <1>2, <3>1
    <3>3. s[i] # p /\ (k > 1 => s[i] # s[k - 1])
      BY <1>1, <1>3, <3>1
    <3>4. next'[s[i]] = next[s[i]]
      BY <3>2, <3>3 DEF s, Bypass
    <3>5. next[s[i]] = s[i + 1]
      BY <1>4, <3>1
    <3>6. QED
      BY <3>1, <3>2, <3>4, <3>5
  <2>2. CASE i = k - 1
    <3>1. i \in 1 .. n /\ i < k /\ k > 1 /\ i # k /\ (k = n <=> i = n - 1)
          /\ (k # n => k \in 1 .. n - 1) /\ i + 1 = k
      BY SMT, <1>1, <2>2
    <3>2. t[i] = s[i] /\ s[i] # p /\ s[i] \in Procs
      BY <1>1, <1>2, <1>3, <3>1
    <3>3. next'[s[i]] = next[p]
      BY <2>2, <3>1, <3>2 DEF s, Bypass
    <3>4. next[p] = IF k = n THEN Nil ELSE s[k + 1]
      BY <1>1, <1>4
    <3>5. k # n => t[k] = s[k + 1]
      BY SMT, <1>1, <1>2, <3>1
    <3>6. QED
      BY <3>1, <3>2, <3>3, <3>4, <3>5
  <2>3. CASE i >= k
    <3>1. i + 1 \in 1 .. n /\ ~(i < k) /\ i + 1 # k /\ i + 1 # k - 1
          /\ (k > 1 => k - 1 \in 1 .. n) /\ (i = n - 1 <=> i + 1 = n)
          /\ (i # n - 1 => i + 1 \in 1 .. n - 1 /\ ~(i + 1 < k))
      BY SMT, <1>1, <2>3
    <3>2. t[i] = s[i + 1] /\ s[i + 1] \in Procs
      BY <1>1, <1>2, <3>1
    <3>3. s[i + 1] # p /\ (k > 1 => s[i + 1] # s[k - 1])
      BY <1>1, <1>3, <3>1
    <3>4. next'[s[i + 1]] = next[s[i + 1]]
      BY <3>2, <3>3 DEF s, Bypass
    <3>5. next[s[i + 1]] = IF i + 1 = n THEN Nil ELSE s[(i + 1) + 1]
      BY <1>4, <3>1
    <3>6. i # n - 1 => t[i + 1] = s[(i + 1) + 1]
      BY <1>2, <3>1
    <3>7. QED
      BY <3>1, <3>2, <3>4, <3>5, <3>6
  <2>4. QED
    BY SMT, <1>1, <2>1, <2>2, <2>3
<1>10. \A q \in Procs : OffList(q)' => next'[q] = Nil
  <2>1. OnList(p, l) /\ p \in Procs
    BY <1>1 DEF OnList, s, n
  <2>2. \A q \in Procs, m \in Lists : OnList(q, m)' <=> (OnList(q, m) /\ q # p)
    BY <1>1, <2>1, RemoveMembers
  <2>3. k > 1 => OnList(content[l][k - 1], l) /\ content[l][k - 1] # p
                 /\ content[l][k - 1] \in Procs
    BY SMT, <1>1, <1>3 DEF OnList, s, n
  <2>4. \A q \in Procs : OffList(q)' => (q = p \/ OffList(q))
    BY <2>2 DEF OffList
  <2>5. ASSUME NEW q \in Procs, OffList(q)' PROVE next'[q] = Nil
    <3>1. k > 1 => q # content[l][k - 1]
      BY <2>2, <2>3, <2>5 DEF OffList
    <3>2. q # p => next[q] = Nil
      BY <2>4, <2>5 DEF IInv, Encoded
    <3>3. QED
      BY <3>1, <3>2 DEF Bypass
  <2>6. QED
    BY <2>5
<1>11. ASSUME NEW m \in Lists
       PROVE  /\ first'[m] = IF content'[m] = << >> THEN Nil ELSE content'[m][1]
              /\ \A i \in 1 .. Len(content'[m]) :
                   next'[content'[m][i]] = IF i = Len(content'[m]) THEN Nil ELSE content'[m][i + 1]
  <2>1. CASE m = l
    <3>1. content'[l] = t /\ Len(t) = n - 1
      BY <1>2 DEF t
    <3>2. \A i \in 1 .. Len(t) : next'[t[i]] = IF i = Len(t) THEN Nil ELSE t[i + 1]
      BY SMT, <1>9, <3>1
    <3>3. content'[m] = t /\ first'[m] = first'[l]
      BY <2>1, <3>1
    <3>4. QED
      BY SMT, <1>8, <3>2, <3>3
  <2>2. QED
    BY <1>6, <2>1
<1>12. QED
  BY <1>10, <1>11 DEF Encoded

\* Taking the first element off, or unlinking the element behind curr.
LEMMA RemoveStep ==
  ASSUME IInv, NEW c \in Cpus, RemoveFirstElement(c) \/ RemoveUnlink(c)
  PROVE  IInv'
<1> DEFINE l == lst[c]
           p == arg[c]
<1>1. /\ TypeOK /\ Distinct /\ CpuInv(c) /\ l \in Lists
      /\ p \in Procs /\ procLock[p] = c /\ stateLock[p] = NoCpu
      /\ content' = [content EXCEPT ![l] = Without(@, p)]
      /\ Return(c) /\ UNCHANGED <<procLock, arg>>
      /\ RemoveUnlink(c) => Walking(c) /\ TargetAhead(c)
      /\ RemoveFirstElement(c) => listLock[l] = c /\ first[l] = p
  BY DEF IInv, TypeOK, RemoveFirstElement, RemoveUnlink, CpuInv, Return
<1>2. PICK k \in 1 .. Len(content[l]) :
        /\ content[l][k] = p
        /\ RemoveFirstElement(c) => k = 1
        /\ RemoveUnlink(c) => k > 1 /\ content[l][k - 1] = curr[c]
  <2>1. CASE RemoveFirstElement(c)
    <3>1. first[l] # Nil
      BY SMT, <1>1, <2>1 DEF Procs, Nil
    <3>2. 1 \in 1 .. Len(content[l]) /\ content[l][1] = p
      BY <1>1, <2>1, <3>1, HeadOfList
    <3>3. ~RemoveUnlink(c)
      BY <2>1 DEF RemoveFirstElement, RemoveUnlink
    <3>4. QED
      BY <3>2, <3>3
  <2>2. CASE RemoveUnlink(c)
    <3>1. PICK i \in 1 .. Len(content[l]) : content[l][i] = curr[c]
      BY <1>1, <2>2 DEF Walking, OnList
    <3>2. next[curr[c]] = p /\ p # Nil
      BY SMT, <1>1, <2>2 DEF RemoveUnlink, Walking, Procs, Nil
    <3>3. i + 1 \in 1 .. Len(content[l]) /\ content[l][i + 1] = p
      BY <1>1, <3>1, <3>2, Successor
    <3>4. i + 1 > 1 /\ (i + 1) - 1 = i
      BY SMT, <3>1
    <3>5. ~RemoveFirstElement(c)
      BY <2>2 DEF RemoveFirstElement, RemoveUnlink
    <3>6. QED
      BY <3>1, <3>3, <3>4, <3>5
  <2>3. QED
    BY <2>1, <2>2
<1>3. /\ content' \in [Lists -> Seq(Procs)] /\ Distinct'
  BY <1>1, <1>2, RemoveEffect
<1>4. OnList(p, l)
  BY <1>2 DEF OnList
<1>5. \A q \in Procs, m \in Lists : OnList(q, m)' <=> (OnList(q, m) /\ q # p)
  BY <1>1, <1>4, RemoveMembers
<1>6. \A q \in Procs : OffList(q)' <=> (OffList(q) \/ q = p)
  BY <1>5, <1>1 DEF OffList
<1>7. RemoveUnlink(c) => curr[c] \in Procs /\ curr[c] # p /\ stateLock[curr[c]] = c
  BY <1>1, CpuAssumption DEF Walking
<1>8. /\ \A m \in Lists : first'[m] = IF m = l /\ k = 1 THEN next[p] ELSE first[m]
      /\ \A q \in Procs : next'[q] = IF q = p THEN Nil
                                     ELSE IF k > 1 /\ q = content[l][k - 1] THEN next[p]
                                     ELSE next[q]
  <2>1. CASE RemoveFirstElement(c)
    <3>1. first' = [first EXCEPT ![l] = next[p]] /\ next' = [next EXCEPT ![p] = Nil] /\ k = 1
      BY <1>1, <1>2, <2>1 DEF RemoveFirstElement
    <3>2. first \in [Lists -> Procs \cup {Nil}] /\ next \in [Procs -> Procs \cup {Nil}]
      BY <1>1 DEF TypeOK
    <3>3. ~(1 > 1)
      BY ONLY SMT
    <3>4. QED
      BY <3>1, <3>2, <3>3
  <2>2. CASE RemoveUnlink(c)
    <3>1. next' = [next EXCEPT ![curr[c]] = next[p], ![p] = Nil] /\ first' = first
      BY <2>2 DEF RemoveUnlink
    <3>2. k > 1 /\ content[l][k - 1] = curr[c]
      BY <1>2, <2>2
    <3>3. next \in [Procs -> Procs \cup {Nil}]
      BY <1>1 DEF TypeOK
    <3>4. ~(1 > 1)
      BY ONLY SMT
    <3>5. QED
      BY <1>1, <1>7, <2>2, <3>1, <3>2, <3>3, <3>4
  <2>3. QED
    BY <2>1, <2>2
<1>9. Encoded'
  <2> HIDE DEF l, p
  <2>1. l \in Lists /\ k \in 1 .. Len(content[l]) /\ p = content[l][k]
    BY <1>1, <1>2
  <2>2. content' = [content EXCEPT ![l] = Without(@, p)]
    BY <1>1
  <2>3. Bypass(l, k, p)
    BY <1>8 DEF Bypass
  <2>4. QED
    BY <2>1, <2>2, <2>3, RemoveEncoded
<1>10. /\ listLock' \in [Lists -> Cpus \cup {NoCpu}]
       /\ \A m \in Lists : listLock[m] # c => listLock'[m] = listLock[m]
  <2>1. listLock \in [Lists -> Cpus \cup {NoCpu}]
    BY <1>1 DEF TypeOK
  <2>2. CASE RemoveFirstElement(c)
    <3>1. listLock' = [listLock EXCEPT ![l] = NoCpu] /\ listLock[l] = c
      BY <1>1, <2>2 DEF RemoveFirstElement
    <3>2. QED
      BY <1>1, <2>1, <3>1
  <2>3. CASE RemoveUnlink(c)
    <3>1. ReleaseListIf(c, canRelease[c]) /\ (canRelease[c] => listLock[l] = c)
      BY <1>1, <2>3 DEF RemoveUnlink, Walking
    <3>2. CASE canRelease[c]
      <4>1. listLock' = [listLock EXCEPT ![l] = NoCpu] /\ listLock[l] = c
        BY <3>1, <3>2 DEF ReleaseListIf
      <4>2. QED
        BY <1>1, <2>1, <4>1
    <3>3. CASE ~canRelease[c]
      BY <2>1, <3>1, <3>3 DEF ReleaseListIf
    <3>4. QED
      BY <3>2, <3>3
  <2>4. QED
    BY <2>2, <2>3
<1>11. /\ stateLock' \in [Procs -> Cpus \cup {NoCpu}]
       /\ \A q \in Procs : stateLock'[q] \in {stateLock[q], NoCpu}
       /\ \A q \in Procs : stateLock[q] # c => stateLock'[q] = stateLock[q]
  <2>1. CASE RemoveFirstElement(c)
    BY <1>1, <2>1 DEF RemoveFirstElement, TypeOK
  <2>2. CASE RemoveUnlink(c)
    <3>1. prev[c] # Nil => stateLock[prev[c]] = c
      BY <1>1, <2>2 DEF RemoveUnlink, CpuInv
    <3>2. Nil \notin Procs
      BY SMT DEF Nil, Procs
    <3>3. stateLock' = [q \in Procs |-> IF q \in {curr[c], prev[c]} THEN NoCpu ELSE stateLock[q]]
      BY <2>2 DEF RemoveUnlink
    <3>4. QED
      BY <1>1, <1>7, <2>2, <3>1, <3>2, <3>3 DEF TypeOK
  <2>3. QED
    BY <2>1, <2>2
<1>12. TypeOK'
  <2>1. first' \in [Lists -> Procs \cup {Nil}] /\ next' \in [Procs -> Procs \cup {Nil}]
    <3>1. next[p] \in Procs \cup {Nil}
      BY <1>1 DEF TypeOK
    <3>2. CASE RemoveFirstElement(c)
      BY <1>1, <3>1, <3>2 DEF RemoveFirstElement, TypeOK
    <3>3. CASE RemoveUnlink(c)
      BY <1>1, <1>7, <3>1, <3>3 DEF RemoveUnlink, TypeOK
    <3>4. QED
      BY <3>2, <3>3
  <2>2. QED
    BY <1>1, <1>3, <1>10, <1>11, <2>1, ListAssumption DEF TypeOK, Return, Goto, PCs
<1>13. LockedOnList'
  BY <1>1, <1>6, <1>11 DEF IInv, LockedOnList
<1>14. CpuInv(c)'
  BY <1>1 DEF CpuInv, TypeOK, Return, Goto, RemoveFirstElement, RemoveUnlink
<1>15. ASSUME NEW d \in Cpus, d # c PROVE CpuInv(d)'
  <2>1. CpuInv(d) /\ lst[d] \in Lists
    BY <1>1 DEF IInv, TypeOK
  <2>2. /\ pc'[d] = pc[d] /\ lst'[d] = lst[d] /\ prev'[d] = prev[d] /\ curr'[d] = curr[d]
        /\ nxt'[d] = nxt[d] /\ canRelease'[d] = canRelease[d]
    BY <1>1, <1>15 DEF TypeOK, Return, Goto
  <2>3. \A m \in Lists : listLock[m] = d => listLock'[m] = d /\ first'[m] = first[m]
    <3>1. ~(1 > 1)
      BY ONLY SMT
    <3>2. k = 1 => listLock[l] = c
      BY <1>1, <1>2, <3>1
    <3>3. QED
      BY <1>8, <1>10, <1>15, <3>2
  <2>4. \A q \in Procs : stateLock[q] = d => stateLock'[q] = d /\ next'[q] = next[q]
    <3>1. stateLock[p] # d
      BY <1>1, CpuAssumption
    <3>2. k > 1 => stateLock[content[l][k - 1]] # d
      BY SMT, <1>2, <1>7, <1>15
    <3>3. QED
      BY <1>8, <1>11, <1>15, <3>1, <3>2
  <2>5. pc[d] = "addEmpty" => stateLock'[arg[d]] = NoCpu /\ lst[d] # l
    <3> SUFFICES ASSUME pc[d] = "addEmpty"
                 PROVE  stateLock'[arg[d]] = NoCpu /\ lst[d] # l
      OBVIOUS
    <3>1. /\ content[lst[d]] = <<arg[d]>> /\ stateLock[arg[d]] = NoCpu /\ arg[d] \in Procs
          /\ procLock[arg[d]] = d
      BY <2>1 DEF CpuInv
    <3>2. stateLock'[arg[d]] = NoCpu
      BY <1>11, <3>1
    <3>3. ASSUME lst[d] = l PROVE FALSE
      <4>1. Len(content[l]) = 1 /\ content[l][1] = arg[d]
        <5>1. content[l] = <<arg[d]>>
          BY <3>1, <3>3
        <5>2. QED
          BY ONLY <5>1
      <4>2. p = arg[d]
        BY SMT, <1>2, <4>1
      <4>3. QED
        BY <1>1, <1>15, <3>1, <4>2
    <3>4. QED
      BY <3>2, <3>3
  <2>6. QED
    BY <1>1, <1>2, <1>15, <2>2, <2>3, <2>4, <2>5, OtherCpuRemove
<1>16. QED
  BY <1>3, <1>9, <1>12, <1>13, <1>14, <1>15 DEF IInv


\* Every step of every CPU preserves the inductive invariant.
LEMMA NextIInv == IInv /\ [ListNext]_vars => IInv'
<1> SUFFICES ASSUME IInv, [ListNext]_vars PROVE IInv'
  OBVIOUS
<1>1. CASE UNCHANGED vars
  <2>1. UNCHANGED <<content, first, next, listLock, stateLock, procLock, pc,
                    lst, arg, prev, curr, nxt, canRelease>>
    BY <1>1 DEF vars, locks, locals
  <2>2. \A p, l : (OnList(p, l)' <=> OnList(p, l)) /\ (OffList(p)' <=> OffList(p))
    BY <2>1 DEF OnList, OffList
  <2>3. TypeOK' /\ Distinct' /\ Encoded' /\ LockedOnList'
    <3>1. TypeOK'
      BY <2>1 DEF IInv, TypeOK
    <3>2. QED
      BY <2>1, <3>1, SameLists
  <2>4. ASSUME NEW c \in Cpus PROVE CpuInv(c)'
    <3>1. CpuInv(c)
      BY DEF IInv
    <3>2. QED
      BY <2>1, <2>2, <3>1 DEF CpuInv, Walking, TargetAhead
  <2>5. QED
    BY <2>3, <2>4 DEF IInv
<1>2. ASSUME NEW c \in Cpus, CpuStep(c) PROVE IInv'
  <2>1. CASE \E p \in Procs : AcquireProc(c, p)
    BY <2>1, ProcLockStep
  <2>2. CASE ReleaseProc(c)
    BY <2>2, ProcLockStep
  <2>3. CASE \E l \in Lists : AddEnter(c, l)
    BY <2>3, AddEnterStep
  <2>4. CASE AddEmpty(c)
    BY <2>4, AddEmptyStep
  <2>5. CASE AddHead(c) \/ RemoveHead(c)
    BY <2>5, HeadStep
  <2>6. CASE AddWalk(c) \/ RemoveWalk(c)
    BY <2>6, WalkStep
  <2>7. CASE AddLink(c)
    BY <2>7, AddLinkStep
  <2>8. CASE \E l \in Lists : RemoveEnter(c, l)
    BY <2>8, RemoveEnterStep
  <2>9. CASE RemoveFirstElement(c) \/ RemoveUnlink(c)
    BY <2>9, RemoveStep
  <2>10. QED
    BY <1>2, <2>1, <2>2, <2>3, <2>4, <2>5, <2>6, <2>7, <2>8, <2>9 DEF CpuStep
<1>3. QED
  BY <1>1, <1>2 DEF ListNext

\* The inductive invariant holds in every reachable state.
THEOREM Invariance == ListSpec => []IInv
BY InitIInv, NextIInv, PTL DEF ListSpec

\* Every variable of the list code keeps its type.
THEOREM TypeCorrect == ListSpec => []TypeOK
<1>1. IInv => TypeOK
  BY DEF IInv
<1>2. QED
  BY <1>1, Invariance, PTL

\* For any number of CPUs, processes and lists, the pointers that
\* add_proc_to_list() and remove_proc_from_list() maintain always spell out
\* the processes that are on each list, in order.
THEOREM PointersEncodeLists == ListSpec => []Encoded
<1>1. IInv => Encoded
  BY DEF IInv
<1>2. QED
  BY <1>1, Invariance, PTL

\* remove_proc_from_list() neither panics nor walks past the end of a list,
\* provided its caller names the list the process is on.
THEOREM RemoveIsSafe == ListSpec => []RemoveFindsTarget
<1>1. IInv => RemoveFindsTarget
  <2> SUFFICES ASSUME IInv, NEW c \in Cpus
               PROVE  pc[c] # "panic" /\ (pc[c] = "remWalk" => nxt[c] # Nil)
    BY DEF RemoveFindsTarget
  <2>1. CpuInv(c) /\ lst[c] \in Lists /\ Distinct /\ TypeOK
    BY DEF IInv, TypeOK
  <2>2. ASSUME pc[c] = "remWalk" PROVE nxt[c] # Nil
    <3>1. PICK i, j \in 1 .. Len(content[lst[c]]) :
            i < j /\ content[lst[c]][i] = curr[c]
      BY <2>1, <2>2 DEF CpuInv, TargetAhead
    <3>2. nxt[c] = next[content[lst[c]][i]]
      BY <2>1, <2>2, <3>1 DEF CpuInv, Walking
    <3>3. Len(content[lst[c]]) \in Nat /\ i # Len(content[lst[c]])
      BY SMT, <2>1, <3>1 DEF TypeOK
    <3>4. QED
      BY <2>1, <3>1, <3>2, <3>3, Successor
  <2>3. QED
    BY <2>1, <2>2 DEF CpuInv
<1>2. QED
  BY <1>1, Invariance, PTL

\* Each call of add_proc_to_list() and remove_proc_from_list() takes effect
\* in one step, as ProcListSpec says, and no other step moves a process.
THEOREM Linearizable == ListSpec => Spec
<1>1. ListInit => Init
  BY DEF ListInit
<1>2. IInv /\ [ListNext]_vars => [Next]_content
  <2> SUFFICES ASSUME IInv, [ListNext]_vars PROVE Next \/ content' = content
    BY DEF vars
  <2>1. CASE UNCHANGED vars
    BY <2>1 DEF vars
  <2>2. ASSUME NEW c \in Cpus, CpuStep(c) PROVE Next \/ content' = content
    <3>1. CpuInv(c) /\ lst[c] \in Lists /\ TypeOK
      BY DEF IInv, TypeOK
    <3>2. ASSUME NEW l \in Lists, AddEnter(c, l) PROVE Next \/ content' = content
      <4>1. pc[c] = "held" /\ arg[c] \in Procs
        BY <3>1, <3>2 DEF AddEnter, CpuInv
      <4>2. QED
        BY <3>2, <4>1 DEF AddEnter, Next, AddProc
    <3>3. CASE AddLink(c)
      <4>1. arg[c] \in Procs /\ OffList(arg[c])
        BY <3>1, <3>3 DEF AddLink, CpuInv
      <4>2. QED
        BY <3>1, <3>3, <4>1 DEF AddLink, Next, AddProc
    <3>4. CASE RemoveFirstElement(c)
      <4>1. arg[c] \in Procs /\ first[lst[c]] = arg[c]
        BY <3>1, <3>4 DEF RemoveFirstElement, CpuInv
      <4>2. OnList(arg[c], lst[c])
        BY SMT, <3>1, <4>1, HeadOfList DEF Procs, Nil
      <4>3. QED
        BY <3>1, <3>4, <4>1, <4>2 DEF RemoveFirstElement, Next, RemoveProc
    <3>5. CASE RemoveUnlink(c)
      <4>1. arg[c] \in Procs /\ OnList(arg[c], lst[c])
        BY <3>1, <3>5 DEF RemoveUnlink, CpuInv, TargetAhead, OnList
      <4>2. QED
        BY <3>1, <3>5, <4>1 DEF RemoveUnlink, Next, RemoveProc
    <3>6. QED
      BY <2>2, <3>2, <3>3, <3>4, <3>5
      DEF CpuStep, AcquireProc, ReleaseProc, AddEmpty, AddHead, AddWalk,
          RemoveEnter, RemoveHead, RemoveWalk
  <2>3. QED
    BY <2>1, <2>2 DEF ListNext
<1>3. QED
  BY <1>1, <1>2, Invariance, PTL DEF ListSpec, Spec
=============================================================================
