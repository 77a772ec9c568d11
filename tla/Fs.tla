--------------------------------- MODULE Fs ---------------------------------
(***************************************************************************)
(* Inodes, directories, block allocation and path names (kernel/fs.c), and *)
(* the system calls on them (kernel/sysfile.c, the inode part of file.c).  *)
(*                                                                         *)
(* A step is one section under itable.lock, or what a process does from    *)
(* ilock() to the iunlock() or to the next lock it has to wait for; what   *)
(* it reads and writes in between (bitmap, dinodes, directory entries) is  *)
(* under the inode's lock or one buffer's lock.  A directory's entries are *)
(* a set of <<name, inum>>, a file is its blocks.  A call runs inside a    *)
(* transaction of the log (module Log), so failures of the machine are not *)
(* modelled again here.                                                    *)
(***************************************************************************)
EXTENDS Integers, Sequences, FiniteSets

CONSTANTS Procs,        \* processes
          Nobody,       \* not a process
          Names,        \* names other than "." and ".."
          NInodes,      \* sb.ninodes: inodes 1 .. NInodes, 1 is ROOTINO
          NINODE,       \* entries of the inode table
          NBlocks,      \* data blocks 1 .. NBlocks
          NDIRECT, NINDIRECT,
          MaxWrite,     \* blocks of one write() call
          Programs      \* what the processes run: sets of <<process, call, path, new path>>

Inums == 1 .. NInodes
Slots == 1 .. NINODE
Blks == 1 .. NBlocks
MAXFILE == NDIRECT + NINDIRECT

ASSUME FsAssumption ==
  /\ NInodes \in Nat \ {0} /\ NINODE \in Nat /\ NBlocks \in Nat \ {0}
  /\ NDIRECT \in Nat \ {0} /\ NINDIRECT \in Nat /\ MaxWrite \in Nat
  /\ Nobody \notin Procs /\ IsFiniteSet(Procs)

VARIABLES
  dinode,       \* on disk: type, nlink, size and addrs of each inode
  entries,      \* the entries of each directory
  ind,          \* the content of each block that is an indirect block
  bitmap,       \* the blocks in use
  it,           \* itable: inum, ref, valid and the copied dinode
  lock,         \* the process that holds each slot's sleep lock
  cwd,          \* p->cwd
  file,         \* p's open file: its slot, or 0, and offset
  l,            \* where each process is, and its local variables
  panic,        \* the kernel has stopped
  stranded,     \* history: inodes that lost an entry with a freed directory
  prog          \* the program that runs

disk == <<dinode, entries, ind, bitmap, stranded>>
vars == <<disk, it, lock, cwd, file, l, panic, prog>>

NoAddrs == [n \in 0 .. NDIRECT |-> 0]
NoInd == [n \in 0 .. NINDIRECT - 1 |-> 0]
FreeInode == [type |-> "free", nlink |-> 0, size |-> 0, addrs |-> NoAddrs]
RootInode == [type |-> "dir", nlink |-> 1, size |-> 1, addrs |-> [NoAddrs EXCEPT ![0] = 1]]
Closed == [ip |-> 0, off |-> 0, type |-> "none", call |-> ""]

EmptySlot == [inum |-> 0, ref |-> 0, valid |-> FALSE, node |-> FreeInode]

Idle == [pc |-> "idle", call |-> "", rest |-> << >>, to |-> << >>, name |-> "",
         ip |-> 0, dp |-> 0, old |-> 0, puts |-> << >>, then |-> "idle", n |-> 0]

\* An empty file system, with every process in the root directory.
Init ==
  /\ dinode = [i \in Inums |-> IF i = 1 THEN RootInode ELSE FreeInode]
  /\ entries = [i \in Inums |-> IF i = 1 THEN {<<".", 1>>, <<"..", 1>>} ELSE {}]
  /\ ind = [b \in Blks |-> NoInd]
  /\ bitmap = {1}
  /\ it = [s \in Slots |-> IF s = 1 THEN [EmptySlot EXCEPT !.inum = 1, !.ref = Cardinality(Procs)]
                           ELSE EmptySlot]
  /\ lock = [s \in Slots |-> Nobody]
  /\ cwd = [p \in Procs |-> 1]
  /\ file = [p \in Procs |-> Closed]
  /\ l = [p \in Procs |-> Idle]
  /\ panic = FALSE /\ stranded = {} /\ prog \in Programs

First(S) == CHOOSE x \in S : \A y \in S : x <= y

-----------------------------------------------------------------------------
(* Blocks: balloc(), bmap(), itrunc()                                      *)

\* bmap(ip, bn) for the inode nd: the block it finds, or 0, and how many it
\* allocates, first the indirect block and then the one asked for.
Indirect(nd) == nd.addrs[NDIRECT]
BlockAt(nd, bn) == IF bn < NDIRECT THEN nd.addrs[bn]
                   ELSE IF Indirect(nd) = 0 THEN 0 ELSE ind[Indirect(nd)][bn - NDIRECT]
Missing(nd, bn) == IF BlockAt(nd, bn) # 0 THEN 0
                   ELSE IF bn >= NDIRECT /\ Indirect(nd) = 0 THEN 2 ELSE 1

OutOfBlocks(nd, bn) == Missing(nd, bn) > Cardinality(Blks \ bitmap)
Balloc1 == First(Blks \ bitmap)
Balloc2 == First((Blks \ bitmap) \ {Balloc1})
Allocated(nd, bn) == CASE Missing(nd, bn) = 0 -> {}
                       [] Missing(nd, bn) = 1 -> {Balloc1}
                       [] Missing(nd, bn) = 2 -> {Balloc1, Balloc2}

\* The inode and the indirect blocks after bmap(); balloc() zeroes what it gives.
BmapNode(nd, bn) ==
  IF bn < NDIRECT THEN [nd EXCEPT !.addrs[bn] = IF @ = 0 THEN Balloc1 ELSE @]
  ELSE [nd EXCEPT !.addrs[NDIRECT] = IF @ = 0 THEN Balloc1 ELSE @]
BmapInd(nd, bn) ==
  LET zeroed == [b \in Blks |-> IF b \in Allocated(nd, bn) THEN NoInd ELSE ind[b]]
  IN  IF bn < NDIRECT \/ Missing(nd, bn) = 0 THEN zeroed
      ELSE IF Missing(nd, bn) = 1 THEN [zeroed EXCEPT ![Indirect(nd)][bn - NDIRECT] = Balloc1]
      ELSE [zeroed EXCEPT ![Balloc1][bn - NDIRECT] = Balloc2]

\* The blocks of an inode, which itrunc() frees: direct, those listed in the
\* indirect block, and that block.
Listed(nd) == IF Indirect(nd) = 0 THEN {}
              ELSE {ind[Indirect(nd)][n] : n \in DOMAIN NoInd} \ {0}
BlocksOf(nd) == ({nd.addrs[n] : n \in 0 .. NDIRECT} \cup Listed(nd)) \ {0}

TruncatedFrees(nd) == BlocksOf(nd)

\* The indirect blocks after itrunc(); a free block's content is never looked at.
TruncatedInd(nd) == [b \in Blks |-> IF b \in TruncatedFrees(nd) THEN NoInd ELSE ind[b]]

Truncated(nd) == [nd EXCEPT !.addrs = NoAddrs, !.size = 0]

-----------------------------------------------------------------------------
(* The inode table: iget(), ilock(), iput()                                *)

\* Variant: the entry of an inode that is in the table already is not found
\* while it is not valid.
HoldingValid(i) == {s \in Slots : it[s].ref > 0 /\ it[s].inum = i /\ it[s].valid}

Holding(i) == {s \in Slots : it[s].ref > 0 /\ it[s].inum = i}

NoSlot(i) == Holding(i) = {} /\ \A s \in Slots : it[s].ref > 0

SlotFor(i) == IF Holding(i) # {} THEN First(Holding(i)) ELSE First({s \in Slots : it[s].ref = 0})

\* The table t after iget(i).
Iget(t, i) ==
  [t EXCEPT ![SlotFor(i)] =
     IF Holding(i) # {} THEN [@ EXCEPT !.ref = @ + 1]
     ELSE [EmptySlot EXCEPT !.inum = i, !.ref = 1]]

\* What ilock() of a slot finds in it, and the table with that loaded.
Node(s) == IF it[s].valid THEN it[s].node ELSE dinode[it[s].inum]
Loaded(s) == [it EXCEPT ![s].valid = TRUE, ![s].node = Node(s)]

\* A changed inode in memory and, by iupdate(), on disk.
Changed(t, s, nd) == [t EXCEPT ![s].valid = TRUE, ![s].node = nd]
Iupdate(s, nd) == dinode' = [dinode EXCEPT ![it[s].inum] = nd]

\* The slot p is about to lock.
Wants(p) ==
  CASE l[p].pc \in {"walk", "open", "createOld", "createNew", "link", "unlinkLock", "chdir"} -> l[p].ip
    [] l[p].pc \in {"create", "linkDir", "unlink"} -> l[p].dp
    [] l[p].pc = "linkBad" -> l[p].old
    [] l[p].pc \in {"read", "write"} -> file[p].ip
    [] OTHER -> 0

\* p is at label and gets the lock it wants, of an inode that has a type.
Locks(p, label) ==
  /\ ~panic /\ l[p].pc = label
  /\ lock[Wants(p)] = Nobody /\ Node(Wants(p)).type # "free"

\* panic("ilock: no type")
IlockNoType(p) ==
  /\ ~panic /\ Wants(p) # 0
  /\ lock[Wants(p)] = Nobody /\ Node(Wants(p)).type = "free"
  /\ panic' = TRUE
  /\ UNCHANGED <<disk, it, lock, cwd, file, l, prog>>

Panic == panic' = TRUE /\ UNCHANGED <<disk, it, lock, cwd, file, l, prog>>

\* The locals r of a process that iput()s the slots in s and goes on at label.
Put(r, s, label) == [r EXCEPT !.pc = "put", !.puts = s, !.then = label]
PutIp(p, label) == l' = [l EXCEPT ![p] = Put([@ EXCEPT !.ip = 0], <<l[p].ip>>, label)]
PutDp(p, label) == l' = [l EXCEPT ![p] = Put([@ EXCEPT !.dp = 0], <<l[p].dp>>, label)]

\* The iput()s of p that remain after the first one.
NextPut(p) == IF Len(l[p].puts) > 1 THEN [l[p] EXCEPT !.pc = "put", !.puts = Tail(@)]
              ELSE IF l[p].then = "idle" THEN Idle
              ELSE [l[p] EXCEPT !.pc = l[p].then, !.puts = << >>]

\* The table after ref--; what is left in an unused entry is never looked at.
Deref(s) == [it EXCEPT ![s] = IF @.ref = 1 THEN EmptySlot ELSE [@ EXCEPT !.ref = @ - 1]]

\* Variant: an unlinked inode is freed while others refer to it.
LastRefAny(s) == it[s].ref > 0 /\ it[s].valid /\ it[s].node.nlink = 0

LastRef(s) == it[s].ref = 1 /\ it[s].valid /\ it[s].node.nlink = 0

\* iput() of a slot that others refer to, or whose inode has links.
IputDrop(p) ==
  LET s == Head(l[p].puts)
  IN  /\ ~panic /\ l[p].pc = "put" /\ ~LastRef(s)
      /\ it' = Deref(s)
      /\ l' = [l EXCEPT ![p] = NextPut(p)]
      /\ UNCHANGED <<disk, lock, cwd, file, panic, prog>>

\* iput() of the last reference to an unlinked inode: it is locked ...
IputLast(p) ==
  LET s == Head(l[p].puts)
  IN  /\ ~panic /\ l[p].pc = "put" /\ LastRef(s) /\ lock[s] = Nobody
      /\ lock' = [lock EXCEPT ![s] = p]
      /\ l' = [l EXCEPT ![p].pc = "free"]
      /\ UNCHANGED <<disk, it, cwd, file, panic, prog>>

\* The entries of directory d other than "." and "..".
Proper(d) == {e \in entries[d] : e[1] \notin {".", ".."}}

\* ... truncated and freed, with itable.lock released ...
IputFree(p) ==
  LET s == Head(l[p].puts)
      nd == it[s].node
  IN  /\ ~panic /\ l[p].pc = "free"
      /\ bitmap' = bitmap \ TruncatedFrees(nd) /\ ind' = TruncatedInd(nd)
      /\ entries' = [entries EXCEPT ![it[s].inum] = {}]
      /\ stranded' = stranded \cup {e[2] : e \in Proper(it[s].inum)}
      /\ Iupdate(s, FreeInode)
      /\ it' = [it EXCEPT ![s].node = FreeInode, ![s].valid = FALSE]
      /\ lock' = [lock EXCEPT ![s] = Nobody]
      /\ l' = [l EXCEPT ![p].pc = "freed"]
      /\ UNCHANGED <<cwd, file, panic, prog>>

\* ... and the reference dropped.
IputFreed(p) ==
  /\ ~panic /\ l[p].pc = "freed"
  /\ it' = Deref(Head(l[p].puts))
  /\ l' = [l EXCEPT ![p] = NextPut(p)]
  /\ UNCHANGED <<disk, lock, cwd, file, panic, prog>>

-----------------------------------------------------------------------------
(* namex(): "/" as the first element of a path makes it absolute           *)

\* dirlookup() in directory d, and the entries of d after dirlink() of a new name.
Lookup(d, name) == {i \in Inums : <<name, i>> \in entries[d]}
Dirlink(d, name, i) == entries[d] \cup {<<name, i>>}

\* A call that uses nameiparent(), now.
WantsParent(r) == r.call \in {"create", "create-trunc", "mkdir", "mknod", "unlink"} \/ r.old # 0

\* Where a call goes on when its path is resolved, and when it is not.
Resolved(r) == IF r.old # 0 THEN "linkDir"
               ELSE IF r.call \in {"create-trunc", "mkdir", "mknod"} THEN "create"
               ELSE IF r.call \in {"write-only", "trunc"} THEN "open" ELSE r.call
Unresolved(r) == IF r.old # 0 THEN "linkBad" ELSE "idle"

\* p begins to resolve path with locals r, from the root or from its cwd.
Namex(p, path, r) ==
  LET abs == path # << >> /\ Head(path) = "/"
      s == IF abs THEN SlotFor(1) ELSE cwd[p]
      rest == IF abs THEN Tail(path) ELSE path
      r1 == [r EXCEPT !.ip = s, !.rest = rest]
  IN  IF abs /\ NoSlot(1) THEN Panic
      ELSE /\ it' = IF abs THEN Iget(it, 1) ELSE [it EXCEPT ![s].ref = @ + 1]
           /\ l' = [l EXCEPT ![p] =
                      IF rest # << >> THEN [r1 EXCEPT !.pc = "walk"]
                      ELSE IF WantsParent(r) THEN Put([r1 EXCEPT !.ip = 0], <<s>>, Unresolved(r))
                      ELSE [r1 EXCEPT !.pc = Resolved(r)]]
           /\ UNCHANGED <<disk, lock, cwd, file, panic, prog>>

Start(p, call, path, to) ==
  /\ ~panic /\ l[p].pc = "idle"
  /\ Namex(p, path, [Idle EXCEPT !.call = call, !.to = to])

\* One turn of namex()'s loop, up to iput(ip).
Walk(p) ==
  LET s == l[p].ip
      next == Lookup(it[s].inum, Head(l[p].rest))
  IN  /\ Locks(p, "walk")
      /\ IF Node(s).type = "dir" /\ WantsParent(l[p]) /\ Len(l[p].rest) = 1
         THEN /\ it' = Loaded(s)
              /\ l' = [l EXCEPT ![p] = [@ EXCEPT !.pc = Resolved(l[p]), !.dp = s, !.ip = 0,
                                                 !.name = Head(l[p].rest), !.rest = << >>]]
              /\ UNCHANGED <<disk, lock, cwd, file, panic, prog>>
         ELSE IF Node(s).type # "dir" \/ next = {}
         THEN it' = Loaded(s) /\ PutIp(p, Unresolved(l[p])) /\ UNCHANGED <<disk, lock, cwd, file, panic, prog>>
         ELSE IF NoSlot(First(next)) THEN Panic
         ELSE /\ it' = Iget(Loaded(s), First(next))
              /\ l' = [l EXCEPT ![p] = Put([@ EXCEPT !.ip = SlotFor(First(next)), !.rest = Tail(@)], <<s>>,
                          IF Len(l[p].rest) = 1 THEN Resolved(l[p]) ELSE "walk")]
              /\ UNCHANGED <<disk, lock, cwd, file, panic, prog>>

-----------------------------------------------------------------------------
(* sys_open(), create(), sys_mkdir(), sys_mknod()                          *)

\* open() with O_CREATE, and with O_TRUNC.
Creates(call) == call \in {"create", "create-trunc"}
Truncates(call) == call \in {"trunc", "create-trunc"}

CallType(call) == IF call = "mkdir" THEN "dir" ELSE IF call = "mknod" THEN "device" ELSE "file"

\* The rest of sys_open() for p's locked inode nd in slot s: without a descriptor
\* left, or a driver for the device, it fails; O_TRUNC empties a file.
OpenFile(p, s, nd) ==
  /\ lock' = [lock EXCEPT ![s] = Nobody]
  /\ \/ /\ file[p].ip # 0 \/ nd.type = "device"
        /\ it' = Loaded(s) /\ PutIp(p, "idle") /\ UNCHANGED <<disk, file>>
     \/ /\ file[p].ip = 0
        /\ file' = [file EXCEPT ![p] = [ip |-> s, off |-> 0, call |-> l[p].call,
                                         type |-> IF nd.type = "device" THEN "device" ELSE "inode"]]
        /\ l' = [l EXCEPT ![p] = Idle]
        /\ IF Truncates(l[p].call) /\ nd.type = "file"
           THEN /\ bitmap' = bitmap \ TruncatedFrees(nd) /\ ind' = TruncatedInd(nd)
                /\ Iupdate(s, Truncated(nd))
                /\ it' = Changed(it, s, Truncated(nd))
                /\ UNCHANGED <<entries, stranded>>
           ELSE it' = Loaded(s) /\ UNCHANGED disk
  /\ UNCHANGED <<cwd, panic, prog>>

\* sys_open() of a path that exists; a directory only for reading.
Open(p) ==
  LET s == l[p].ip
  IN  /\ Locks(p, "open")
      /\ IF Node(s).type = "dir" /\ l[p].call # "open"
         THEN it' = Loaded(s) /\ PutIp(p, "idle") /\ UNCHANGED <<disk, lock, cwd, file, panic, prog>>
         ELSE OpenFile(p, s, Node(s))

\* create() finds the name: dp is put before the inode is locked.
CreateFound(p) ==
  LET found == Lookup(it[l[p].dp].inum, l[p].name)
  IN  /\ Locks(p, "create") /\ found # {}
      /\ IF NoSlot(First(found)) THEN Panic
         ELSE /\ it' = Iget(Loaded(l[p].dp), First(found))
              /\ l' = [l EXCEPT ![p] = Put([@ EXCEPT !.ip = SlotFor(First(found)), !.dp = 0],
                                           <<l[p].dp>>, "createOld")]
              /\ UNCHANGED <<disk, lock, cwd, file, panic, prog>>

CreateOld(p) ==
  LET s == l[p].ip
  IN  /\ Locks(p, "createOld")
      /\ IF Creates(l[p].call) /\ Node(s).type \in {"file", "device"} THEN OpenFile(p, s, Node(s))
         ELSE it' = Loaded(s) /\ PutIp(p, "idle") /\ UNCHANGED <<disk, lock, cwd, file, panic, prog>>

\* ialloc(): the first free inode gets its type, and dp stays locked.
CreateAlloc(p) ==
  LET free == {i \in Inums : dinode[i].type = "free"}
  IN  /\ Locks(p, "create") /\ Lookup(it[l[p].dp].inum, l[p].name) = {}
      /\ IF free = {} \/ NoSlot(First(free)) THEN Panic
         ELSE /\ dinode' = [dinode EXCEPT ![First(free)] = [FreeInode EXCEPT !.type = CallType(l[p].call)]]
              /\ it' = Iget(Loaded(l[p].dp), First(free))
              /\ lock' = [lock EXCEPT ![l[p].dp] = p]
              /\ l' = [l EXCEPT ![p] = [@ EXCEPT !.pc = "createNew", !.ip = SlotFor(First(free))]]
              /\ UNCHANGED <<entries, ind, bitmap, stranded, cwd, file, panic, prog>>

\* The links of the new inode and, for "..", of its parent; the entries; iunlock(dp).
CreateNew(p) ==
  LET s == l[p].ip
      d == l[p].dp
      isDir == l[p].call = "mkdir"
      nd == [Node(s) EXCEPT !.nlink = 1]
      new == IF isDir THEN [BmapNode(nd, 0) EXCEPT !.size = 1] ELSE nd
      parent == [it[d].node EXCEPT !.nlink = IF isDir THEN @ + 1 ELSE @]
  IN  /\ Locks(p, "createNew")
      /\ IF isDir /\ OutOfBlocks(nd, 0) THEN Panic
         ELSE /\ dinode' = [dinode EXCEPT ![it[s].inum] = new, ![it[d].inum] = parent]
              /\ it' = Changed(Changed(it, s, new), d, parent)
              /\ bitmap' = IF isDir THEN bitmap \cup Allocated(nd, 0) ELSE bitmap
              /\ ind' = IF isDir THEN BmapInd(nd, 0) ELSE ind
              /\ entries' = [entries EXCEPT
                    ![it[s].inum] = IF isDir THEN {<<".", it[s].inum>>, <<"..", it[d].inum>>} ELSE {},
                    ![it[d].inum] = Dirlink(it[d].inum, l[p].name, it[s].inum)]
              /\ lock' = [lock EXCEPT ![s] = p, ![d] = Nobody]
              /\ PutDp(p, "created")
              /\ UNCHANGED <<stranded, cwd, file, panic, prog>>

\* create() returns the new inode locked, to sys_open(), sys_mkdir() or sys_mknod().
Created(p) ==
  LET s == l[p].ip
  IN  /\ ~panic /\ l[p].pc = "created"
      /\ IF Creates(l[p].call) THEN OpenFile(p, s, it[s].node)
         ELSE /\ lock' = [lock EXCEPT ![s] = Nobody]
              /\ PutIp(p, "idle")
              /\ UNCHANGED <<disk, it, cwd, file, panic, prog>>

-----------------------------------------------------------------------------
(* sys_link() and sys_unlink()                                             *)

\* Variant: no iupdate() after nlink++.
LinkUnsaved(p) ==
  LET s == l[p].ip
      nd == [Node(s) EXCEPT !.nlink = @ + 1]
  IN  /\ Locks(p, "link")
      /\ IF Node(s).type = "dir" THEN it' = Loaded(s) /\ PutIp(p, "idle")
         ELSE /\ it' = Changed(it, s, nd)
              /\ l' = [l EXCEPT ![p] = [@ EXCEPT !.pc = "linkTo", !.old = s, !.ip = 0]]
      /\ UNCHANGED <<disk, lock, cwd, file, panic, prog>>

\* Variant: the link is not counted.
LinkUncounted(p) ==
  LET s == l[p].ip
  IN  /\ Locks(p, "link")
      /\ it' = Loaded(s)
      /\ IF Node(s).type = "dir" THEN PutIp(p, "idle")
         ELSE l' = [l EXCEPT ![p] = [@ EXCEPT !.pc = "linkTo", !.old = s, !.ip = 0]]
      /\ UNCHANGED <<disk, lock, cwd, file, panic, prog>>

\* The link is counted before the entry is made.
Link(p) ==
  LET s == l[p].ip
      nd == [Node(s) EXCEPT !.nlink = @ + 1]
  IN  /\ Locks(p, "link")
      /\ IF Node(s).type = "dir" THEN it' = Loaded(s) /\ PutIp(p, "idle") /\ UNCHANGED dinode
         ELSE /\ it' = Changed(it, s, nd) /\ Iupdate(s, nd)
              /\ l' = [l EXCEPT ![p] = [@ EXCEPT !.pc = "linkTo", !.old = s, !.ip = 0]]
      /\ UNCHANGED <<entries, ind, bitmap, stranded, lock, cwd, file, panic, prog>>

LinkTo(p) == ~panic /\ l[p].pc = "linkTo" /\ Namex(p, l[p].to, l[p])

\* Variant: a name that is present is linked again.
LinkDirAgain(p) ==
  LET d == l[p].dp
  IN  /\ Locks(p, "linkDir")
      /\ it' = Loaded(d)
      /\ entries' = [entries EXCEPT ![it[d].inum] = Dirlink(it[d].inum, l[p].name, it[l[p].old].inum)]
      /\ l' = [l EXCEPT ![p] = Put([@ EXCEPT !.dp = 0, !.old = 0], <<d, l[p].old>>, "idle")]
      /\ UNCHANGED <<dinode, ind, bitmap, stranded, lock, cwd, file, panic, prog>>

\* dirlink(), which refuses a name that is present after a get and put of its inode.
LinkDir(p) ==
  LET d == l[p].dp
      found == Lookup(it[d].inum, l[p].name)
  IN  /\ Locks(p, "linkDir")
      /\ IF found = {}
         THEN /\ it' = Loaded(d)
              /\ entries' = [entries EXCEPT ![it[d].inum] = Dirlink(it[d].inum, l[p].name, it[l[p].old].inum)]
              /\ l' = [l EXCEPT ![p] = Put([@ EXCEPT !.dp = 0, !.old = 0], <<d, l[p].old>>, "idle")]
              /\ UNCHANGED <<dinode, ind, bitmap, stranded, lock, cwd, file, panic, prog>>
         ELSE IF NoSlot(First(found)) THEN Panic
         ELSE /\ it' = Iget(Loaded(d), First(found))
              /\ lock' = [lock EXCEPT ![d] = p]
              /\ l' = [l EXCEPT ![p] = Put(@, <<SlotFor(First(found))>>, "bad")]
              /\ UNCHANGED <<disk, cwd, file, panic, prog>>

\* Variant: the link that was not made stays counted.
LinkBadKeeps(p) ==
  /\ Locks(p, "linkBad")
  /\ l' = [l EXCEPT ![p] = Put([@ EXCEPT !.old = 0], <<l[p].old>>, "idle")]
  /\ UNCHANGED <<disk, it, lock, cwd, file, panic, prog>>

LinkBad(p) ==
  LET s == l[p].old
      nd == [Node(s) EXCEPT !.nlink = @ - 1]
  IN  /\ Locks(p, "linkBad")
      /\ it' = Changed(it, s, nd) /\ Iupdate(s, nd)
      /\ l' = [l EXCEPT ![p] = Put([@ EXCEPT !.old = 0], <<s>>, "idle")]
      /\ UNCHANGED <<entries, ind, bitmap, stranded, lock, cwd, file, panic, prog>>

\* Variant: "." is not refused.
UnlinkRefusesDotDot(name) == name = ".."

UnlinkRefuses(name) == name \in {".", ".."}

\* sys_unlink() finds the entry, and keeps dp locked.
Unlink(p) ==
  LET d == l[p].dp
      found == Lookup(it[d].inum, l[p].name)
  IN  /\ Locks(p, "unlink")
      /\ IF UnlinkRefuses(l[p].name) \/ found = {}
         THEN it' = Loaded(d) /\ PutDp(p, "idle") /\ UNCHANGED <<disk, lock, cwd, file, panic, prog>>
         ELSE IF NoSlot(First(found)) THEN Panic
         ELSE /\ it' = Iget(Loaded(d), First(found))
              /\ lock' = [lock EXCEPT ![d] = p]
              /\ l' = [l EXCEPT ![p] = [@ EXCEPT !.pc = "unlinkLock", !.ip = SlotFor(First(found))]]
              /\ UNCHANGED <<disk, cwd, file, panic, prog>>

UnlinkBusy(p) == Node(l[p].ip).type = "dir" /\ Proper(it[l[p].ip].inum) # {}

\* Both locked: the entry is cleared, and dp unlocked.
UnlinkLock(p) ==
  LET s == l[p].ip
      d == l[p].dp
      parent == [it[d].node EXCEPT !.nlink = IF Node(s).type = "dir" THEN @ - 1 ELSE @]
  IN  /\ Locks(p, "unlinkLock")
      /\ IF Node(s).nlink < 1 THEN Panic
         ELSE IF UnlinkBusy(p) THEN it' = Loaded(s) /\ PutIp(p, "bad") /\ UNCHANGED <<disk, lock, cwd, file, panic, prog>>
         ELSE /\ entries' = [entries EXCEPT ![it[d].inum] = @ \ {<<l[p].name, it[s].inum>>}]
              /\ it' = Changed(Loaded(s), d, parent) /\ Iupdate(d, parent)
              /\ lock' = [lock EXCEPT ![s] = p, ![d] = Nobody]
              /\ PutDp(p, "unlinkDec")
              /\ UNCHANGED <<ind, bitmap, stranded, cwd, file, panic, prog>>

\* unlink() or link() fails: dp, still locked, is unlocked and put.
Bad(p) ==
  /\ ~panic /\ l[p].pc = "bad"
  /\ lock' = [lock EXCEPT ![l[p].dp] = Nobody]
  /\ PutDp(p, Unresolved(l[p]))
  /\ UNCHANGED <<disk, it, cwd, file, panic, prog>>

UnlinkDec(p) ==
  LET s == l[p].ip
      nd == [it[s].node EXCEPT !.nlink = @ - 1]
  IN  /\ ~panic /\ l[p].pc = "unlinkDec"
      /\ it' = Changed(it, s, nd) /\ Iupdate(s, nd)
      /\ lock' = [lock EXCEPT ![s] = Nobody]
      /\ PutIp(p, "idle")
      /\ UNCHANGED <<entries, ind, bitmap, stranded, cwd, file, panic, prog>>

-----------------------------------------------------------------------------
(* sys_chdir(), and the calls on an open file                              *)

\* Variant: the old directory is not put.
ChdirKeeps(p) ==
  LET s == l[p].ip
  IN  /\ Locks(p, "chdir")
      /\ it' = Loaded(s)
      /\ IF Node(s).type # "dir" THEN PutIp(p, "idle") /\ UNCHANGED cwd
         ELSE cwd' = [cwd EXCEPT ![p] = s] /\ l' = [l EXCEPT ![p] = Idle]
      /\ UNCHANGED <<disk, lock, file, panic, prog>>

Chdir(p) ==
  LET s == l[p].ip
  IN  /\ Locks(p, "chdir")
      /\ it' = Loaded(s)
      /\ IF Node(s).type # "dir" THEN PutIp(p, "idle") /\ UNCHANGED cwd
         ELSE /\ cwd' = [cwd EXCEPT ![p] = s]
              /\ l' = [l EXCEPT ![p] = Put([@ EXCEPT !.ip = 0], <<cwd[p]>>, "idle")]
      /\ UNCHANGED <<disk, lock, file, panic, prog>>

\* The last fileclose() of an open file puts its inode.
Close(p) ==
  /\ ~panic /\ l[p].pc = "idle" /\ file[p].ip # 0
  /\ file' = [file EXCEPT ![p] = Closed]
  /\ l' = [l EXCEPT ![p] = Put(Idle, <<file[p].ip>>, "idle")]
  /\ UNCHANGED <<disk, it, lock, cwd, panic, prog>>

\* What the mode of an open file allows.
Readable(f) == f.call \in {"open", "create"}
Writable(f) == f.call \in {"create", "create-trunc", "write-only", "trunc"}

StartIo(p, call, n) ==
  /\ ~panic /\ l[p].pc = "idle" /\ file[p].type = "inode"
  /\ call = "read" => Readable(file[p])
  /\ call = "write" => Writable(file[p])
  /\ l' = [l EXCEPT ![p] = [Idle EXCEPT !.pc = call, !.n = n]]
  /\ UNCHANGED <<disk, it, lock, cwd, file, panic, prog>>

\* readi() of a block: how many blocks it reads.
Readi(nd, off) == IF off < nd.size THEN 1 ELSE 0

\* fileread(): the offset stays when the copy to user memory fails.
Read(p) ==
  LET s == file[p].ip
      off == file[p].off
  IN  /\ Locks(p, "read")
      /\ it' = Loaded(s)
      /\ \E r \in {0, Readi(Node(s), off)} : file' = [file EXCEPT ![p].off = off + r]
      /\ l' = [l EXCEPT ![p] = Idle]
      /\ UNCHANGED <<disk, lock, cwd, panic, prog>>

\* writei() of a block fails past MAXFILE, and past the end of a file that was
\* truncated.  Otherwise it returns r, 1 or, when the copy from user memory
\* fails, 0: bmap() has given the inode its block by then, and only the size
\* depends on r.
WriteiFails(nd, off) == off > nd.size \/ off + 1 > MAXFILE
Writei(nd, off, r) == [BmapNode(nd, off) EXCEPT !.size = IF off + r > @ THEN off + r ELSE @]

\* Variant: the inode is written back when its size has changed.
WriteiSavesGrown(s, nd, new) == IF new.size = nd.size THEN UNCHANGED dinode ELSE Iupdate(s, new)

\* "write the i-node back to disk even if the size didn't change"
WriteiSaves(s, nd, new) == Iupdate(s, new)

\* filewrite(): one transaction of it (max is one block), which moves the offset;
\* the call ends with the first that fails.
Write(p) ==
  LET s == file[p].ip
      off == file[p].off
      nd == Node(s)
  IN  /\ Locks(p, "write")
      /\ IF WriteiFails(nd, off)
         THEN it' = Loaded(s) /\ l' = [l EXCEPT ![p] = Idle] /\ UNCHANGED <<disk, lock, cwd, file, panic, prog>>
         ELSE IF OutOfBlocks(nd, off) THEN Panic
         ELSE \E r \in 0 .. 1 :
                LET new == Writei(nd, off, r)
                IN  /\ bitmap' = bitmap \cup Allocated(nd, off)
                    /\ ind' = BmapInd(nd, off)
                    /\ it' = Changed(it, s, new) /\ WriteiSaves(s, nd, new)
                    /\ file' = [file EXCEPT ![p].off = off + r]
                    /\ l' = [l EXCEPT ![p] = IF r = 0 \/ @.n = 1 THEN Idle ELSE [@ EXCEPT !.n = @ - 1]]
                    /\ UNCHANGED <<entries, stranded, lock, cwd, panic, prog>>

-----------------------------------------------------------------------------
\* The program does nothing more after panic().
Halted == panic /\ UNCHANGED vars

Begin(p) ==
  \E c \in prog :
    /\ c[1] = p
    /\ \/ c[2] \notin {"close", "read", "write"} /\ Start(p, c[2], c[3], c[4])
       \/ c[2] = "close" /\ Close(p)
       \/ c[2] = "read" /\ StartIo(p, "read", 0)
       \/ c[2] = "write" /\ \E n \in 1 .. MaxWrite : StartIo(p, "write", n)

Continue(p) ==
  \/ IputDrop(p) \/ IputLast(p) \/ IputFree(p) \/ IputFreed(p)
  \/ Walk(p) \/ Open(p) \/ CreateFound(p) \/ CreateOld(p) \/ CreateAlloc(p) \/ CreateNew(p) \/ Created(p)
  \/ Link(p) \/ LinkTo(p) \/ LinkDir(p) \/ LinkBad(p)
  \/ Unlink(p) \/ UnlinkLock(p) \/ Bad(p) \/ UnlinkDec(p)
  \/ Chdir(p) \/ Read(p) \/ Write(p) \/ IlockNoType(p)

Next == (\E p \in Procs : Begin(p) \/ Continue(p)) \/ Halted

Spec == Init /\ [][Next]_vars

-----------------------------------------------------------------------------
(* Properties                                                              *)

Inode == [type : {"free", "dir", "file", "device"}, nlink : Nat, size : 0 .. MAXFILE,
          addrs : [0 .. NDIRECT -> Blks \cup {0}]]

\* Every variable keeps its type; the link counts never fall below zero.
TypeOK ==
  /\ dinode \in [Inums -> Inode]
  /\ entries \in [Inums -> SUBSET ((Names \cup {".", ".."}) \X Inums)]
  /\ ind \in [Blks -> [0 .. NINDIRECT - 1 -> Blks \cup {0}]]
  /\ bitmap \in SUBSET Blks
  /\ it \in [Slots -> [inum : Inums \cup {0}, ref : Nat, valid : BOOLEAN, node : Inode]]
  /\ lock \in [Slots -> Procs \cup {Nobody}]
  /\ cwd \in [Procs -> Slots]
  /\ file \in [Procs -> [ip : Slots \cup {0}, off : 0 .. MAXFILE, type : {"none", "inode", "device"}, call : STRING]]
  /\ \A p \in Procs : l[p].ip \in Slots \cup {0} /\ l[p].dp \in Slots \cup {0} /\ l[p].old \in Slots \cup {0}
  /\ panic \in BOOLEAN

\* iget(): "at most one" table entry for an inode, so that its sleep lock is
\* the lock of the inode.
OneSlotPerInode ==
  \A s, t \in Slots : it[s].ref > 0 /\ it[t].ref > 0 /\ it[s].inum = it[t].inum => s = t

\* The pointers to slot s that processes have, and those they are about to put.
Pointers(s) ==
  {<<p, f>> \in Procs \X {"cwd", "file", "ip", "dp", "old"} :
     s = CASE f = "cwd" -> cwd[p] [] f = "file" -> file[p].ip [] OTHER -> l[p][f]}
PutsDue(s) == {<<p, k>> \in Procs \X (1 .. 2) : k <= Len(l[p].puts) /\ l[p].puts[k] = s}

\* ref counts the pointers to a slot, of all processes: no path through a call,
\* successful or not, forgets an iput() or does one too many.
RefsCounted == \A s \in Slots : it[s].ref = Cardinality(Pointers(s)) + Cardinality(PutsDue(s))

\* "ref == 1 means no other process can have ip locked, so this acquiresleep()
\* won't block": it would sleep with itable.lock held.
IputNeverBlocks ==
  \A p \in Procs : l[p].pc = "put" /\ LastRef(Head(l[p].puts)) => lock[Head(l[p].puts)] = Nobody

\* "iupdate() must be called after every change": an inode that nobody has locked
\* is on the disk as it is in memory.
SavedWhenUnlocked ==
  \A s \in Slots : it[s].ref > 0 /\ it[s].valid /\ lock[s] = Nobody => it[s].node = dinode[it[s].inum]

\* The entries that name inode i, and the directories not removed whose ".." does.
LinksTo(i) == {<<d, e>> \in Inums \X (Names \X {i}) : e \in entries[d]}
SubdirsOf(i) == {d \in Inums \ {1} : <<"..", i>> \in entries[d] /\ LinksTo(d) # {}}

\* What a directory names is an inode in use that counts the entry: an inode is
\* never freed, or given to another file, while an entry other than ".." names
\* it.  (The ".." of a removed directory that is still a working directory may
\* name a parent that has been removed and freed too.)
EntriesLive ==
  \A i \in Inums : /\ LinksTo(i) # {} => dinode[i].type # "free"
                    /\ Cardinality(LinksTo(i)) <= dinode[i].nlink

\* Between calls nlink is exactly the number of entries, and of ".." entries of
\* subdirectories, except for a file whose only entry was made in a directory
\* that had been removed already.
LinksExact ==
  (\A p \in Procs : l[p].pc = "idle") =>
    \A i \in Inums \ stranded :
      dinode[i].nlink = Cardinality(LinksTo(i)) + Cardinality(SubdirsOf(i)) + IF i = 1 THEN 1 ELSE 0

\* dirlink() under the directory's lock: no name twice in a directory.
NamesUnique == \A d \in Inums : \A e, f \in entries[d] : e[1] = f[1] => e = f

\* "iput() frees if the reference and link counts have fallen to zero": an
\* inode without links is in use only while some process refers to it.
NoOrphans ==
  \A i \in Inums : dinode[i].type # "free" /\ dinode[i].nlink = 0 => Holding(i) # {}

\* An open file or a working directory is never freed under its user.
OpenStays ==
  \A p \in Procs : /\ file[p].ip # 0 => dinode[it[file[p].ip].inum].type # "free"
                    /\ dinode[it[cwd[p]].inum].type = "dir"

\* The indices of inode nd that have a block.
Held(nd) == {n \in 0 .. MAXFILE - 1 : BlockAt(nd, n) # 0}

\* Every block in use belongs to exactly one inode, at one place: nothing is lost,
\* shared or freed twice.  A file has a block for each index below its size, and at
\* most the next one more, which a write() left whose copy from user memory failed;
\* it has an indirect block when one of its blocks is listed there.
BlocksPartition ==
  /\ bitmap = UNION {BlocksOf(dinode[i]) : i \in Inums}
  /\ \A i, j \in Inums : i # j => BlocksOf(dinode[i]) \cap BlocksOf(dinode[j]) = {}
  /\ \A i \in Inums :
       LET held == Held(dinode[i])
       IN  /\ 0 .. dinode[i].size - 1 \subseteq held /\ held \subseteq 0 .. dinode[i].size
           /\ Cardinality(BlocksOf(dinode[i])) =
                Cardinality(held) + IF \E n \in held : n >= NDIRECT THEN 1 ELSE 0

\* p waits for a lock that q holds.
WaitsFor(p, q) == Wants(p) # 0 /\ lock[Wants(p)] = q

\* Locks are taken from parent to child: no two processes wait for each other,
\* and none for itself.
NoLockCycle ==
  \A p, q \in Procs : ~(WaitsFor(p, q) /\ WaitsFor(q, p))

-----------------------------------------------------------------------------
(* The properties above that are about one thing, together                 *)

\* The inode table is a cache: iget() has one entry for an inode, and ilock() and
\* iupdate() keep it the same as the inode on the disk.
InodesCached == TypeOK /\ OneSlotPerInode /\ SavedWhenUnlocked

\* iput() frees no inode that is open or a working directory, and need not wait
\* for one that it frees.
OpenStaysAllocated == OpenStays /\ IputNeverBlocks

\* Directories and link counts agree, under link(), unlink(), create() and mkdir() of
\* the same names at once.
LinksSound == EntriesLive /\ NamesUnique /\ LinksExact
=============================================================================
