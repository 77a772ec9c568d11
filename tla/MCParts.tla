------------------------------ MODULE MCParts -------------------------------
(***************************************************************************)
(* Parts of the system that share no state with each other, checked in one *)
(* run: the first state chooses the part, and the steps are that part's.   *)
(*   shell    module Streams, running what module Shell makes of lines     *)
(*   parse    the parser of module Shell, on every short line              *)
(*   copy     module UserCopy, on every small argument                     *)
(*   malloc   module Umalloc                                               *)
(*   console  module Console                                               *)
(*   vm       module Vm                                                    *)
(*   spin     module Spinlock                                              *)
(*   log      module Log, with more processes than its own run             *)
(*   blocks   module Bio, with more descriptors than its own run           *)
(* The variables of the parts that were not chosen are 0; those of module  *)
(* Spinlock, whose theorems are about this run's invariants, do not move.  *)
(***************************************************************************)
EXTENDS Spinlock, Sequences

CONSTANT Scripts        \* of module Streams

VARIABLES
  part, input,
  proc, ofile, ftable, pipe, store, out, kills, script,                         \* Streams
  s, used, holes,                                                               \* Umalloc
  typing, rx, thr, line, irq, edit, w, tx, consLock, txLock, h, rd, wr, got,    \* Console
  free, content, other, vmproc, new, l, calls,                                  \* Vm
  disk, logDisk, headDisk, cache, pins, holder, lh, outstanding, committing, logpc, wrote, tail, boot,  \* Log
  buf, lru, lock, pinned, diskStore, diskFree, next, req, posted, diskUsed, diskIrq, intr, diskpc, cur, head    \* Bio

streams == <<proc, ofile, ftable, pipe, store, out, kills, script>>
umalloc == <<s, used, holes>>
console == <<typing, rx, thr, line, irq, edit, w, tx, consLock, txLock, h, rd, wr, got>>
vm == <<free, content, other, vmproc, new, l, calls>>
log == <<disk, logDisk, headDisk, cache, pins, holder, lh, outstanding, committing, logpc, wrote, tail, boot>>
blocks == <<buf, lru, lock, pinned, diskStore, diskFree, next, req, posted, diskUsed, diskIrq, intr, diskpc, cur, head>>
partsVars == <<part, input, streams, umalloc, console, vm, vars, log, blocks>>

-----------------------------------------------------------------------------
(* The shell                                                               *)

Sh == INSTANCE Shell WITH MAXARGS <- 5

\* The script for parsed lines, with what they mean if that is exact.
Absent == <<"absent">>
Script(rs, exact, nkills) ==
  [code |-> Sh!main(rs), kills |-> nkills, exact |-> exact,
   end |-> IF exact THEN Sh!Meanings(rs, [in |-> << >>, out |-> << >>, store |-> [n \in {"f", "g"} |-> Absent]]) ELSE 0]

\* A pipeline that fills its pipe, and one whose reader does not read; redirections,
\* lists and blocks; a background command, a file that is not there and a program
\* that is not there; lines for which there are too few pipes, and processes.
Runs ==
  { [exact |-> TRUE, kills |-> 1, lines |-> << <<"echo", "x", "y", "z", "|", "cat">> >>],
    [exact |-> TRUE, kills |-> 0, lines |-> << <<"echo", "x", "y", "z", "|", "echo", "w">>, <<"cat">> >>],
    [exact |-> TRUE, kills |-> 1,
     lines |-> << <<"echo", "x", ">", "f", ";", "cat", "<", "f">>,
                  <<"(", "echo", "y", ";", "cat", ")", ">", "g", "<", "f">>, <<"cat", "<", "g">> >>],
    [exact |-> FALSE, kills |-> 1,
     lines |-> << <<"echo", "x", "&">>, <<"cat", "<", "g">>, <<"echo", "y", "+", "f">>, <<"ls">>, <<"echo", ")">> >>],
    [exact |-> FALSE, kills |-> 0, lines |-> << <<"echo", "x", "y", "|", "cat", "|", "cat">> >>],
    [exact |-> FALSE, kills |-> 0, lines |-> << <<"(", "echo", "x", ";", "echo", "y", ")", "|", "cat">> >>] }
MCScripts == {Script([i \in DOMAIN r.lines |-> Sh!parsecmd(r.lines[i])], r.exact, r.kills) : r \in Runs}

St == INSTANCE Streams WITH NPROC <- 4, NFILE <- 4, NOFILE <- 5, NPIPES <- 1, PIPESIZE <- 2, BUFSIZE <- 2,
                            Files <- {"f", "g"}

\* The lines of at most four tokens, and the trees of depth two.
Tokens == {"a", "|", "&", ";", "(", ")", "<", ">"}
Lines == UNION {[1 .. n -> Tokens] : n \in 0 .. 4}
Execs == {Sh!execcmd(a) : a \in {<< >>, <<"a">>, <<"a", "b">>}}
Over(T) == T \cup {Sh!redircmd(t, "f", k) : t \in T, k \in {"<", ">"}} \cup {Sh!backcmd(t) : t \in T}
             \cup {Sh!pipecmd(t, u) : t, u \in T} \cup {Sh!listcmd(t, u) : t, u \in T}
ParseInputs == {[of |-> "line", ts |-> ts] : ts \in Lines} \cup {[of |-> "tree", tree |-> t] : t \in Over(Over(Execs))}

-----------------------------------------------------------------------------
(* The other parts                                                         *)

Uc == INSTANCE UserCopy WITH PGSIZE <- 2, DIRSIZ <- 2

\* Three user pages, two physical ones at 1 and 2: no page is mapped twice.
PageTables == {pt \in [0 .. 2 -> 0 .. 2] : \A u, v \in 0 .. 2 : u # v => pt[u] # pt[v] \/ pt[u] = 0}
Plain == [a \in 2 .. 5 |-> a]
CopyInputs ==
  {[of |-> "copy", pt |-> pt, va |-> va, len |-> n] : pt \in PageTables, va \in 0 .. 6, n \in 0 .. 5}
  \cup {[of |-> "string", pt |-> pt, va |-> va, len |-> n, mem |-> mem] :
          pt \in PageTables, va \in 0 .. 6, n \in 0 .. 5, mem \in [2 .. 5 -> {0, 1}]}
  \cup {m \in {[of |-> "move", d |-> d, s |-> x, n |-> n] : d, x \in 1 .. 5, n \in 0 .. 5} : m.d + m.n <= 6 /\ m.s + m.n <= 6}
  \cup {[of |-> "path", path |-> p] : p \in UNION {[1 .. n -> {"/", "a", "b"}] : n \in 0 .. 6}}

Um == INSTANCE Umalloc WITH MaxHeap <- 10, MinCore <- 4, Sizes <- {1, 2, 4}, MaxHoles <- 1

\* Erasing, a line that is complete, end of file, a full buffer; more output than fits.
MCSessions ==
  {[typed |-> t, written |-> 1] :
     t \in {<<"a", "^H", "b", "nl">>, <<"a", "nl", "^U", "b">>, <<"a", "^D", "^D">>, <<"a", "b", "c", "^H">>}}
  \cup {[typed |-> <<"a">>, written |-> 4]}
Co == INSTANCE Console WITH INPUT_BUF <- 2, UART_TX_BUF_SIZE <- 2, FIFO <- 2, ReadSizes <- {1, 2}, Sessions <- MCSessions

Vm == INSTANCE Vm WITH proc <- vmproc, Procs <- {1, 2}, NPAGES <- 17, PGSIZE <- 2, SPAN <- 2, MaxVa <- 8, MaxSize <- 6,
                       MaxOther <- 10, Sbrks <- {-2, 1, 3}, Images <- {<< >>, <<2, 3>>}, Args <- {0, 1}, MaxCalls <- 3

Lg == INSTANCE Log WITH Blocks <- 1 .. 3, Data <- {1}, Procs <- 1 .. 3, Nobody <- 0, NotCached <- 0,
                        MAXOPBLOCKS <- 2, LOGSIZE <- 4, logSize <- 4, OpBlocks <- 1, pc <- logpc

Bk == INSTANCE Bio WITH Blocks <- {1, 2}, Data <- {1, 2, 3}, Procs <- {1, 2}, Nobody <- 0, NoBlock <- 0, NBUF <- 2, NUM <- 8,
                        MaxPins <- 1, Uses <- {<<1, 1>>, <<2, 2>>}, Victims <- {1, 2}, store0 <- [b \in {1, 2} |-> b],
                        Changes <- {<<1, 3>>}, store <- diskStore, free <- diskFree, used <- diskUsed, irq <- diskIrq, pc <- diskpc

-----------------------------------------------------------------------------
PartsInit ==
  /\ part \in {"shell", "parse", "copy", "malloc", "console", "vm", "spin", "log", "blocks"}
  /\ input \in IF part = "parse" THEN ParseInputs ELSE IF part = "copy" THEN CopyInputs ELSE {0}
  /\ IF part = "shell" THEN St!Init
     ELSE proc = 0 /\ ofile = 0 /\ ftable = 0 /\ pipe = 0 /\ store = 0 /\ out = 0 /\ kills = 0 /\ script = 0
  /\ IF part = "malloc" THEN Um!Init ELSE s = 0 /\ used = 0 /\ holes = 0
  /\ IF part = "console" THEN Co!Init
     ELSE /\ typing = 0 /\ rx = 0 /\ thr = 0 /\ line = 0 /\ irq = 0 /\ edit = 0 /\ w = 0 /\ tx = 0
          /\ consLock = 0 /\ txLock = 0 /\ h = 0 /\ rd = 0 /\ wr = 0 /\ got = 0
  /\ IF part = "vm" THEN Vm!Init
     ELSE free = 0 /\ content = 0 /\ other = 0 /\ vmproc = 0 /\ new = 0 /\ l = 0 /\ calls = 0
  /\ Init
  /\ IF part = "log" THEN Lg!Init
     ELSE /\ disk = 0 /\ logDisk = 0 /\ headDisk = 0 /\ cache = 0 /\ pins = 0 /\ holder = 0 /\ lh = 0
          /\ outstanding = 0 /\ committing = 0 /\ logpc = 0 /\ wrote = 0 /\ tail = 0 /\ boot = 0
  /\ IF part = "blocks" THEN Bk!Init
     ELSE /\ buf = 0 /\ lru = 0 /\ lock = 0 /\ pinned = 0 /\ diskStore = 0 /\ diskFree = 0 /\ next = 0 /\ req = 0
          /\ posted = 0 /\ diskUsed = 0 /\ diskIrq = 0 /\ intr = 0 /\ diskpc = 0 /\ cur = 0 /\ head = 0

ShellStep == part = "shell" /\ St!Next /\ UNCHANGED <<part, input, umalloc, console, vm, vars, log, blocks>>
MallocStep == part = "malloc" /\ Um!Next /\ UNCHANGED <<part, input, streams, console, vm, vars, log, blocks>>
ConsoleStep == part = "console" /\ Co!Next /\ UNCHANGED <<part, input, streams, umalloc, vm, vars, log, blocks>>
VmStep == part = "vm" /\ Vm!Next /\ UNCHANGED <<part, input, streams, umalloc, console, vars, log, blocks>>
SpinStep == part = "spin" /\ Next /\ UNCHANGED <<part, input, streams, umalloc, console, vm, log, blocks>>
LogStep == part = "log" /\ Lg!Next /\ UNCHANGED <<part, input, streams, umalloc, console, vm, vars, blocks>>
BlocksStep == part = "blocks" /\ Bk!Next /\ UNCHANGED <<part, input, streams, umalloc, console, vm, vars, log>>

\* The arguments are just looked at, a reader may wait for input forever, and the
\* bound on calls, or a fork() that does not return, ends what the address spaces do.
Rest ==
  /\ \/ part \in {"parse", "copy"}
     \/ part = "console"
     \/ part = "vm" /\ (calls = 3 \/ \E p \in {1, 2} : l[p].pc = "lost")
  /\ UNCHANGED partsVars

PartsNext == ShellStep \/ MallocStep \/ ConsoleStep \/ VmStep \/ SpinStep \/ LogStep \/ BlocksStep \/ Rest

\* As long as a process, the handler or a device can go on, one of them does.
Fairness ==
  /\ WF_streams(part = "shell" /\ \E p \in 1 .. 4 : St!Step(p))
  /\ WF_console(part = "console" /\ Co!Progress)

PartsSpec == PartsInit /\ [][PartsNext]_partsVars /\ Fairness

-----------------------------------------------------------------------------
(* The properties of the parts.  For spin, see module Spinlock.            *)

\* Streams: a file's ref is the number of descriptors that name it, through fork(),
\* dup(), close() and exit(); a pipe's end is open while a file for it is; and nobody
\* sleeps in piperead() or pipewrite() when there is data, room or no other end left.
StreamsSound == part = "shell" => St!TypeOK /\ St!FilesCounted /\ St!PipeEnds /\ St!NoLostWakeup

\* Streams: when the shell is done, the files and the output are what the lines mean.
Outcome == part = "shell" => St!Outcome

\* Streams, under the fairness of the scheduler: the shell and all it started end.
ShellTerminates == <>(part = "shell" => St!Done)

\* parsecmd() accepts the lines of the grammar and no others, and reads a tree that is
\* written as a line back as the same tree: |, & and ; bind and group as the grammar
\* says, and redirections belong to their command.
ParsesGrammar ==
  part = "parse" =>
    IF input.of = "line" THEN Sh!parsecmd(input.ts).ok <=> Sh!IsLine(input.ts)
    ELSE Sh!parsecmd(Sh!Unparse(input.tree)) = Sh!Parsed(input.tree, << >>)

\* copyin() and copyout() copy exactly the bytes asked for, copyinstr() finds the NUL
\* within max bytes, wherever the pages end; memmove() is right for every overlap;
\* and skipelem() takes a path apart.
CopiesExact ==
  part = "copy" =>
    CASE input.of = "copy" -> /\ Uc!CopyinExact(Plain, input.pt, input.va, input.len)
                              /\ Uc!CopyoutExact(Plain, input.pt, input.va, [i \in 1 .. input.len |-> 10 + i])
      [] input.of = "string" -> Uc!CopyinstrExact(input.mem, input.pt, input.va, input.len)
      [] input.of = "move" -> Uc!MemmoveExact([i \in 1 .. 5 |-> i], input.d, input.s, input.n)
      [] input.of = "path" -> Uc!PathExact(input.path)

\* Umalloc: malloc() and free() neither lose memory nor hand it out twice, and the free
\* list is in address order with neighbours joined.
HeapSound == part = "malloc" => Um!HeapPartition /\ Um!SortedJoined

\* Console: the bytes of a consolewrite() go out once each and in order; what is in the
\* buffer of uartputc() has an interrupt coming that sends it; and no consoleread()
\* sleeps on a complete line, or on a buffer that is full.
ConsoleSound == part = "console" => Co!TypeOK /\ Co!OutputInOrder /\ Co!NoStuckOutput /\ Co!NoStuckInput

\* Console: consoleread() returns the line as edited, nothing lost and nothing twice,
\* and a ^D after other input is kept for a read() of its own that returns 0.
InputDelivered == [][part = "console" => Co!Delivers /\ Co!EofReturns]_partsVars

\* Console: all that is typed is taken and all that is written is sent, if the
\* devices work, interrupts are taken and processes that can run do.
ConsoleFlows == <>(part = "console" => Co!Quiet)

\* Vm: every page is in exactly one place, on kalloc()'s free list, in one address space
\* or with the rest of the kernel, also when a call fails half way; a page table maps
\* exactly the pages below sz; and no process sees what was in a page before.
PagesPartition == part = "vm" => Vm!TypeOK /\ Vm!PagesPartition /\ Vm!ImageWhole /\ Vm!NoJunk

\* Vm: a call that fails, and the calls of others, leave a process's memory as it was;
\* a fork() that returns has given the child a copy of it, with the same permissions.
ImagesKept == [][part = "vm" => Vm!KeepsImages /\ Vm!CopiesAll]_partsVars

\* Log: log_write() never finds the log full: it has room for what the calls reserved.
NeverTooBig == part = "log" => Lg!NeverTooBig

\* Bio: with several requests in progress, their descriptors are three each and free_desc()
\* never meets a free one; and whoever sleeps waits for something that is coming.
ChainsSound == part = "blocks" => Bk!ChainsPartition /\ Bk!SleepersHaveWaker
=============================================================================
