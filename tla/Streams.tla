------------------------------ MODULE Streams -------------------------------
(***************************************************************************)
(* File descriptors, the file table and pipes (kernel/file.c, pipe.c, the  *)
(* descriptor calls of sysfile.c) under processes that fork, exec, wait    *)
(* and exit, and run the programs sh, echo and cat.                        *)
(*                                                                         *)
(* A step is a system call, or the part of one up to a sleep(); closing    *)
(* the last descriptor of a pipe is two, for fileclose() lets go of        *)
(* ftable.lock before it calls pipeclose().  p->killed is read once in a   *)
(* section: kill() runs in a process, and all processes run on one CPU.    *)
(* Process 0 is init.                                                      *)
(***************************************************************************)
EXTENDS Integers, Sequences, FiniteSets

CONSTANTS NPROC, NFILE, NOFILE,
          NPIPES,       \* pages that pipealloc() can get
          PIPESIZE,
          BUFSIZE,      \* what cat reads at a time
          Files,        \* names of files
          Scripts       \* what process 1 may run, and what should come of it: records
                        \* of code (a sequence of calls), kills, exact and end

Procs == 1 .. NPROC
Fds == 0 .. NOFILE - 1
FileIds == 1 .. NFILE
Pipes == 1 .. NPIPES

VARIABLES
  proc,         \* state, parent, code to run, chan, killed, p[2], pipeclose() due
  ofile,        \* p->ofile
  ftable,       \* ftable.file: ref, type, pipe or name, writable, off
  pipe,         \* data, readopen, writeopen; both FALSE when it is not allocated
  store,        \* the contents of the files; Absent when there is none
  out,          \* what was written to the console
  kills,        \* how many kill()s there were
  script        \* the member of Scripts

vars == <<proc, ofile, ftable, pipe, store, out, kills, script>>

NoFile == [ref |-> 0, type |-> "none", pipe |-> 0, name |-> "", writable |-> FALSE, off |-> 0]
NoPipe == [data |-> << >>, readopen |-> FALSE, writeopen |-> FALSE]
NoClose == [pipe |-> 0, writable |-> FALSE]
Absent == <<"absent">>
Unused == [state |-> "unused", parent |-> 0, code |-> << >>, chan |-> "", on |-> 0,
           killed |-> FALSE, fds |-> <<0, 0>>, close |-> NoClose]
Exit == << <<"exit">> >>

\* init has opened the console, made it its descriptors 0, 1 and 2, and forked.
InitFds == 3
Init ==
  /\ script \in Scripts
  /\ proc = [p \in Procs |-> IF p = 1 THEN [Unused EXCEPT !.state = "runnable", !.code = script.code] ELSE Unused]
  /\ ofile = [p \in Procs |-> [fd \in Fds |-> IF p = 1 /\ fd < InitFds THEN 1 ELSE 0]]
  /\ ftable = [f \in FileIds |-> IF f = 1 THEN [NoFile EXCEPT !.ref = 2 * InitFds, !.type = "console", !.writable = TRUE]
                                 ELSE NoFile]
  /\ pipe = [x \in Pipes |-> NoPipe]
  /\ store = [n \in Files |-> Absent]
  /\ out = << >> /\ kills = 0

Lowest(S) == CHOOSE x \in S : \A y \in S : x <= y
Min(a, b) == IF a < b THEN a ELSE b

FreeFds(p) == {fd \in Fds : ofile[p][fd] = 0}
FreeFiles == {f \in FileIds : ftable[f].ref = 0}
FreePipes == {x \in Pipes : ~pipe[x].readopen /\ ~pipe[x].writeopen}

-----------------------------------------------------------------------------
\* p runs, and op is its next call; a killed process makes no new call, but
\* goes on in the call it slept in.
At(p, op) ==
  /\ proc[p].state = "runnable" /\ proc[p].close = NoClose
  /\ Head(proc[p].code)[1] = op
  /\ proc[p].killed => proc[p].chan # "" \/ op = "exit"

Arg(p) == Head(proc[p].code)[2]
Returned(r, code) == [r EXCEPT !.code = code, !.chan = "", !.on = 0]
Next1(r) == Returned(r, Tail(r.code))
Return(p) == proc' = [proc EXCEPT ![p] = Next1(@)]
Quit(p) == proc' = [proc EXCEPT ![p] = Returned(@, Exit)]

\* The processes after wakeup() of those that sleep on c of pipe x.
Woken(c, x) == [q \in Procs |-> IF proc[q].state = "sleeping" /\ proc[q].chan = c /\ proc[q].on = x
                                THEN [proc[q] EXCEPT !.state = "runnable"] ELSE proc[q]]
Asleep(r, c, x) == [r EXCEPT !.state = "sleeping", !.chan = c, !.on = x]

\* pipe(): two files, a page and two descriptors, or everything is given back
\* and the shell panics.
SysPipe(p) ==
  LET f0 == Lowest(FreeFiles)
      f1 == Lowest(FreeFiles \ {f0})
      x == Lowest(FreePipes)
      fd0 == Lowest(FreeFds(p))
      fd1 == Lowest(FreeFds(p) \ {fd0})
  IN  /\ At(p, "pipe")
      /\ IF Cardinality(FreeFiles) < 2 \/ FreePipes = {} \/ Cardinality(FreeFds(p)) < 2
         THEN Quit(p) /\ UNCHANGED <<ofile, ftable, pipe>>
         ELSE /\ ftable' = [ftable EXCEPT
                    ![f0] = [NoFile EXCEPT !.ref = 1, !.type = "pipe", !.pipe = x],
                    ![f1] = [NoFile EXCEPT !.ref = 1, !.type = "pipe", !.pipe = x, !.writable = TRUE]]
              /\ pipe' = [pipe EXCEPT ![x] = [data |-> << >>, readopen |-> TRUE, writeopen |-> TRUE]]
              /\ ofile' = [ofile EXCEPT ![p][fd0] = f0, ![p][fd1] = f1]
              /\ proc' = [proc EXCEPT ![p] = [Next1(@) EXCEPT !.fds = <<fd0, fd1>>]]
      /\ UNCHANGED <<store, out, kills, script>>

\* Variant: the copied descriptors are not counted.
ForkUncounted(p) ==
  LET free == {q \in Procs : proc[q].state = "unused"}
      q == Lowest(free)
  IN  /\ At(p, "fork")
      /\ IF free = {} THEN Quit(p) /\ UNCHANGED ofile
         ELSE /\ proc' = [proc EXCEPT
                    ![p] = Next1(@),
                    ![q] = [Unused EXCEPT !.state = "runnable", !.parent = p, !.code = Arg(p), !.fds = proc[p].fds]]
              /\ ofile' = [ofile EXCEPT ![q] = ofile[p]]
      /\ UNCHANGED <<ftable, pipe, store, out, kills, script>>

\* fork1(): the child has the parent's descriptors; without a free proc the
\* shell panics.
Fork(p) ==
  LET free == {q \in Procs : proc[q].state = "unused"}
      q == Lowest(free)
  IN  /\ At(p, "fork")
      /\ IF free = {} THEN Quit(p) /\ UNCHANGED <<ofile, ftable>>
         ELSE /\ proc' = [proc EXCEPT
                    ![p] = Next1(@),
                    ![q] = [Unused EXCEPT !.state = "runnable", !.parent = p, !.code = Arg(p), !.fds = proc[p].fds]]
              /\ ofile' = [ofile EXCEPT ![q] = ofile[p]]
              /\ ftable' = [f \in FileIds |->
                    [ftable[f] EXCEPT !.ref = @ + Cardinality({fd \in Fds : ofile[p][fd] = f})]]
      /\ UNCHANGED <<pipe, store, out, kills, script>>

\* fileclose() of p's descriptor fd, after which p has the locals r.
Fileclose(p, fd, r) ==
  LET f == ofile[p][fd]
      last == ftable[f].ref = 1
  IN  /\ ofile' = [ofile EXCEPT ![p][fd] = 0]
      /\ ftable' = [ftable EXCEPT ![f] = IF last THEN NoFile ELSE [@ EXCEPT !.ref = @ - 1]]
      /\ proc' = [proc EXCEPT ![p] =
            IF last /\ ftable[f].type = "pipe"
            THEN [r EXCEPT !.close = [pipe |-> ftable[f].pipe, writable |-> ftable[f].writable]] ELSE r]
      /\ UNCHANGED <<pipe, store, out, kills, script>>

\* close(fd), close(p[i]); the shell closes no descriptor that is not open.
Close(p) ==
  \E op \in {"close", "closep"} :
    LET fd == IF op = "close" THEN Arg(p) ELSE proc[p].fds[Arg(p) + 1]
    IN  /\ At(p, op)
        /\ Fileclose(p, fd, Next1(proc[p]))

\* Variant: a reader is not woken when the last writer closes.
PipeCloseQuiet(p) ==
  LET x == proc[p].close.pipe
      w == proc[p].close.writable
      new == IF w THEN [pipe[x] EXCEPT !.writeopen = FALSE] ELSE [pipe[x] EXCEPT !.readopen = FALSE]
  IN  /\ proc[p].close # NoClose
      /\ pipe' = [pipe EXCEPT ![x] = IF new.readopen \/ new.writeopen THEN new ELSE NoPipe]
      /\ proc' = [(IF w THEN proc ELSE Woken("nwrite", x)) EXCEPT ![p].close = NoClose]
      /\ UNCHANGED <<ofile, ftable, store, out, kills, script>>

\* Variant: the page is freed when one end is closed.
PipeCloseFrees(p) ==
  LET x == proc[p].close.pipe
      w == proc[p].close.writable
  IN  /\ proc[p].close # NoClose
      /\ pipe' = [pipe EXCEPT ![x] = NoPipe]
      /\ proc' = [Woken(IF w THEN "nread" ELSE "nwrite", x) EXCEPT ![p].close = NoClose]
      /\ UNCHANGED <<ofile, ftable, store, out, kills, script>>

PipeClose(p) ==
  LET x == proc[p].close.pipe
      w == proc[p].close.writable
      new == IF w THEN [pipe[x] EXCEPT !.writeopen = FALSE] ELSE [pipe[x] EXCEPT !.readopen = FALSE]
  IN  /\ proc[p].close # NoClose
      /\ pipe' = [pipe EXCEPT ![x] = IF new.readopen \/ new.writeopen THEN new ELSE NoPipe]
      /\ proc' = [Woken(IF w THEN "nread" ELSE "nwrite", x) EXCEPT ![p].close = NoClose]
      /\ UNCHANGED <<ofile, ftable, store, out, kills, script>>

\* dup(p[i]), after a close() that has made a descriptor free.
Dup(p) ==
  LET fd == Lowest(FreeFds(p))
      f == ofile[p][proc[p].fds[Arg(p) + 1]]
  IN  /\ At(p, "dupp")
      /\ Return(p)
      /\ ofile' = [ofile EXCEPT ![p][fd] = f]
      /\ ftable' = [ftable EXCEPT ![f].ref = @ + 1]
      /\ UNCHANGED <<pipe, store, out, kills, script>>

\* open(file, mode) of a redirection: the shell exits when it fails.
Open(p) ==
  LET n == Arg(p)
      mode == Head(proc[p].code)[3]
      f == Lowest(FreeFiles)
      fd == Lowest(FreeFds(p))
  IN  /\ At(p, "open")
      /\ IF (mode = "read" /\ store[n] = Absent) \/ FreeFiles = {} \/ FreeFds(p) = {}
         THEN Quit(p) /\ UNCHANGED <<ofile, ftable, store>>
         ELSE /\ Return(p)
              /\ ofile' = [ofile EXCEPT ![p][fd] = f]
              /\ ftable' = [ftable EXCEPT ![f] = [NoFile EXCEPT !.ref = 1, !.type = "inode", !.name = n,
                                                                !.writable = mode # "read"]]
              /\ store' = [store EXCEPT ![n] = IF mode = "trunc" \/ @ = Absent THEN << >> ELSE @]
      /\ UNCHANGED <<pipe, out, kills, script>>

-----------------------------------------------------------------------------
(* read() and write(), as cat and echo use them                            *)

\* Variant: cat goes on at the end of its input.
CatCopiesOn(r, data) == Returned(r, << <<"write", data, "exit">>, <<"cat">> >>)

\* What cat does with what it read: it copies it, and exits at the end.
CatCopies(r, data) ==
  Returned(r, IF data = << >> THEN Exit ELSE << <<"write", data, "exit">>, <<"cat">> >>)

\* piperead() for cat's descriptor 0, and fileread() of a file.  The console is at
\* its end.
Read(p) ==
  LET f == ftable[ofile[p][0]]
      x == f.pipe
      n == Min(BUFSIZE, Len(pipe[x].data))
      left == Len(store[f.name]) - f.off
      m == IF left < 0 THEN 0 ELSE Min(BUFSIZE, left)
  IN  /\ At(p, "cat")
      /\ \/ /\ f.type = "console" \/ f.writable
            /\ Quit(p) /\ UNCHANGED <<ftable, pipe>>
         \/ /\ f.type = "pipe" /\ ~f.writable
            /\ UNCHANGED ftable
            /\ IF pipe[x].data = << >> /\ pipe[x].writeopen
               THEN /\ UNCHANGED pipe
                    /\ proc' = [proc EXCEPT ![p] = IF @.killed THEN Returned(@, Exit) ELSE Asleep(@, "nread", x)]
               ELSE /\ pipe' = [pipe EXCEPT ![x].data = SubSeq(@, n + 1, Len(@))]
                    /\ proc' = [Woken("nwrite", x) EXCEPT ![p] = CatCopies(@, SubSeq(pipe[x].data, 1, n))]
         \/ /\ f.type = "inode" /\ ~f.writable
            /\ ftable' = [ftable EXCEPT ![ofile[p][0]].off = @ + m]
            /\ proc' = [proc EXCEPT ![p] = CatCopies(@, SubSeq(store[f.name], f.off + 1, f.off + m))]
            /\ UNCHANGED pipe
      /\ UNCHANGED <<ofile, store, out, kills, script>>

\* What follows a write() that failed: cat exits, echo goes on.
WriteFailed(r) == Returned(r, IF Head(r.code)[3] = "exit" THEN Exit ELSE Tail(r.code))

\* Data that replaces what is in the sequence s from offset off on.
Overwrite(s, off, data) == SubSeq(s, 1, off) \o data \o SubSeq(s, off + Len(data) + 1, Len(s))

\* pipewrite() to descriptor 1 up to the point where the pipe is full or the data
\* ends, consolewrite(), and filewrite().
Write(p) ==
  LET f == ftable[ofile[p][1]]
      x == f.pipe
      data == Arg(p)
      n == Min(PIPESIZE - Len(pipe[x].data), Len(data))
      rest == <<"write", SubSeq(data, n + 1, Len(data)), Head(proc[p].code)[3]>>
  IN  /\ At(p, "write")
      /\ \/ /\ ~f.writable \/ (f.type = "pipe" /\ (~pipe[x].readopen \/ proc[p].killed))
            /\ proc' = [proc EXCEPT ![p] = WriteFailed(@)]
            /\ UNCHANGED <<ftable, pipe, store, out>>
         \/ /\ f.type = "console"
            /\ out' = out \o data /\ Return(p) /\ UNCHANGED <<ftable, pipe, store>>
         \/ /\ f.type = "pipe" /\ f.writable /\ pipe[x].readopen /\ ~proc[p].killed
            /\ pipe' = [pipe EXCEPT ![x].data = @ \o SubSeq(data, 1, n)]
            /\ proc' = [Woken("nread", x) EXCEPT ![p] =
                  IF n = Len(data) THEN Next1(@)
                  ELSE Asleep([@ EXCEPT !.code = <<rest>> \o Tail(@)], "nwrite", x)]
            /\ UNCHANGED <<ftable, store, out>>
         \/ /\ f.type = "inode" /\ f.writable
            /\ store' = [store EXCEPT ![f.name] = Overwrite(@, f.off, data)]
            /\ ftable' = [ftable EXCEPT ![ofile[p][1]].off = @ + Len(data)]
            /\ Return(p) /\ UNCHANGED <<pipe, out>>
      /\ UNCHANGED <<ofile, kills, script>>

\* exec() of echo, of cat, or of a program that is not there.
Echo(argv) == [i \in 1 .. Len(argv) - 1 |-> <<"write", <<argv[i + 1]>>, "next">>] \o Exit
Exec(p) ==
  LET argv == Arg(p)
  IN  /\ At(p, "exec")
      /\ proc' = [proc EXCEPT ![p] = Returned(@,
            CASE argv[1] = "echo" -> Echo(argv) [] argv[1] = "cat" -> << <<"cat">> >> [] OTHER -> Exit)]
      /\ UNCHANGED <<ofile, ftable, pipe, store, out, kills, script>>

-----------------------------------------------------------------------------
(* wait(), exit() and kill()                                               *)

Children(p) == {q \in Procs : proc[q].state # "unused" /\ proc[q].parent = p}

Wait(p) ==
  LET dead == {q \in Children(p) : proc[q].state = "zombie"}
  IN  /\ At(p, "wait")
      /\ proc' = IF dead # {} THEN [proc EXCEPT ![p] = Next1(@), ![Lowest(dead)] = Unused]
                 ELSE IF Children(p) = {} \/ proc[p].killed THEN [proc EXCEPT ![p] = Next1(@)]
                 ELSE [proc EXCEPT ![p] = Asleep(@, "wait", 0)]
      /\ UNCHANGED <<ofile, ftable, pipe, store, out, kills, script>>

\* exit() closes the descriptors one after the other ...
ExitClose(p) ==
  /\ At(p, "exit")
  /\ Fds # FreeFds(p)
  /\ Fileclose(p, Lowest(Fds \ FreeFds(p)), proc[p])

\* ... gives the children to init, and wakes the parent.
ExitZombie(p) ==
  /\ At(p, "exit") /\ Fds = FreeFds(p)
  /\ proc' = [q \in Procs |->
        IF q = p THEN [proc[p] EXCEPT !.state = "zombie"]
        ELSE IF proc[q].parent = p /\ proc[q].state # "unused" THEN [proc[q] EXCEPT !.parent = 0]
        ELSE IF q = proc[p].parent /\ proc[q].state = "sleeping" /\ proc[q].chan = "wait"
        THEN [proc[q] EXCEPT !.state = "runnable"] ELSE proc[q]]
  /\ UNCHANGED <<ofile, ftable, pipe, store, out, kills, script>>

\* init waits for the processes that have lost their parent.
InitWait(q) ==
  /\ q # 1 /\ proc[q].state = "zombie" /\ proc[q].parent = 0
  /\ proc' = [proc EXCEPT ![q] = Unused]
  /\ UNCHANGED <<ofile, ftable, pipe, store, out, kills, script>>

Kill(q) ==
  /\ kills < script.kills /\ q # 1 /\ proc[q].state \in {"runnable", "sleeping"} /\ ~proc[q].killed
  /\ proc' = [proc EXCEPT ![q].killed = TRUE, ![q].state = "runnable"]
  /\ kills' = kills + 1
  /\ UNCHANGED <<ofile, ftable, pipe, store, out, script>>

\* usertrap() of a killed process calls exit().
KilledExit(p) ==
  /\ proc[p].state = "runnable" /\ proc[p].killed /\ proc[p].close = NoClose
  /\ proc[p].chan = "" /\ Head(proc[p].code)[1] # "exit"
  /\ Quit(p)
  /\ UNCHANGED <<ofile, ftable, pipe, store, out, kills, script>>

\* The shell has exited, and init has reaped all the others.
Done == proc[1].state = "zombie" /\ \A p \in Procs \ {1} : proc[p].state = "unused"
Finished == Done /\ UNCHANGED vars

Step(p) ==
  \/ SysPipe(p) \/ Fork(p) \/ Close(p) \/ PipeClose(p) \/ Dup(p) \/ Open(p) \/ Read(p) \/ Write(p)
  \/ Exec(p) \/ Wait(p) \/ ExitClose(p) \/ ExitZombie(p) \/ InitWait(p) \/ KilledExit(p)

Next == (\E p \in Procs : Step(p) \/ Kill(p)) \/ Finished

Spec == Init /\ [][Next]_vars

\* As long as some process can run, one of them does.
FairSpec == Spec /\ WF_vars(\E p \in Procs : Step(p))

-----------------------------------------------------------------------------
(* Properties                                                              *)

\* Every variable keeps its type.
TypeOK ==
  /\ \A p \in Procs : /\ proc[p].state \in {"unused", "runnable", "sleeping", "zombie"}
                      /\ proc[p].parent \in Procs \cup {0}
                      /\ proc[p].state \in {"runnable", "sleeping"} => proc[p].code # << >>
  /\ ofile \in [Procs -> [Fds -> FileIds \cup {0}]]
  /\ \A f \in FileIds : ftable[f].ref \in Nat
  /\ \A x \in Pipes : Len(pipe[x].data) <= PIPESIZE

\* A file's reference count is the number of descriptors for it in all processes:
\* fork(), dup(), close() and exit() neither lose nor add one.
FilesCounted ==
  \A f \in FileIds :
    ftable[f].ref = Cardinality({<<p, fd>> \in Procs \X Fds : ofile[p][fd] = f}) + IF f = 1 THEN InitFds ELSE 0

\* An end of a pipe is open exactly while a file for it is, or its pipeclose() is
\* still to come: the page is freed once, by the last close, and nobody who has a
\* descriptor for it is left with a freed page.
PipeEnds ==
  \A x \in Pipes : \A w \in BOOLEAN :
    (IF w THEN pipe[x].writeopen ELSE pipe[x].readopen)
    <=> \/ \E f \in FileIds : ftable[f].type = "pipe" /\ ftable[f].pipe = x /\ ftable[f].writable = w
        \/ \E p \in Procs : proc[p].close = [pipe |-> x, writable |-> w]

\* Nobody sleeps who could go on: a reader sleeps on an empty pipe that can still be
\* written, a writer on a full one that can still be read, a parent while no child
\* of it is dead.
NoLostWakeup ==
  \A p \in Procs : proc[p].state = "sleeping" =>
    CASE proc[p].chan = "nread" -> pipe[proc[p].on].data = << >> /\ pipe[proc[p].on].writeopen
      [] proc[p].chan = "nwrite" -> Len(pipe[proc[p].on].data) = PIPESIZE /\ pipe[proc[p].on].readopen
      [] proc[p].chan = "wait" -> Children(p) # {} /\ \A q \in Children(p) : proc[q].state # "zombie"

\* The shell's lines have done what they mean, unless a process has been killed or (not
\* exact) a table is too small: pipes lose and reorder nothing, each process reads
\* and writes the files it was redirected to, and a line has ended before the next.
Outcome == Done /\ kills = 0 /\ script.exact => out = script.end.out /\ store = script.end.store

\* The shell comes to its end, and so does every process it started: no pipeline
\* waits for an end of a pipe that some process has left open.
Terminates == <>Done
=============================================================================
