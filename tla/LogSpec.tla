------------------------------ MODULE LogSpec -------------------------------
(***************************************************************************)
(* What the log promises its users (the comment at the top of log.c): the  *)
(* updates of the system calls between begin_op() and end_op() reach the   *)
(* disk together, at a moment when no system call is active, or not at all.*)
(* A crash falls back to the last such moment.                             *)
(***************************************************************************)
EXTENDS Integers

CONSTANTS Blocks,       \* home block numbers
          Data          \* block contents

VARIABLES mem,          \* what the file system code reads
          durable,      \* what it will read after a crash now
          active        \* system calls between begin_op() and end_op()

specVars == <<mem, durable, active>>

SpecInit == /\ mem \in [Blocks -> Data]
            /\ durable = mem
            /\ active = 0

Begin == active' = active + 1 /\ UNCHANGED <<mem, durable>>

Write(b, d) == /\ active > 0
               /\ mem' = [mem EXCEPT ![b] = d]
               /\ UNCHANGED <<durable, active>>

End == active > 0 /\ active' = active - 1 /\ UNCHANGED <<mem, durable>>

Commit == active = 0 /\ durable' = mem /\ UNCHANGED <<mem, active>>

Crash == mem' = durable /\ active' = 0 /\ UNCHANGED durable

SpecNext == \/ Begin \/ End \/ Commit \/ Crash
            \/ \E b \in Blocks, d \in Data : Write(b, d)

Spec == SpecInit /\ [][SpecNext]_specVars
=============================================================================
