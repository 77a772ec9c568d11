------------------------------- MODULE MCProc -------------------------------
(***************************************************************************)
(* Proc for TLC: argument sets a configuration file cannot write, and a    *)
(* bound on what the processes of a run do.                                *)
(***************************************************************************)
EXTENDS Proc

\* sys_sleep(0), sys_sleep(1) and a negative argument.
SomeSleeps == {0, 1, -1}

\* Bound: init moves to CPU 1 by setcpu() before it forks, and nobody else moves.
InitMoves == /\ nextpid > 2 => proc[InitProc].cpu_num = 1
             /\ \A p \in Procs \ {InitProc} : proc[p].cpu_num = 0
=============================================================================
