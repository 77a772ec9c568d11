------------------------------ MODULE BlockSpec -----------------------------
(***************************************************************************)
(* What the buffer cache promises the file system (the comment at the top  *)
(* of bio.c): one copy of each block, used by one process at a time.  A    *)
(* block's content changes only when the process that holds it writes it.  *)
(***************************************************************************)
CONSTANTS Blocks, Data, Procs, Nobody

VARIABLES content,      \* what a bread() of the block finds
          user          \* the process between bread() and brelse()

blockVars == <<content, user>>

BlockInit == content \in [Blocks -> Data] /\ user = [b \in Blocks |-> Nobody]

Take(p, b) == /\ user[b] = Nobody
              /\ user' = [user EXCEPT ![b] = p]
              /\ UNCHANGED content

Change(p, b, d) == /\ user[b] = p
                   /\ content' = [content EXCEPT ![b] = d]
                   /\ UNCHANGED user

Give(p, b) == /\ user[b] = p
              /\ user' = [user EXCEPT ![b] = Nobody]
              /\ UNCHANGED content

BlockNext == \E p \in Procs, b \in Blocks :
               Take(p, b) \/ Give(p, b) \/ \E d \in Data : Change(p, b, d)

Spec == BlockInit /\ [][BlockNext]_blockVars
=============================================================================
