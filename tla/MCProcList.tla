----------------------------- MODULE MCProcList -----------------------------
(***************************************************************************)
(* ProcList for TLC: the refinement of ProcListSpec, read off the pointers *)
(* by following them.                                                      *)
(***************************************************************************)
EXTENDS ProcListProofs, FiniteSets

\* The element n hops after the head of list l, as a reader of the pointers
\* finds it; Nil once the end is passed.
Hop(l) ==
  LET hop[n \in 0 .. NPROC] ==
        IF n = 0 THEN first[l]
        ELSE IF hop[n - 1] = Nil THEN Nil ELSE next[hop[n - 1]]
  IN  hop

\* The list that first and next_index_in_list spell out.
Chain(l) == LET hop == Hop(l)
                len == Cardinality({n \in 0 .. NPROC : hop[n] # Nil})
            IN  [i \in 1 .. len |-> hop[i - 1]]

\* Seen through the pointers alone, the lists behave like ProcListSpec: each
\* call takes effect at one instant, and nothing else moves a process.
Abstract == INSTANCE ProcListSpec WITH content <- [l \in Lists |-> Chain(l)]

ImplementsLists == Abstract!Spec
=============================================================================
