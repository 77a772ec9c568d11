------------------------------- MODULE MCBio --------------------------------
(* Bio with a disk on which every block holds something of its own, and one *)
(* block that processes change.                                             *)
EXTENDS BioProofs

CONSTANTS b1, b2, b3, p1, p2, p3, new

MCProcs == {p1, p2, p3}
MCUses == {<<p1, b1>>, <<p1, b2>>, <<p2, b1>>, <<p3, b3>>}
MCBlocks == {b1, b2, b3}
MCData == MCBlocks \cup {new}
MCStore0 == [b \in MCBlocks |-> b]
MCChanges == {<<b1, new>>}
=============================================================================
