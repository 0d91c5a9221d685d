------------------------------- MODULE MCHeap -------------------------------
(* Three owners in a heap that holds their blocks with gaps between them.   *)
EXTENDS Heap, TLC

CONSTANTS o1, o2, o3

MCOwner == {o1, o2, o3}
Symmetry == Permutations(MCOwner)
=============================================================================
