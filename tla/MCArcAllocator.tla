--------------------------- MODULE MCArcAllocator ---------------------------
(* ArcAllocator on a small instance: two threads, two slots of one object. *)
EXTENDS ArcAllocator

CONSTANTS t1, t2, o1, o2, o3, o4, o5

Symmetry == Permutations(Threads) \cup Permutations(Objects)
=============================================================================
