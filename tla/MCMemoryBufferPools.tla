--------------------------- MODULE MCMemoryBufferPools ---------------------------
(***************************************************************************)
(* MemoryBufferPools for TLC.                                              *)
(***************************************************************************)
EXTENDS MemoryBufferPools, TLC

MCRequests == {[size |-> 1, alignment |-> 2], [size |-> 3, alignment |-> 1],
               [size |-> 7, alignment |-> 1]}

Symmetry == Permutations(Threads) \cup Permutations(Buffers) \cup Permutations(Memories)
================================================================================
