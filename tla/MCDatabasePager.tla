---------------------------- MODULE MCDatabasePager ----------------------------
(***************************************************************************)
(* DatabasePager for TLC.  PagedLODs, read threads and recorders are       *)
(* interchangeable in the safety runs.                                     *)
(***************************************************************************)
EXTENDS DatabasePager, TLC

Symmetry ==
    Permutations(PagedLODs) \cup Permutations(Readers) \cup Permutations(Recorders)
================================================================================
