---------------------------- MODULE MCObjectLifetime ----------------------------
(***************************************************************************)
(* ObjectLifetime for TLC: threads and references are interchangeable.     *)
(***************************************************************************)
EXTENDS ObjectLifetime, TLC

CONSTANTS t1, t2, r1, r2
Symmetry == Permutations({t1, t2}) \cup Permutations({r1, r2})
================================================================================
