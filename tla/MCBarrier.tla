------------------------------- MODULE MCBarrier -------------------------------
(***************************************************************************)
(* Barrier for TLC: three waiters and a dropper, and a _phase that wraps   *)
(* after three rounds.                                                     *)
(***************************************************************************)
EXTENDS Barrier, TLC

CONSTANTS w1, w2, w3, d1

MCWaiters == {w1, w2, w3}
MCDroppers == {d1}
================================================================================
