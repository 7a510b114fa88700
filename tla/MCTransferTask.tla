----------------------------- MODULE MCTransferTask -----------------------------
(***************************************************************************)
(* TransferTask for TLC.                                                   *)
(***************************************************************************)
EXTENDS TransferTask

MCMaxCount == [i \in Items |-> IF i \in Late THEN 3 ELSE 1]
================================================================================
