------------------------- MODULE MCRecordAndSubmitTask -------------------------
(***************************************************************************)
(* RecordAndSubmitTask for TLC: a task with two command graphs.            *)
(***************************************************************************)
EXTENDS RecordAndSubmitTask, TLC
================================================================================
