--------------------------- MODULE MCViewerThreading ---------------------------
(***************************************************************************)
(* A task with two command graphs, the first of them a secondary one that  *)
(* the second executes, and its transfer thread; a task with one graph and *)
(* no transfer, served by a run thread; all graphs draw in one window.     *)
(***************************************************************************)
EXTENDS ViewerThreading, TLC

CONSTANTS t1, t2, p1, s1, x1, r2, win

MCTaskOf == p1 :> t1 @@ s1 :> t1 @@ x1 :> t1 @@ r2 :> t2
MCRole == p1 :> "primary" @@ s1 :> "secondary" @@ x1 :> "transfer" @@ r2 :> "run"
MCExecutor == p1 :> s1
MCWindowOf == p1 :> win @@ s1 :> win @@ x1 :> win @@ r2 :> win
================================================================================
