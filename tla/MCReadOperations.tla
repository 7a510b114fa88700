---------------------------- MODULE MCReadOperations ----------------------------
(***************************************************************************)
(* ReadOperations for TLC: a tile of two files, one of which contains two  *)
(* more, the other a single one.                                           *)
(***************************************************************************)
EXTENDS ReadOperations, TLC

CONSTANTS w1, w2, c1, c2

MCRequested == (c1 :> <<"group", "single">>) @@ (c2 :> <<"leaf", "tile">>)
MCRepeated == (c1 :> <<"leaf", "leaf">>) @@ (c2 :> <<"leaf", "group">>)
MCContents ==
    ("group" :> <<"leaf", "tile">>) @@ ("single" :> <<"leaf">>)
        @@ ("leaf" :> <<>>) @@ ("tile" :> <<>>)
================================================================================
