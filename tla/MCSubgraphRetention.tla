-------------------------- MODULE MCSubgraphRetention --------------------------
(***************************************************************************)
(* SubgraphRetention for TLC: two references of one cache.                 *)
(***************************************************************************)
EXTENDS SubgraphRetention, TLC

CONSTANTS o1, o2, cacheA

MCSharedOf == o1 :> cacheA @@ o2 :> cacheA

Symmetry == Permutations(Objects)
================================================================================
