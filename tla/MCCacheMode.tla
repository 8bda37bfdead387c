---------------------------- MODULE MCCacheMode ----------------------------
(* Few blocks of four pages, the least number a quarter of which is one.   *)
EXTENDS CacheMode

Symmetry == Permutations(Blocks)
=============================================================================
