------------------------------ MODULE MCCacheIO ------------------------------
(* CacheIO for TLC: worker slots are interchangeable.                      *)
EXTENDS CacheIO

Symmetry == Permutations(Slots) \cup Permutations(Paths)
=============================================================================
