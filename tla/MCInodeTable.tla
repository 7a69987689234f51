---------------------------- MODULE MCInodeTable ----------------------------
(* InodeTable for TLC: two directories that may both hold a file x.        *)
EXTENDS InodeTable

CONSTANTS d, e, x

MCNames == {d, e, x}
MCPaths == {<<>>, <<d>>, <<e>>, <<d, x>>, <<e, x>>}
MCCached == {<<d, x>>, <<e, x>>}
Symmetry == Permutations({d, e})
=============================================================================
