------------------------- MODULE MCFunctionalCaches -------------------------
(* Two cores (four L1 caches); every set of a cache has fewer ways than    *)
(* there are blocks, so that every fill replaces.                          *)
EXTENDS FunctionalCaches, TLC
BlockSymmetry == Permutations(Blocks)
=============================================================================
