----------------------- MODULE MCCMPCacheController -----------------------
(* Model checking of CMPCacheController on small instances.               *)
EXTENDS CMPCacheController, TLC

Symmetry == Permutations(Procs) \cup Permutations(Entries)
===========================================================================
