--------------------------- MODULE MCCmpCoherence ---------------------------
(* Model checking of CmpCoherence on small instances. The cores are        *)
(* interchangeable.                                                        *)
EXTENDS CmpCoherence, TLC

CoreSymmetry == Permutations(Cores)
=============================================================================
