--------------------------- MODULE MCValueTracker ---------------------------
(* Instances of ValueTracker for TLC. *)
EXTENDS ValueTracker, TLC

Symmetry == Permutations(Cpus) \cup Permutations(Parts)
=============================================================================
