------------------------------ MODULE MCUFetch ------------------------------
(* Model checking of UFetch: two lines that follow each other in the       *)
(* program and compete for one way.                                        *)
EXTENDS UFetch, TLC

CONSTANTS first, second

Following == (first :> second) @@ (second :> NoLine)
=============================================================================
