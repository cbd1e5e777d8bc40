----------------------------- MODULE MCTripPaths -----------------------------
(***************************************************************************)
(* TripPaths for TLC.  Recorders and scanners run one code each, so their  *)
(* names may be permuted when no liveness is checked.                      *)
(***************************************************************************)
EXTENDS TripPaths, TLC

Symmetry == Permutations(Recorders) \cup Permutations(Scanners)
=============================================================================
