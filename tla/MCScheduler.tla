---------------------------- MODULE MCScheduler ----------------------------
(***************************************************************************)
(* Scheduler for TLC.  The goroutines that scan run one code each, so     *)
(* their names may be permuted when no liveness is checked.                *)
(***************************************************************************)
EXTENDS Scheduler, TLC

Symmetry == Permutations(Goroutines)
=============================================================================
