-------------------------- MODULE MCCheckpointLease --------------------------
(***************************************************************************)
(* Model-checking instance of CheckpointLease: the instances are           *)
(* interchangeable.  The symmetry is for runs of invariants only; the run  *)
(* with CheckpointReturns, a liveness property, does without it.           *)
(***************************************************************************)
EXTENDS CheckpointLease, TLC

Symmetry == Permutations(Instance)
=============================================================================
