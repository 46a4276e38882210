------------------------- MODULE MCWriteCheckpoint -------------------------
(* Model-checking instance of WriteCheckpoint with interchangeable processes. *)
EXTENDS WriteCheckpoint, TLC

Symmetry == Permutations(Instance)
=============================================================================
