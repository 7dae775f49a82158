-------------------------- MODULE MCOverwriteRestore --------------------------
(* OverwriteRestore for TLC.  No step tells one container from another, so *)
(* the runs without fairness may permute them.                             *)
EXTENDS OverwriteRestore, TLC

Symmetry == Permutations(Containers)
=============================================================================
