----------------------------- MODULE MCVolumeSwap -----------------------------
(* VolumeSwap for TLC: two entry names give every overlap between the      *)
(* volume and the snapshot (neither, either, both, disjoint).              *)
EXTENDS VolumeSwap
=============================================================================
