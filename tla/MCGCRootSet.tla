----------------------------- MODULE MCGCRootSet -----------------------------
(* Instances of GCRootSet for TLC. *)
EXTENDS GCRootSet, TLC
Symmetry == Permutations(Ptr)
=============================================================================
