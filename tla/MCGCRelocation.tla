---------------------------- MODULE MCGCRelocation ----------------------------
(* Instances of GCRelocation for TLC. *)
EXTENDS GCRelocation, TLC
Symmetry == Permutations(Thread) \cup Permutations(Obj) \cup Permutations(Value)
=============================================================================
