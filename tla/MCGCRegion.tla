----------------------------- MODULE MCGCRegion -----------------------------
(* An instance of GCRegion for TLC. *)
EXTENDS GCRegion, TLC
Symmetry == Permutations(Thread) \cup Permutations(Marker)
(* A torn sweep goes wherever old bytes lead it: those states are checked  *)
(* and not followed.                                                       *)
UntilTorn == ~torn
=============================================================================
