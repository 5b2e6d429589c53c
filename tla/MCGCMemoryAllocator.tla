------------------------- MODULE MCGCMemoryAllocator -------------------------
(* Instances of GCMemoryAllocator for TLC. *)
EXTENDS GCMemoryAllocator, TLC
CONSTANTS t1, t2
MadeBy == t1 :> {"SMALL"} @@ t2 :> {"MEDIUM", "LARGE"}
UsedBy == t1 :> {} @@ t2 :> {"MEDIUM"}
Symmetry == Permutations({M0, M1})
=============================================================================
