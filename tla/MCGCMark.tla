------------------------------ MODULE MCGCMark ------------------------------
(* Instances of GCMark for TLC. *)
EXTENDS GCMark, TLC, SequencesExt
PoolOfEach == [m \in Mutator |-> IF m = SetToSeq(Mutator)[1] THEN 1 ELSE PoolCount]
Symmetry == Permutations(Root) \cup Permutations(Obj) \cup Permutations({M0, M1})
=============================================================================
