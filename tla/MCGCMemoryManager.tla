-------------------------- MODULE MCGCMemoryManager --------------------------
(* Instances of GCMemoryManager for TLC. *)
EXTENDS GCMemoryManager, TLC
CONSTANTS t1, t2
Hash == (t1 :> 0) @@ (t2 :> 1)
=============================================================================
