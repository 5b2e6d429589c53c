--------------------------- MODULE MCGCThreadLoop ---------------------------
(* Instances of GCThreadLoop for TLC. *)
EXTENDS GCThreadLoop
=============================================================================
