----------------------------- MODULE ObjectSpace -----------------------------
(***************************************************************************)
(* What the memory allocator promises: an address it has handed out is     *)
(* handed out to nobody else until the collector has retired its region    *)
(* and released it, and nothing new appears in a retired region.           *)
(***************************************************************************)
CONSTANTS
    Chunk,      \* where regions may lie
    Offset      \* the places of objects in a region
VARIABLES
    objects,    \* the addresses handed out: pairs of a chunk and an offset
    retired     \* the chunks being evacuated or cleared

spaceVars == <<objects, retired>>

Init == objects = {} /\ retired = {}

Allocate(a, k) ==
    /\ a \notin retired /\ <<a, k>> \notin objects
    /\ objects' = objects \cup {<<a, k>>}
    /\ UNCHANGED retired
Retire ==
    /\ objects' = objects
    /\ retired \subseteq retired' /\ retired' \subseteq Chunk
Release(a) ==
    /\ a \in retired
    /\ objects' = {o \in objects : o[1] # a} /\ retired' = retired \ {a}

Next ==
    \/ Retire
    \/ \E a \in Chunk, k \in Offset : Allocate(a, k)
    \/ \E a \in Chunk : Release(a)
Spec == Init /\ [][Next]_spaceVars
=============================================================================
