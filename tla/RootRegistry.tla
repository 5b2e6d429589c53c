---------------------------- MODULE RootRegistry ----------------------------
(***************************************************************************)
(* What the marker expects of the root set: pointers come and go, and a    *)
(* scan hands over each root there is, once, and nothing else.             *)
(***************************************************************************)
EXTENDS Bags

CONSTANT Ptr
VARIABLES
    roots,      \* the pointers registered
    handed      \* what the last scan handed over, a bag

Init == roots = {} /\ handed = EmptyBag

Add(p) == p \notin roots /\ roots' = roots \cup {p} /\ UNCHANGED handed
Remove(p) == p \in roots /\ roots' = roots \ {p} /\ UNCHANGED handed
Scan == handed' = SetToBag(roots) /\ UNCHANGED roots
Forget == handed' = EmptyBag /\ UNCHANGED roots

Next == Scan \/ Forget \/ \E p \in Ptr : Add(p) \/ Remove(p)
Spec == Init /\ [][Next]_<<roots, handed>>
=============================================================================
