------------------------------ MODULE ByteHeap ------------------------------
(***************************************************************************)
(* What a region may expect of the memory it is given: blocks that no one  *)
(* else has, taken from bytes kept in reserve.  The bytes come from the    *)
(* operating system and go back there only while they are in reserve; what *)
(* has come is in reserve or in a block that is held, never lost.          *)
(***************************************************************************)
EXTENDS Integers

CONSTANTS
    Memory,     \* every byte the operating system may give
    Size        \* the sizes asked for

Bytes(b) == b.address .. b.address + b.size - 1

VARIABLES
    system,     \* the bytes that have come from the operating system
    reserve,    \* those that may be handed out
    held        \* the blocks handed out

Owned == UNION {Bytes(b) : b \in held}

Init == held = {} /\ system \in SUBSET Memory /\ reserve = system

Allocate == \E b \in [address : Memory, size : Size] :
    /\ held' = held \cup {b}
    /\ Bytes(b) \subseteq reserve /\ reserve' = reserve \ Bytes(b)
    /\ UNCHANGED system
Free == \E b \in held :
    /\ held' = held \ {b}
    /\ reserve' = reserve \cup Bytes(b)
    /\ UNCHANGED system
Grow ==
    /\ system \subseteq system' /\ system' \subseteq Memory
    /\ reserve' = reserve \cup (system' \ system)
    /\ UNCHANGED held
Shrink ==
    /\ system' \subseteq system /\ system \ system' \subseteq reserve
    /\ reserve' = reserve \ (system \ system')
    /\ UNCHANGED held

Next == Allocate \/ Free \/ Grow \/ Shrink
Spec == Init /\ [][Next]_<<system, reserve, held>>

(* Every byte that came from the operating system is in reserve or in one  *)
(* block, and in no two of these places.                                   *)
Accounted ==
    /\ reserve \cup Owned = system /\ reserve \cap Owned = {}
    /\ \A b, c \in held : b # c => Bytes(b) \cap Bytes(c) = {}
=============================================================================
