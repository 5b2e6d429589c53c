----------------------------- MODULE StableHeap -----------------------------
(***************************************************************************)
(* What relocation promises the program: its objects are cells that stay   *)
(* where they are.  A thread's access reads the one value of an object or  *)
(* replaces it, and nothing else ever changes it.                          *)
(***************************************************************************)
CONSTANTS Thread, Obj, Value, None
VARIABLES
    val,        \* the value of each object
    access      \* the access a thread is in, with what it read or wrote

heapVars == <<val, access>>

Init == val \in [Obj -> Value] /\ access = [t \in Thread |-> None]

Read(t, o) ==
    /\ access' = [access EXCEPT ![t] = <<"read", o, val[o]>>]
    /\ UNCHANGED val
Write(t, o, v) ==
    /\ access' = [access EXCEPT ![t] = <<"write", o, v>>]
    /\ val' = [val EXCEPT ![o] = v]
Finish(t) ==
    /\ access' = [access EXCEPT ![t] = None]
    /\ UNCHANGED val

Next ==
    \E t \in Thread :
        \/ access[t] = None /\ \E o \in Obj : Read(t, o) \/ \E v \in Value : Write(t, o, v)
        \/ access[t] # None /\ Finish(t)
Spec == Init /\ [][Next]_heapVars
=============================================================================
