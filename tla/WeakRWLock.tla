----------------------------- MODULE WeakRWLock -----------------------------
(***************************************************************************)
(* What the lock of the phase and of the pointers gives its clients, which *)
(* is less than RWLock: a reader is admitted while nobody writes, and      *)
(* enters later, whether or not a writer has come in since.  A reader that *)
(* shares the lock with a writer was admitted before that writer came in;  *)
(* nobody is admitted under a writer, a writer waits for the sections that *)
(* were entered, and writers exclude each other.                           *)
(***************************************************************************)
CONSTANTS
    Section,    \* the read sections the threads may be in
    Writer
VARIABLES
    reading,    \* the sections between lockRead and unlockRead
    writing,    \* the writers between lockWrite and unlockWrite
    admitted    \* the sections that may enter and have not yet

lockVars == <<reading, writing, admitted>>

Init == reading = {} /\ writing = {} /\ admitted = {}

Admit(s) ==
    /\ writing = {}
    /\ admitted' = admitted \cup {s}
    /\ UNCHANGED <<reading, writing>>
Enter(s) ==
    /\ s \in admitted
    /\ reading' = reading \cup {s} /\ admitted' = admitted \ {s}
    /\ UNCHANGED writing
UnlockRead(s) == reading' = reading \ {s} /\ UNCHANGED <<writing, admitted>>
LockWrite(w) ==
    /\ reading = {} /\ writing = {}
    /\ writing' = {w}
    /\ UNCHANGED <<reading, admitted>>
UnlockWrite(w) == w \in writing /\ writing' = {} /\ UNCHANGED <<reading, admitted>>

Next ==
    \/ \E s \in Section : Admit(s) \/ Enter(s) \/ UnlockRead(s)
    \/ \E w \in Writer : LockWrite(w) \/ UnlockWrite(w)
Spec == Init /\ [][Next]_lockVars
=============================================================================
