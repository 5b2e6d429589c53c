------------------------------- MODULE RWLock -------------------------------
(***************************************************************************)
(* What IReadWriteLock promises: any number of read sections or one write  *)
(* section at a time.                                                      *)
(***************************************************************************)
CONSTANTS
    Section,    \* the read sections the threads may be in
    Writer
VARIABLES
    reading,    \* the sections between lockRead and unlockRead
    writing     \* the writers between lockWrite and unlockWrite

lockVars == <<reading, writing>>

Init == reading = {} /\ writing = {}

LockRead(s) == writing = {} /\ reading' = reading \cup {s} /\ UNCHANGED writing
UnlockRead(s) == reading' = reading \ {s} /\ UNCHANGED writing
LockWrite(w) ==
    /\ reading = {} /\ writing = {}
    /\ writing' = {w}
    /\ UNCHANGED reading
UnlockWrite(w) == w \in writing /\ writing' = {} /\ UNCHANGED reading

Next ==
    \/ \E s \in Section : LockRead(s) \/ UnlockRead(s)
    \/ \E w \in Writer : LockWrite(w) \/ UnlockWrite(w)
Spec == Init /\ [][Next]_lockVars

(* No writer shares the lock. *)
Exclusion ==
    /\ writing # {} => reading = {}
    /\ \A v, w \in writing : v = w
=============================================================================
