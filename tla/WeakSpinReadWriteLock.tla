----------------------- MODULE WeakSpinReadWriteLock -----------------------
(***************************************************************************)
(* WeakSpinReadWriteLock, the lock of the phase and of the pointers: a     *)
(* count of read sections and a flag a writer raises before it waits for   *)
(* the count to fall to zero.  A reader tests the flag and then counts     *)
(* itself, and tests it no second time: a writer may come in between.      *)
(***************************************************************************)
EXTENDS LockClients

VARIABLES
    read_cnt, write_flag,
    pc          \* where each client is

vars == <<read_cnt, write_flag, pc>>

At(c, step) == pc[c] = step
Goto(c, step) == pc' = [pc EXCEPT ![c] = step]
Step(c, from, to) == At(c, from) /\ Goto(c, to)

Begin(c) == Step(c, "out", "lock") /\ UNCHANGED <<read_cnt, write_flag>>
End(c) == Step(c, "in", "unlock") /\ UNCHANGED <<read_cnt, write_flag>>

(* A failed test spins. *)
lockRead_untested(s) ==
    /\ \/ Step(s, "lock", "count") /\ UNCHANGED read_cnt
       \/ Step(s, "count", "in") /\ read_cnt' = read_cnt + 1
    /\ UNCHANGED write_flag
lockRead(s) ==
    /\ \/ ~write_flag /\ Step(s, "lock", "count") /\ UNCHANGED read_cnt
       \/ Step(s, "count", "in") /\ read_cnt' = read_cnt + 1
    /\ UNCHANGED write_flag

unlockRead(s) ==
    /\ Step(s, "unlock", "out") /\ read_cnt' = read_cnt - 1
    /\ UNCHANGED write_flag

(* The wait after the flag is up. *)
Wait(w) == read_cnt = 0 /\ Step(w, "wait", "in") /\ UNCHANGED write_flag
(* The exchange is weak: it may fail for no reason. *)
RaiseFlag_byStore(w) == Step(w, "flagCAS", "wait") /\ write_flag' = TRUE
RaiseFlag(w) ==
    \/ ~write_flag /\ Step(w, "flagCAS", "wait") /\ write_flag' = TRUE
    \/ Step(w, "flagCAS", "lock") /\ UNCHANGED write_flag
(* It loads the count, then the flag, and starts again unless both are     *)
(* clear.                                                                  *)
lockWrite(w) ==
    /\ \/ read_cnt = 0 /\ Step(w, "lock", "flag") /\ UNCHANGED write_flag
       \/ /\ Step(w, "flag", IF write_flag THEN "lock" ELSE "flagCAS")
          /\ UNCHANGED write_flag
       \/ RaiseFlag(w)
       \/ Wait(w)
    /\ UNCHANGED read_cnt

unlockWrite(w) ==
    /\ Step(w, "unlock", "out") /\ write_flag' = FALSE
    /\ UNCHANGED read_cnt

Init ==
    /\ read_cnt = 0 /\ write_flag = FALSE
    /\ pc = [c \in Client |-> "out"]

Next ==
    \/ \E c \in Client : Begin(c) \/ End(c)
    \/ \E s \in Section : lockRead(s) \/ unlockRead(s)
    \/ \E w \in Writer : lockWrite(w) \/ unlockWrite(w)
Spec == Init /\ [][Next]_vars

-----------------------------------------------------------------------------
Inside(c) == pc[c] \in {"in", "unlock"}
reading == {s \in Section : Inside(s)}
writing == {w \in Writer : Inside(w)}

Uncounted == {s \in Section : At(s, "count")}

(* The flag is up for one writer exactly, the one that waits or writes,    *)
(* and no section is counted twice or lost.                                *)
FlagIsOneWriter ==
    /\ \A v, w \in Writer :
           (Inside(v) \/ At(v, "wait")) /\ (Inside(w) \/ At(w, "wait")) => v = w
    /\ write_flag <=> \E w \in Writer : Inside(w) \/ At(w, "wait")
    /\ read_cnt = Cardinality(reading)

(* A reader that shares the lock with a writer is one that had tested the  *)
(* flag and not yet counted itself when the writer came in; no other shares*)
(* it.                                                                     *)
Lock == INSTANCE WeakRWLock WITH admitted <- Uncounted
ImplementsLock == Lock!Spec
=============================================================================
