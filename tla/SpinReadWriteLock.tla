-------------------------- MODULE SpinReadWriteLock --------------------------
(***************************************************************************)
(* SpinReadWriteLock: one atomic integer, 0 when unlocked, the number of   *)
(* read sections, or -1 for a writer, moved by loads and weak              *)
(* compare-and-swaps.                                                      *)
(*                                                                         *)
(* A definition name_change is a faulty variant of name that no            *)
(* specification here uses.                                                *)
(***************************************************************************)
EXTENDS LockClients

VARIABLES
    lock_state,
    pc,         \* where each client is
    seen        \* c_read_cnt, c_lock_state: what it loaded

vars == <<lock_state, pc, seen>>

At(c, step) == pc[c] = step
Goto(c, step) == pc' = [pc EXCEPT ![c] = step]
(* The load and the test after it; a failed test spins, or returns. *)
Load(c, from, to) ==
    /\ At(c, from) /\ Goto(c, to)
    /\ seen' = [seen EXCEPT ![c] = lock_state]
    /\ UNCHANGED lock_state
(* compare_exchange_weak, which may fail for no reason. *)
CompareExchange(c, from, new, to, retry) ==
    /\ At(c, from) /\ UNCHANGED seen
    /\ \/ lock_state = seen[c] /\ lock_state' = new /\ Goto(c, to)
       \/ Goto(c, retry) /\ UNCHANGED lock_state

Begin(c) == At(c, "out") /\ Goto(c, "lock") /\ UNCHANGED <<lock_state, seen>>
End(c) == At(c, "in") /\ Goto(c, "unlock") /\ UNCHANGED <<lock_state, seen>>

lockRead_storesLoad(s) ==
    \/ lock_state >= 0 /\ Load(s, "lock", "lockCAS")
    \/ /\ At(s, "lockCAS") /\ Goto(s, "in")
       /\ lock_state' = seen[s] + 1
       /\ UNCHANGED seen
lockRead(s) ==
    \/ lock_state >= 0 /\ Load(s, "lock", "lockCAS")
    \/ CompareExchange(s, "lockCAS", seen[s] + 1, "in", "lock")

unlockRead(s) ==
    \/ Load(s, "unlock", IF lock_state <= 0 THEN "out" ELSE "unlockCAS")
    \/ CompareExchange(s, "unlockCAS", seen[s] - 1, "out", "unlock")

lockWrite_overReaders(w) ==
    \/ lock_state >= 0 /\ Load(w, "lock", "lockCAS")
    \/ CompareExchange(w, "lockCAS", -1, "in", "lock")
lockWrite(w) ==
    \/ lock_state = 0 /\ Load(w, "lock", "lockCAS")
    \/ CompareExchange(w, "lockCAS", -1, "in", "lock")

unlockWrite(w) ==
    \/ Load(w, "unlock", IF lock_state >= 0 THEN "out" ELSE "unlockCAS")
    \/ CompareExchange(w, "unlockCAS", 0, "out", "unlock")

Init ==
    /\ lock_state = 0
    /\ pc = [c \in Client |-> "out"] /\ seen = [c \in Client |-> 0]

Next ==
    \/ \E c \in Client : Begin(c) \/ End(c)
    \/ \E s \in Section : lockRead(s) \/ unlockRead(s)
    \/ \E w \in Writer : lockWrite(w) \/ unlockWrite(w)
Spec == Init /\ [][Next]_vars

-----------------------------------------------------------------------------
(* lock_state, the steps and the loaded values keep to their ranges. *)
TypeOK ==
    /\ lock_state \in -1..Cardinality(Section)
    /\ pc \in [Client -> {"out", "lock", "lockCAS", "in", "unlock", "unlockCAS"}]
    /\ seen \in [Client -> Int]

(* A section lasts until the exchange of its unlock. *)
Inside(c) == pc[c] \in {"in", "unlock", "unlockCAS"}
reading == {s \in Section : Inside(s)}
writing == {w \in Writer : Inside(w)}

(* The one integer says who holds the lock: a writer alone, or so many     *)
(* read sections; no early return of an unlock leaves it behind.           *)
StateIsExact ==
    lock_state = IF writing # {} THEN -1 ELSE Cardinality(reading)

(* It is the lock RWLock asks for. *)
Lock == INSTANCE RWLock
Exclusion == Lock!Exclusion
ImplementsRWLock == Lock!Spec
=============================================================================
