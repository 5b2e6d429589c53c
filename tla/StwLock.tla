------------------------------- MODULE StwLock -------------------------------
(***************************************************************************)
(* The stop-the-world lock: MutexReadWriteLock (a std::shared_mutex and a  *)
(* count per thread that makes read sections nest), the critical sections  *)
(* of the user threads, the RAIISTWLock of getHealedPointer, which user    *)
(* threads and the GC thread both run, and the GC thread that stops and    *)
(* resumes the world once per cycle.  User threads are not suspended.      *)
(*                                                                         *)
(* A definition name_change is a faulty variant of name that no            *)
(* specification here uses.                                                *)
(***************************************************************************)
EXTENDS Integers, FiniteSets, Sequences, SequencesExt

CONSTANTS
    Thread,             \* user threads
    GC,                 \* the GC thread; it marks as well as switches
    Depth,              \* bound on the sections a thread nests
    WriterPreference    \* the shared_mutex keeps new readers out while a
                        \* writer waits; the standard leaves this open

Client == Thread \cup {GC}
ASSUME ClientAssumption == GC \notin Thread
ASSUME DepthAssumption == Depth \in Nat \ {0}
ASSUME PreferenceAssumption == WriterPreference \in BOOLEAN

VARIABLES
    gcPhase,
    shared, exclusive, waiting,     \* the mutex: its readers, its writer, one waiting
    read_locked_cnt,                \* thread_local
    owns,                           \* the sections a client is in, innermost
                                    \* last: whether each took the lock
    healing,                        \* the clients whose innermost section, or
                                    \* the one they enter, is getHealedPointer's
    entering                        \* the clients about to take the lock

mutexVars == <<shared, exclusive, waiting>>
sectionVars == <<read_locked_cnt, owns, healing, entering>>
vars == <<gcPhase, mutexVars, sectionVars>>

Outside(c) == owns[c] = <<>> /\ c \notin entering
MayNest(c) == c \notin entering \cup healing /\ Len(owns[c]) < Depth

-----------------------------------------------------------------------------
(* EnterCriticalSection, and RAIISTWLock(true), which takes no lock in the *)
(* REMARK phase.  Nothing nests in the latter.                             *)
EnterCriticalSection(t) ==
    /\ MayNest(t)
    /\ entering' = entering \cup {t}
    /\ UNCHANGED <<gcPhase, mutexVars, read_locked_cnt, owns, healing>>
RAIISTWLock_always(c) ==
    /\ MayNest(c) /\ healing' = healing \cup {c}
    /\ entering' = entering \cup {c}
    /\ UNCHANGED <<gcPhase, mutexVars, read_locked_cnt, owns>>
RAIISTWLock(c) ==
    /\ MayNest(c) /\ healing' = healing \cup {c}
    /\ IF gcPhase = "REMARK"
       THEN owns' = [owns EXCEPT ![c] = Append(@, FALSE)] /\ UNCHANGED entering
       ELSE entering' = entering \cup {c} /\ UNCHANGED owns
    /\ UNCHANGED <<gcPhase, mutexVars, read_locked_cnt>>

SharedIsFree == ~exclusive /\ (WriterPreference => ~waiting)
lockRead_notReentrant(c) ==
    /\ c \in entering /\ SharedIsFree
    /\ shared' = shared \cup {c}
    /\ read_locked_cnt' = [read_locked_cnt EXCEPT ![c] = @ + 1]
    /\ owns' = [owns EXCEPT ![c] = Append(@, TRUE)]
    /\ entering' = entering \ {c}
    /\ UNCHANGED <<gcPhase, exclusive, waiting, healing>>
lockRead(c) ==
    /\ c \in entering
    /\ read_locked_cnt[c] = 0 => SharedIsFree
    /\ shared' = shared \cup {c}
    /\ read_locked_cnt' = [read_locked_cnt EXCEPT ![c] = @ + 1]
    /\ owns' = [owns EXCEPT ![c] = Append(@, TRUE)]
    /\ entering' = entering \ {c}
    /\ UNCHANGED <<gcPhase, exclusive, waiting, healing>>

(* The innermost section ends: unlockRead, if it took the lock. *)
Leave_unlocksFirst(c) ==
    /\ c \notin entering /\ owns[c] # <<>>
    /\ owns' = [owns EXCEPT ![c] = Front(@)] /\ healing' = healing \ {c}
    /\ IF Last(owns[c])
       THEN /\ read_locked_cnt' = [read_locked_cnt EXCEPT ![c] = @ - 1]
            /\ shared' = shared \ {c}
       ELSE UNCHANGED <<read_locked_cnt, shared>>
    /\ UNCHANGED <<gcPhase, exclusive, waiting, entering>>
Leave(c) ==
    /\ c \notin entering /\ owns[c] # <<>>
    /\ owns' = [owns EXCEPT ![c] = Front(@)] /\ healing' = healing \ {c}
    /\ IF Last(owns[c])
       THEN /\ read_locked_cnt' = [read_locked_cnt EXCEPT ![c] = @ - 1]
            /\ shared' = IF read_locked_cnt[c] = 1 THEN shared \ {c} ELSE shared
       ELSE UNCHANGED <<read_locked_cnt, shared>>
    /\ UNCHANGED <<gcPhase, exclusive, waiting, entering>>

Sections(c) == RAIISTWLock(c) \/ lockRead(c) \/ Leave(c)

-----------------------------------------------------------------------------
(* The GC thread.  It heals pointers while it marks, before it stops the   *)
(* world and in REMARK.                                                    *)
Marking == \/ gcPhase = "CONCURRENT_MARK" /\ ~waiting /\ ~exclusive
           \/ gcPhase = "REMARK"
MarkSome == Marking /\ Sections(GC)

SwitchPhase(from, to) ==
    /\ gcPhase = from /\ gcPhase' = to
    /\ Outside(GC) /\ ~waiting
    /\ UNCHANGED <<mutexVars, sectionVars>>
startGC == SwitchPhase("NONE", "CONCURRENT_MARK")
(* lockWrite(true): the GC thread waits, then has the mutex. *)
stop_the_world ==
    /\ gcPhase = "CONCURRENT_MARK" /\ Outside(GC) /\ ~waiting /\ ~exclusive
    /\ waiting' = TRUE
    /\ UNCHANGED <<gcPhase, shared, exclusive, sectionVars>>
lockWrite ==
    /\ waiting /\ shared = {}
    /\ exclusive' = TRUE /\ waiting' = FALSE
    /\ UNCHANGED <<gcPhase, shared, sectionVars>>
triggerSATBMark == exclusive /\ SwitchPhase("CONCURRENT_MARK", "REMARK")
selectRelocationSet == SwitchPhase("REMARK", "SWEEP")
resume_the_world ==
    /\ gcPhase = "SWEEP" /\ exclusive
    /\ exclusive' = FALSE
    /\ UNCHANGED <<gcPhase, shared, waiting, sectionVars>>
endGC == ~exclusive /\ SwitchPhase("SWEEP", "NONE")

Init ==
    /\ gcPhase = "NONE"
    /\ shared = {} /\ exclusive = FALSE /\ waiting = FALSE
    /\ read_locked_cnt = [c \in Client |-> 0]
    /\ owns = [c \in Client |-> <<>>] /\ healing = {} /\ entering = {}

Stop ==
    stop_the_world \/ lockWrite \/ triggerSATBMark \/ selectRelocationSet \/ resume_the_world
Next ==
    \/ startGC \/ Stop \/ MarkSome \/ endGC
    \/ \E t \in Thread : EnterCriticalSection(t) \/ Sections(t)
Spec == Init /\ [][Next]_vars

-----------------------------------------------------------------------------
(* Every variable keeps to the range of the field it stands for. *)
TypeOK ==
    /\ gcPhase \in {"NONE", "CONCURRENT_MARK", "REMARK", "SWEEP"}
    /\ {shared, healing, entering} \subseteq SUBSET Client /\ {exclusive, waiting} \subseteq BOOLEAN
    /\ read_locked_cnt \in [Client -> Nat]
    /\ owns \in [Client -> Seq(BOOLEAN)] /\ \A c \in Client : Len(owns[c]) <= Depth

(* A thread has the mutex exactly while one of its sections took it, and   *)
(* its count is the number of those: unlockRead never finds it at zero and *)
(* throws (MutexReadWriteLock.cpp:13), whatever the phase was when each    *)
(* section began.                                                          *)
Took(c) == {i \in DOMAIN owns[c] : owns[c][i]}
Owned(c) == Cardinality(Took(c))
CountsSections ==
    \A c \in Client :
        read_locked_cnt[c] = Owned(c) /\ (c \in shared <=> Owned(c) > 0)

(* While the world is stopped no user thread is in a critical section.     *)
WorldStopped == exclusive => \A t \in Thread : Owned(t) = 0
=============================================================================
