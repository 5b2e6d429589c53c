-------------------------- MODULE SpinLockProofs --------------------------
(***************************************************************************)
(* SpinReadWriteLock is the lock RWLock asks for, for any number of read   *)
(* sections and writers.  WeakSpinReadWriteLock keeps writers apart and    *)
(* counts exactly, and is the weaker lock WeakRWLock describes: only a     *)
(* reader caught between its test and its count shares it with a writer.   *)
(***************************************************************************)
EXTENDS MCSpinReadWriteLock, FiniteSetTheorems, TLAPS

(* What a client has loaded when it comes to its exchange passed the test  *)
(* of the loop it is in.                                                   *)
LoadTested ==
    /\ \A s \in Section : /\ At(s, "lockCAS") => seen[s] >= 0
                          /\ At(s, "unlockCAS") => seen[s] > 0
    /\ \A w \in Writer : /\ At(w, "lockCAS") => seen[w] = 0
                         /\ At(w, "unlockCAS") => seen[w] < 0
Types ==
    /\ lock_state \in Int
    /\ pc \in [Client -> {"out", "lock", "lockCAS", "in", "unlock", "unlockCAS"}]
    /\ seen \in [Client -> Int]
(* A writer that is inside is so alone. *)
Alone == writing # {} => reading = {} /\ \A v, w \in writing : v = w
Inv == Types /\ LoadTested /\ StateIsExact /\ Alone

LEMMA ReadingFinite == IsFiniteSet(reading) /\ Cardinality(reading) \in 0..Cardinality(Section)
<1>1. reading \subseteq Section
    BY DEF reading
<1>2. Cardinality(Section) \in Nat
    BY FS_CardinalityType, ClientAssumption
<1> QED
    BY <1>1, <1>2, FS_Subset, FS_CardinalityType, ClientAssumption

(* A step of the lock RWLock specifies, or none. *)
LockStep == [Lock!Next]_(Lock!lockVars)

(* A step that leaves every client on its side of the lock keeps who holds *)
(* it and what lock_state is.                                              *)
LEMMA SameHolders ==
    ASSUME Inv, NEW c \in Client,
           NEW step \in {"out", "lock", "lockCAS", "in", "unlock", "unlockCAS"},
           pc' = [pc EXCEPT ![c] = step], UNCHANGED lock_state,
           (step \in {"in", "unlock", "unlockCAS"}) <=> Inside(c)
    PROVE  StateIsExact' /\ Alone' /\ LockStep
<1>1. reading' = reading /\ writing' = writing
    BY DEF Inv, Types, reading, writing, Inside, Client
<1> QED
    BY <1>1 DEF Inv, StateIsExact, Alone, LockStep, Lock!lockVars

LEMMA BeginEnd ==
    ASSUME Inv, NEW c \in Client, Begin(c) \/ End(c)
    PROVE  Inv' /\ LockStep
<1>1. Types' /\ LoadTested'
    BY DEF Inv, Types, LoadTested, Begin, End, Goto, At, Client
<1>2. StateIsExact' /\ Alone' /\ LockStep
  <2>1. CASE Begin(c)
    BY <2>1, SameHolders DEF Begin, Goto, At, Inside
  <2>2. CASE End(c)
    BY <2>2, SameHolders DEF End, Goto, At, Inside
  <2> QED
    BY <2>1, <2>2
<1> QED
    BY <1>1, <1>2 DEF Inv

LEMMA LockRead ==
    ASSUME Inv, NEW s \in Section, lockRead(s)
    PROVE  Inv' /\ LockStep
<1>1. s \in Client /\ s \notin Writer
    BY ClientAssumption DEF Client
<1>2. Types' /\ LoadTested'
    BY <1>1 DEF Inv, Types, LoadTested, lockRead, Load, CompareExchange, Goto, At, Client
<1>3. CASE Load(s, "lock", "lockCAS") \/ (At(s, "lockCAS") /\ Goto(s, "lock") /\ UNCHANGED lock_state)
    BY <1>1, <1>2, <1>3, SameHolders DEF Inv, Load, Goto, At, Inside
<1>4. CASE At(s, "lockCAS") /\ lock_state = seen[s] /\ lock_state' = seen[s] + 1 /\ Goto(s, "in")
  <2>1. writing = {}
    BY <1>4 DEF Inv, StateIsExact, LoadTested
  <2>2. writing' = {} /\ s \notin reading /\ reading' = reading \cup {s}
    BY <1>1, <1>4, <2>1 DEF Inv, Types, Goto, At, reading, writing, Inside, Client
  <2>3. Cardinality(reading') = Cardinality(reading) + 1
    BY <2>2, ReadingFinite, FS_AddElement
  <2> QED
    BY <1>2, <1>4, <2>1, <2>2, <2>3 DEF Inv, StateIsExact, Alone, LockStep, Lock!Next, Lock!LockRead
<1> QED
    BY <1>3, <1>4 DEF lockRead, CompareExchange

LEMMA UnlockRead ==
    ASSUME Inv, NEW s \in Section, unlockRead(s)
    PROVE  Inv' /\ LockStep
<1>1. s \in Client /\ s \notin Writer
    BY ClientAssumption DEF Client
<1>2. Types'
    BY <1>1 DEF Inv, Types, unlockRead, Load, CompareExchange, Goto, At, Client
<1>3. ASSUME s \in reading
      PROVE  lock_state > 0 /\ writing = {} /\ Cardinality(reading) > 0
    BY <1>3, ReadingFinite, FS_EmptySet DEF Inv, StateIsExact, Alone
<1>4. CASE Load(s, "unlock", IF lock_state <= 0 THEN "out" ELSE "unlockCAS")
  <2>1. s \in reading
    BY <1>4 DEF Load, At, reading, Inside
  <2>2. Load(s, "unlock", "unlockCAS")
    BY <1>4, <2>1, <1>3 DEF Inv, Types
  <2>3. LoadTested'
    BY <1>1, <1>3, <2>1, <2>2 DEF Inv, Types, LoadTested, Load, Goto, At, Client
  <2> QED
    BY <1>1, <1>2, <2>2, <2>3, SameHolders DEF Inv, Load, Goto, At, Inside
<1>5. CASE CompareExchange(s, "unlockCAS", seen[s] - 1, "out", "unlock")
  <2>1. LoadTested'
    BY <1>1, <1>5 DEF Inv, Types, LoadTested, CompareExchange, Goto, At, Client
  <2>2. CASE Goto(s, "unlock") /\ UNCHANGED lock_state
    BY <1>1, <1>2, <1>5, <2>1, <2>2, SameHolders DEF Inv, CompareExchange, Goto, At, Inside
  <2>3. CASE lock_state = seen[s] /\ lock_state' = seen[s] - 1 /\ Goto(s, "out")
    <3>1. s \in reading
      BY <1>5 DEF CompareExchange, At, reading, Inside
    <3>2. writing' = {} /\ reading' = reading \ {s}
      BY <1>1, <1>3, <2>3, <3>1 DEF Inv, Types, Goto, reading, writing, Inside, Client
    <3>3. Cardinality(reading') = Cardinality(reading) - 1
      BY <3>1, <3>2, ReadingFinite, FS_RemoveElement
    <3> QED
      BY <1>2, <1>3, <2>1, <2>3, <3>1, <3>2, <3>3
         DEF Inv, StateIsExact, Alone, LockStep, Lock!Next, Lock!UnlockRead
  <2> QED
    BY <1>5, <2>2, <2>3 DEF CompareExchange
<1> QED
    BY <1>4, <1>5 DEF unlockRead

LEMMA LockWrite ==
    ASSUME Inv, NEW w \in Writer, lockWrite(w)
    PROVE  Inv' /\ LockStep
<1>1. w \in Client /\ w \notin Section
    BY ClientAssumption DEF Client
<1>2. Types' /\ LoadTested'
    BY <1>1 DEF Inv, Types, LoadTested, lockWrite, Load, CompareExchange, Goto, At, Client
<1>3. CASE Load(w, "lock", "lockCAS") \/ (At(w, "lockCAS") /\ Goto(w, "lock") /\ UNCHANGED lock_state)
    BY <1>1, <1>2, <1>3, SameHolders DEF Inv, Load, Goto, At, Inside
<1>4. CASE At(w, "lockCAS") /\ lock_state = seen[w] /\ lock_state' = -1 /\ Goto(w, "in")
  <2>1. lock_state = 0 /\ writing = {}
    BY <1>4 DEF Inv, StateIsExact, LoadTested
  <2>2. reading = {}
    BY <2>1, ReadingFinite, FS_EmptySet DEF Inv, StateIsExact
  <2>3. reading' = {} /\ writing' = {w}
    BY <1>1, <1>4, <2>1, <2>2 DEF Inv, Types, Goto, At, reading, writing, Inside, Client
  <2> QED
    BY <1>2, <1>4, <2>1, <2>2, <2>3
       DEF Inv, StateIsExact, Alone, LockStep, Lock!Next, Lock!LockWrite
<1> QED
    BY <1>3, <1>4 DEF lockWrite, CompareExchange

LEMMA UnlockWrite ==
    ASSUME Inv, NEW w \in Writer, unlockWrite(w)
    PROVE  Inv' /\ LockStep
<1>1. w \in Client /\ w \notin Section
    BY ClientAssumption DEF Client
<1>2. Types'
    BY <1>1 DEF Inv, Types, unlockWrite, Load, CompareExchange, Goto, At, Client
<1>3. ASSUME w \in writing
      PROVE  lock_state = -1 /\ reading = {} /\ writing = {w}
    BY <1>3 DEF Inv, StateIsExact, Alone
<1>4. CASE Load(w, "unlock", IF lock_state >= 0 THEN "out" ELSE "unlockCAS")
  <2>1. w \in writing
    BY <1>4 DEF Load, At, writing, Inside
  <2>2. Load(w, "unlock", "unlockCAS")
    BY <1>4, <2>1, <1>3
  <2>3. LoadTested'
    BY <1>1, <1>3, <2>1, <2>2 DEF Inv, Types, LoadTested, Load, Goto, At, Client
  <2> QED
    BY <1>1, <1>2, <2>2, <2>3, SameHolders DEF Inv, Load, Goto, At, Inside
<1>5. CASE CompareExchange(w, "unlockCAS", 0, "out", "unlock")
  <2>1. LoadTested'
    BY <1>1, <1>5 DEF Inv, Types, LoadTested, CompareExchange, Goto, At, Client
  <2>2. CASE Goto(w, "unlock") /\ UNCHANGED lock_state
    BY <1>1, <1>2, <1>5, <2>1, <2>2, SameHolders DEF Inv, CompareExchange, Goto, At, Inside
  <2>3. CASE lock_state' = 0 /\ Goto(w, "out")
    <3>1. w \in writing
      BY <1>5 DEF CompareExchange, At, writing, Inside
    <3>2. writing' = {} /\ reading' = {}
      BY <1>1, <1>3, <2>3, <3>1 DEF Inv, Types, Goto, reading, writing, Inside, Client
    <3> QED
      BY <1>2, <1>3, <2>1, <2>3, <3>1, <3>2, FS_EmptySet
         DEF Inv, StateIsExact, Alone, LockStep, Lock!Next, Lock!UnlockWrite, Alone
  <2> QED
    BY <1>5, <2>2, <2>3 DEF CompareExchange
<1> QED
    BY <1>4, <1>5 DEF unlockWrite

LEMMA InitInv == Init => Inv
<1> SUFFICES ASSUME Init PROVE Inv
    OBVIOUS
<1>1. reading = {} /\ writing = {}
    BY DEF Init, reading, writing, Inside, Client
<1> QED
    BY <1>1, FS_EmptySet DEF Init, Inv, Types, LoadTested, StateIsExact, Alone, At, Client

LEMMA NextInv == Inv /\ [Next]_vars => Inv' /\ LockStep
<1> SUFFICES ASSUME Inv, [Next]_vars PROVE Inv' /\ LockStep
    OBVIOUS
<1>1. CASE UNCHANGED vars
    BY <1>1 DEF vars, Inv, Types, LoadTested, StateIsExact, Alone, reading, writing, Inside, At,
                LockStep, Lock!lockVars
<1>2. CASE Next
    BY <1>2, BeginEnd, LockRead, UnlockRead, LockWrite, UnlockWrite DEF Next
<1> QED
    BY <1>1, <1>2

LEMMA Invariant == Spec => []Inv
<1>1. Inv /\ [Next]_vars => Inv'
    BY NextInv
<1> QED
    BY InitInv, <1>1, PTL DEF Spec

(* The variables keep to their ranges. *)
THEOREM SpinTypeCorrect == Spec => []TypeOK
<1>1. Inv => TypeOK
    BY ReadingFinite, FS_CardinalityType, ClientAssumption DEF Inv, Types, StateIsExact, TypeOK
<1> QED
    BY <1>1, Invariant, PTL

(* lock_state says who holds the lock. *)
THEOREM SpinStateIsExact == Spec => []StateIsExact
    BY Invariant, PTL DEF Inv

(* A writer shares the lock with nobody. *)
THEOREM SpinExclusion == Spec => []Exclusion
<1>1. Inv => Exclusion
    BY DEF Inv, Alone, Exclusion, Lock!Exclusion
<1> QED
    BY <1>1, Invariant, PTL

(* Every run of the spin lock is one of the lock its clients were promised.*)
THEOREM SpinImplementsRWLock == Spec => ImplementsRWLock
<1>1. Init => Lock!Init
    BY DEF Init, Lock!Init, reading, writing, Inside, Client
<1>2. Inv /\ [Next]_vars => [Lock!Next]_(Lock!lockVars)
    BY NextInv DEF LockStep
<1> QED
    BY <1>1, <1>2, Invariant, PTL DEF Spec, ImplementsRWLock, Lock!Spec

-----------------------------------------------------------------------------
(* The weak lock. *)
WeakSteps == {"out", "lock", "count", "flag", "flagCAS", "wait", "in", "unlock"}
WeakTypes ==
    /\ read_cnt \in Int
    /\ write_flag \in BOOLEAN
    /\ weakpc \in [Weak!Client -> WeakSteps]

(* The steps of a reader are not those of a writer. *)
WeakRoles ==
    /\ \A s \in Section : ~Weak!At(s, "flag") /\ ~Weak!At(s, "flagCAS") /\ ~Weak!At(s, "wait")
    /\ \A w \in Writer : ~Weak!At(w, "count")
Raised(w) == Weak!Inside(w) \/ Weak!At(w, "wait")
OneWriter == \A v, w \in Writer : Raised(v) /\ Raised(w) => v = w
FlagIsUp == write_flag <=> \E w \in Writer : Raised(w)
CountIsExact == read_cnt = Cardinality(Weak!reading)

WeakInv == WeakTypes /\ WeakRoles /\ OneWriter /\ FlagIsUp /\ CountIsExact

(* A step of the lock WeakRWLock specifies, or none. *)
WeakLockStep == [Weak!Lock!Next]_(Weak!Lock!lockVars)

LEMMA SectionClient == \A s \in Section : s \in Weak!Client /\ s \notin Writer
    BY ClientAssumption DEF Weak!Client
LEMMA WriterClient == \A w \in Writer : w \in Weak!Client /\ w \notin Section
    BY ClientAssumption DEF Weak!Client

LEMMA WeakReadingFinite ==
    IsFiniteSet(Weak!reading) /\ Cardinality(Weak!reading) \in Nat
    /\ (Cardinality(Weak!reading) = 0 <=> Weak!reading = {})
<1>1. Weak!reading \subseteq Section
    BY DEF Weak!reading
<1> QED
    BY <1>1, FS_Subset, FS_CardinalityType, FS_EmptySet, ClientAssumption

(* A step of one client moves only that client. *)
LEMMA Moved ==
    ASSUME WeakTypes, NEW c \in Weak!Client, NEW step \in WeakSteps, Weak!Goto(c, step)
    PROVE  /\ weakpc' \in [Weak!Client -> WeakSteps] /\ weakpc'[c] = step
           /\ \A d \in Weak!Client : d # c => weakpc'[d] = weakpc[d]
    BY DEF WeakTypes, Weak!Goto

(* A step that keeps its client on its side of the lock and of the flag    *)
(* keeps who holds the lock, who raised the flag and what the reader has   *)
(* counted; at most it admits a reader.                                    *)
LEMMA WeakSameHolders ==
    ASSUME WeakInv, NEW c \in Weak!Client, NEW step \in WeakSteps, Weak!Goto(c, step),
           UNCHANGED <<read_cnt, write_flag>>,
           (step \in {"in", "unlock"}) <=> Weak!Inside(c),
           (step = "wait") <=> Weak!At(c, "wait"), ~Weak!At(c, "count"),
           step = "count" => c \in Section /\ ~write_flag,
           step \in {"flag", "flagCAS"} => c \in Writer
    PROVE  WeakInv' /\ WeakLockStep
<1>1. weakpc' \in [Weak!Client -> WeakSteps] /\ weakpc'[c] = step
      /\ \A d \in Weak!Client : d # c => weakpc'[d] = weakpc[d]
    BY Moved DEF WeakInv
<1>2. WeakTypes'
    BY <1>1 DEF WeakInv, WeakTypes
<1>3. WeakRoles'
  <2>1. ASSUME NEW s \in Section PROVE (~Weak!At(s, "flag") /\ ~Weak!At(s, "flagCAS") /\ ~Weak!At(s, "wait"))'
      BY <1>1, <2>1, SectionClient DEF WeakInv, WeakRoles, Weak!At
  <2>2. ASSUME NEW w \in Writer PROVE (~Weak!At(w, "count"))'
      BY <1>1, <2>2, WriterClient DEF WeakInv, WeakRoles, Weak!At
  <2> QED
      BY <2>1, <2>2 DEF WeakRoles
<1>4. \A d \in Weak!Client : (Weak!Inside(d)' <=> Weak!Inside(d)) /\ (Raised(d)' <=> Raised(d))
    BY <1>1 DEF Weak!Inside, Raised, Weak!At
<1>5. Weak!reading' = Weak!reading /\ Weak!writing' = Weak!writing
    BY <1>4 DEF Weak!reading, Weak!writing, Weak!Client
<1>6. OneWriter' /\ FlagIsUp' /\ CountIsExact'
  <2>1. OneWriter'
      BY <1>4, WriterClient DEF WeakInv, OneWriter
  <2>2. FlagIsUp'
      BY <1>4, WriterClient DEF WeakInv, FlagIsUp
  <2>3. CountIsExact'
      BY <1>5 DEF WeakInv, CountIsExact
  <2> QED
      BY <2>1, <2>2, <2>3
<1>7. WeakInv'
    BY <1>2, <1>3, <1>6 DEF WeakInv
<1>8. CASE step = "count"
  <2>1. c \in Section /\ Weak!writing = {}
      BY <1>8 DEF WeakInv, FlagIsUp, Raised, Weak!writing
  <2>2. Weak!Uncounted' = Weak!Uncounted \cup {c}
      BY <1>1, <1>8, <2>1, SectionClient DEF Weak!Uncounted, Weak!At
  <2> QED
      BY <1>5, <1>7, <2>1, <2>2 DEF WeakLockStep, Weak!Lock!Next, Weak!Lock!Admit
<1>9. CASE step # "count"
  <2>1. Weak!Uncounted' = Weak!Uncounted
      BY <1>1, <1>9, SectionClient DEF Weak!Uncounted, Weak!At
  <2> QED
      BY <1>5, <1>7, <2>1 DEF WeakLockStep, Weak!Lock!lockVars
<1> QED
    BY <1>8, <1>9

LEMMA WeakBeginEnd ==
    ASSUME WeakInv, NEW c \in Weak!Client, Weak!Begin(c) \/ Weak!End(c)
    PROVE  WeakInv' /\ WeakLockStep
<1>1. CASE Weak!Begin(c)
    BY <1>1, WeakSameHolders DEF Weak!Begin, Weak!Step, Weak!At, Weak!Inside, WeakSteps
<1>2. CASE Weak!End(c)
    BY <1>2, WeakSameHolders DEF Weak!End, Weak!Step, Weak!At, Weak!Inside, WeakSteps
<1> QED
    BY <1>1, <1>2

(* A reader that enters or leaves touches no flag and no writer. *)
LEMMA ReaderStep ==
    ASSUME WeakInv, NEW s \in Section, NEW step \in {"in", "out"}, Weak!Goto(s, step),
           UNCHANGED write_flag
    PROVE  /\ WeakRoles' /\ OneWriter' /\ FlagIsUp' /\ Weak!writing' = Weak!writing
           /\ Weak!Uncounted' = Weak!Uncounted \ {s}
           /\ weakpc' \in [Weak!Client -> WeakSteps]
<1>0. s \in Weak!Client /\ step \in WeakSteps
    BY SectionClient DEF WeakSteps
<1>1. weakpc' \in [Weak!Client -> WeakSteps] /\ weakpc'[s] = step
      /\ \A d \in Weak!Client : d # s => weakpc'[d] = weakpc[d]
    BY <1>0, Moved DEF WeakInv
<1>2. \A w \in Writer : weakpc'[w] = weakpc[w]
    BY <1>1, SectionClient, WriterClient
<1>3. \A w \in Writer : (Weak!Inside(w)' <=> Weak!Inside(w)) /\ (Raised(w)' <=> Raised(w))
    BY <1>2 DEF Weak!Inside, Raised, Weak!At
<1>4. OneWriter'
    BY <1>3 DEF WeakInv, OneWriter
<1>5. FlagIsUp'
    BY <1>3 DEF WeakInv, FlagIsUp
<1>6. Weak!writing' = Weak!writing
    BY <1>3 DEF Weak!writing
<1>7. WeakRoles'
    BY <1>1, <1>2, SectionClient DEF WeakInv, WeakRoles, Weak!At
<1>8. Weak!Uncounted' = Weak!Uncounted \ {s}
    BY <1>1, SectionClient DEF Weak!Uncounted, Weak!At
<1> QED
    BY <1>1, <1>4, <1>5, <1>6, <1>7, <1>8

LEMMA WeakLockRead ==
    ASSUME WeakInv, NEW s \in Section, Weak!lockRead(s)
    PROVE  WeakInv' /\ WeakLockStep
<1>0. s \in Weak!Client
    BY SectionClient
<1>1. CASE ~write_flag /\ Weak!Step(s, "lock", "count") /\ UNCHANGED <<read_cnt, write_flag>>
    BY <1>0, <1>1, WeakSameHolders DEF Weak!Step, Weak!At, Weak!Inside, WeakSteps
<1>2. CASE Weak!Step(s, "count", "in") /\ read_cnt' = read_cnt + 1 /\ UNCHANGED write_flag
  <2>1. WeakRoles' /\ OneWriter' /\ FlagIsUp' /\ Weak!writing' = Weak!writing
        /\ Weak!Uncounted' = Weak!Uncounted \ {s}
        /\ weakpc' \in [Weak!Client -> WeakSteps]
      BY <1>2, ReaderStep DEF Weak!Step
  <2>2. WeakTypes'
      BY <1>2, <2>1 DEF WeakInv, WeakTypes
  <2>3. s \notin Weak!reading /\ Weak!reading' = Weak!reading \cup {s}
      BY <1>0, <1>2, SectionClient DEF WeakInv, WeakTypes, Weak!Step, Weak!Goto, Weak!At,
          Weak!reading, Weak!Inside
  <2>4. CountIsExact'
    <3>1. Cardinality(Weak!reading') = Cardinality(Weak!reading) + 1
        BY <2>3, WeakReadingFinite, FS_AddElement
    <3> QED
        BY <1>2, <3>1 DEF WeakInv, CountIsExact
  <2>5. s \in Weak!Uncounted
      BY <1>2 DEF Weak!Uncounted, Weak!Step
  <2>6. WeakInv'
      BY <2>1, <2>2, <2>4 DEF WeakInv
  <2> QED
      BY <2>1, <2>3, <2>5, <2>6 DEF WeakLockStep, Weak!Lock!Next, Weak!Lock!Enter
<1> QED
    BY <1>1, <1>2 DEF Weak!lockRead

LEMMA WeakUnlockRead ==
    ASSUME WeakInv, NEW s \in Section, Weak!unlockRead(s)
    PROVE  WeakInv' /\ WeakLockStep
<1>0. s \in Weak!Client
    BY SectionClient
<1>1. Weak!Step(s, "unlock", "out") /\ read_cnt' = read_cnt - 1 /\ UNCHANGED write_flag
    BY DEF Weak!unlockRead
<1>2. WeakRoles' /\ OneWriter' /\ FlagIsUp' /\ Weak!writing' = Weak!writing
      /\ Weak!Uncounted' = Weak!Uncounted \ {s}
      /\ weakpc' \in [Weak!Client -> WeakSteps]
    BY <1>1, ReaderStep DEF Weak!Step
<1>3. WeakTypes'
    BY <1>1, <1>2 DEF WeakInv, WeakTypes
<1>4. s \in Weak!reading /\ Weak!reading' = Weak!reading \ {s}
    BY <1>0, <1>1, SectionClient DEF WeakInv, WeakTypes, Weak!Step, Weak!Goto, Weak!At,
        Weak!reading, Weak!Inside
<1>5. CountIsExact'
  <2>1. Cardinality(Weak!reading') = Cardinality(Weak!reading) - 1
      BY <1>4, WeakReadingFinite, FS_RemoveElement
  <2> QED
      BY <1>1, <2>1 DEF WeakInv, CountIsExact
<1>6. WeakInv'
    BY <1>2, <1>3, <1>5 DEF WeakInv
<1>7. Weak!Uncounted' = Weak!Uncounted
    BY <1>1, <1>2 DEF Weak!Uncounted, Weak!Step, Weak!At
<1> QED
    BY <1>2, <1>4, <1>6, <1>7 DEF WeakLockStep, Weak!Lock!Next, Weak!Lock!UnlockRead

(* A writer's step leaves every reader where it is. *)
LEMMA WriterStep ==
    ASSUME WeakInv, NEW w \in Writer, NEW step \in WeakSteps, step # "count", Weak!Goto(w, step)
    PROVE  /\ WeakRoles' /\ Weak!reading' = Weak!reading /\ Weak!Uncounted' = Weak!Uncounted
           /\ weakpc' \in [Weak!Client -> WeakSteps] /\ weakpc'[w] = step
           /\ \A v \in Writer : v # w => weakpc'[v] = weakpc[v]
<1>1. weakpc' \in [Weak!Client -> WeakSteps] /\ weakpc'[w] = step
      /\ \A d \in Weak!Client : d # w => weakpc'[d] = weakpc[d]
    BY Moved, WriterClient DEF WeakInv
<1>2. \A s \in Section : weakpc'[s] = weakpc[s]
    BY <1>1, SectionClient
<1>3. \A v \in Writer : v # w => weakpc'[v] = weakpc[v]
    BY <1>1, WriterClient
<1>4. WeakRoles'
    BY <1>1, <1>2, <1>3 DEF WeakInv, WeakRoles, Weak!At
<1>5. Weak!reading' = Weak!reading
    BY <1>2 DEF Weak!reading, Weak!Inside
<1>6. Weak!Uncounted' = Weak!Uncounted
    BY <1>2 DEF Weak!Uncounted, Weak!At
<1> QED
    BY <1>1, <1>3, <1>4, <1>5, <1>6

LEMMA WeakLockWrite ==
    ASSUME WeakInv, NEW w \in Writer, Weak!lockWrite(w)
    PROVE  WeakInv' /\ WeakLockStep
<1>0. w \in Weak!Client /\ UNCHANGED read_cnt
    BY WriterClient DEF Weak!lockWrite
<1>1. CASE Weak!Step(w, "lock", "flag") /\ UNCHANGED write_flag
    BY <1>0, <1>1, WeakSameHolders DEF Weak!Step, Weak!At, Weak!Inside, WeakSteps
<1>2. CASE Weak!Step(w, "flag", IF write_flag THEN "lock" ELSE "flagCAS") /\ UNCHANGED write_flag
  <2>1. CASE Weak!Step(w, "flag", "lock")
      BY <1>0, <1>2, <2>1, WeakSameHolders DEF Weak!Step, Weak!At, Weak!Inside, WeakSteps
  <2>2. CASE Weak!Step(w, "flag", "flagCAS")
      BY <1>0, <1>2, <2>2, WeakSameHolders DEF Weak!Step, Weak!At, Weak!Inside, WeakSteps
  <2> QED
      BY <1>2, <2>1, <2>2
<1>3. CASE Weak!Step(w, "flagCAS", "lock") /\ UNCHANGED write_flag
    BY <1>0, <1>3, WeakSameHolders DEF Weak!Step, Weak!At, Weak!Inside, WeakSteps
<1>4. CASE ~write_flag /\ Weak!Step(w, "flagCAS", "wait") /\ write_flag' = TRUE
  <2>1. /\ WeakRoles' /\ Weak!reading' = Weak!reading /\ Weak!Uncounted' = Weak!Uncounted
        /\ weakpc' \in [Weak!Client -> WeakSteps] /\ weakpc'[w] = "wait"
        /\ \A v \in Writer : v # w => weakpc'[v] = weakpc[v]
      BY <1>4, WriterStep DEF Weak!Step, WeakSteps
  <2>2. \A v \in Writer : ~Raised(v)
      BY <1>4 DEF WeakInv, FlagIsUp
  <2>3. Raised(w)'
      BY <2>1 DEF Raised, Weak!At
  <2>4. \A v \in Writer : v # w => ~Raised(v)'
      BY <2>1, <2>2 DEF Raised, Weak!Inside, Weak!At
  <2>5. Weak!writing = {} /\ Weak!writing' = {}
      BY <2>1, <2>2 DEF Weak!writing, Raised, Weak!Inside
  <2>6. OneWriter' /\ FlagIsUp'
      BY <1>4, <2>3, <2>4 DEF OneWriter, FlagIsUp
  <2>7. WeakTypes' /\ CountIsExact'
      BY <1>0, <1>4, <2>1 DEF WeakInv, WeakTypes, CountIsExact
  <2>8. WeakInv'
      BY <2>1, <2>6, <2>7 DEF WeakInv
  <2> QED
      BY <2>1, <2>5, <2>8 DEF WeakLockStep, Weak!Lock!lockVars
<1>5. CASE Weak!Wait(w)
  <2>1. read_cnt = 0 /\ Weak!Step(w, "wait", "in") /\ UNCHANGED write_flag
      BY <1>5 DEF Weak!Wait
  <2>2. /\ WeakRoles' /\ Weak!reading' = Weak!reading /\ Weak!Uncounted' = Weak!Uncounted
        /\ weakpc' \in [Weak!Client -> WeakSteps] /\ weakpc'[w] = "in"
        /\ \A v \in Writer : v # w => weakpc'[v] = weakpc[v]
      BY <2>1, WriterStep DEF Weak!Step, WeakSteps
  <2>3. Weak!reading = {}
      BY <2>1, WeakReadingFinite DEF WeakInv, CountIsExact
  <2>4. Raised(w) /\ Raised(w)' /\ \A v \in Writer : v # w => ~Raised(v) /\ ~Raised(v)'
    <3>1. Raised(w)
        BY <2>1 DEF Weak!Step, Raised
    <3>2. Raised(w)'
        BY <2>2 DEF Raised, Weak!Inside
    <3>3. \A v \in Writer : v # w => ~Raised(v)
        BY <3>1 DEF WeakInv, OneWriter
    <3>4. \A v \in Writer : v # w => ~Raised(v)'
        BY <2>2, <3>3 DEF Raised, Weak!Inside, Weak!At
    <3> QED
        BY <3>1, <3>2, <3>3, <3>4
  <2>5. OneWriter'
      BY <2>4 DEF OneWriter
  <2>6. FlagIsUp'
      BY <2>1, <2>4 DEF WeakInv, FlagIsUp
  <2>7. WeakTypes' /\ CountIsExact'
      BY <1>0, <2>1, <2>2 DEF WeakInv, WeakTypes, CountIsExact
  <2>8. Weak!writing = {} /\ Weak!writing' = {w}
      BY <2>1, <2>2, <2>4 DEF Weak!writing, Raised, Weak!Inside, Weak!Step, Weak!At
  <2>9. WeakInv'
      BY <2>2, <2>5, <2>6, <2>7 DEF WeakInv
  <2> QED
      BY <2>2, <2>3, <2>8, <2>9 DEF WeakLockStep, Weak!Lock!Next, Weak!Lock!LockWrite
<1> QED
    BY <1>1, <1>2, <1>3, <1>4, <1>5 DEF Weak!lockWrite, Weak!RaiseFlag, Weak!Wait

LEMMA WeakUnlockWrite ==
    ASSUME WeakInv, NEW w \in Writer, Weak!unlockWrite(w)
    PROVE  WeakInv' /\ WeakLockStep
<1>1. Weak!Step(w, "unlock", "out") /\ write_flag' = FALSE /\ UNCHANGED read_cnt
    BY DEF Weak!unlockWrite
<1>2. /\ WeakRoles' /\ Weak!reading' = Weak!reading /\ Weak!Uncounted' = Weak!Uncounted
      /\ weakpc' \in [Weak!Client -> WeakSteps] /\ weakpc'[w] = "out"
      /\ \A v \in Writer : v # w => weakpc'[v] = weakpc[v]
    BY <1>1, WriterStep DEF Weak!Step, WeakSteps
<1>3. Raised(w) /\ w \in Weak!writing
    BY <1>1 DEF Weak!Step, Weak!At, Raised, Weak!Inside, Weak!writing
<1>4. \A v \in Writer : v # w => ~Raised(v)
    BY <1>3 DEF WeakInv, OneWriter
<1>5. \A v \in Writer : ~Raised(v)'
    BY <1>2, <1>4 DEF Raised, Weak!Inside, Weak!At
<1>6. Weak!writing' = {} /\ Weak!Lock!UnlockWrite(w)
    BY <1>2, <1>3, <1>5 DEF Weak!writing, Raised, Weak!Lock!UnlockWrite
<1>7. OneWriter'
    BY <1>5 DEF OneWriter
<1>8. FlagIsUp'
    BY <1>1, <1>5 DEF FlagIsUp
<1>9. WeakTypes' /\ CountIsExact'
    BY <1>1, <1>2 DEF WeakInv, WeakTypes, CountIsExact
<1>10. WeakInv'
    BY <1>2, <1>7, <1>8, <1>9 DEF WeakInv
<1> QED
    BY <1>6, <1>10 DEF WeakLockStep, Weak!Lock!Next

LEMMA WeakInitInv == Weak!Init => WeakInv
<1> SUFFICES ASSUME Weak!Init PROVE WeakInv
    OBVIOUS
<1>1. \A c \in Weak!Client : weakpc[c] = "out" /\ ~Weak!Inside(c) /\ ~Raised(c)
    BY DEF Weak!Init, Weak!Inside, Raised, Weak!At
<1>2. Weak!reading = {} /\ Weak!writing = {}
    BY <1>1 DEF Weak!reading, Weak!writing, Weak!Client
<1>3. WeakTypes /\ WeakRoles
  <2>1. write_flag \in BOOLEAN
      BY Zenon DEF Weak!Init
  <2>2. read_cnt \in Int /\ weakpc \in [Weak!Client -> WeakSteps]
      BY DEF Weak!Init, WeakSteps
  <2>3. WeakRoles
      BY <1>1, SectionClient, WriterClient DEF WeakRoles, Weak!At
  <2> QED
      BY <2>1, <2>2, <2>3 DEF WeakTypes
<1>4. OneWriter /\ FlagIsUp
    BY <1>1, WriterClient DEF Weak!Init, OneWriter, FlagIsUp
<1>5. CountIsExact
    BY <1>2, FS_EmptySet DEF Weak!Init, CountIsExact
<1> QED
    BY <1>3, <1>4, <1>5 DEF WeakInv

LEMMA WeakNextInv == WeakInv /\ [Weak!Next]_(Weak!vars) => WeakInv' /\ WeakLockStep
<1> SUFFICES ASSUME WeakInv, [Weak!Next]_(Weak!vars) PROVE WeakInv' /\ WeakLockStep
    OBVIOUS
<1>1. CASE UNCHANGED Weak!vars
  <2>1. Weak!reading' = Weak!reading /\ Weak!writing' = Weak!writing
        /\ Weak!Uncounted' = Weak!Uncounted
      BY <1>1 DEF Weak!vars, Weak!reading, Weak!writing, Weak!Uncounted, Weak!Inside, Weak!At
  <2>2. WeakTypes' /\ WeakRoles' /\ OneWriter' /\ FlagIsUp' /\ CountIsExact'
      BY <1>1, <2>1 DEF Weak!vars, WeakInv, WeakTypes, WeakRoles, OneWriter, FlagIsUp,
          CountIsExact, Raised, Weak!Inside, Weak!At
  <2> QED
      BY <2>1, <2>2 DEF WeakInv, WeakLockStep, Weak!Lock!lockVars
<1>2. CASE Weak!Next
    BY <1>2, WeakBeginEnd, WeakLockRead, WeakUnlockRead, WeakLockWrite, WeakUnlockWrite
        DEF Weak!Next
<1> QED
    BY <1>1, <1>2

LEMMA WeakInvariant == Weak!Spec => []WeakInv
<1>1. WeakInv /\ [Weak!Next]_(Weak!vars) => WeakInv'
    BY WeakNextInv
<1> QED
    BY WeakInitInv, <1>1, PTL DEF Weak!Spec

(* The instance has its own name for the cardinality of a set.              *)
LEMMA SameCardinality == Weak!Cardinality(Weak!reading) = Cardinality(Weak!reading)
BY DEF Cardinality, Weak!Cardinality

(* Writers exclude each other and the count is the number of sections,     *)
(* also where a reader is caught between its test and its count.           *)
THEOREM WeakFlagIsOneWriter == Weak!Spec => []FlagIsOneWriter
<1>1. WeakInv => FlagIsOneWriter
    BY SameCardinality DEF WeakInv, OneWriter, FlagIsUp, CountIsExact, Raised, FlagIsOneWriter,
        Weak!FlagIsOneWriter
<1> QED
    BY <1>1, WeakInvariant, PTL

(* Every run of the weak lock, those where a writer comes in between a     *)
(* reader's test of the flag and its count included, is one of WeakRWLock: *)
(* a reader SwitchToNextPhase does not keep out was admitted before it had *)
(* the lock, and the lock admits nobody while it has it.                   *)
THEOREM WeakImplementsWeakRWLock == Weak!Spec => ImplementsLock
<1>1. Weak!Init => Weak!Lock!Init
    BY DEF Weak!Init, Weak!Lock!Init, Weak!reading, Weak!writing, Weak!Uncounted, Weak!Inside,
        Weak!At, Weak!Client
<1>2. WeakInv /\ [Weak!Next]_(Weak!vars) => [Weak!Lock!Next]_(Weak!Lock!lockVars)
    BY WeakNextInv DEF WeakLockStep
<1> QED
    BY <1>1, <1>2, WeakInvariant, PTL DEF Weak!Spec, ImplementsLock, Weak!ImplementsLock,
        Weak!Lock!Spec
=============================================================================
