---------------------------- MODULE StwLockProofs ----------------------------
(***************************************************************************)
(* The stop-the-world lock for any number of user threads, any depth of    *)
(* nesting and either preference of the mutex, and the GC thread's loop,   *)
(* every step of which is one of the lock's or none.                       *)
(***************************************************************************)
EXTENDS GCThreadLoop, FiniteSetTheorems, TLAPS

(* A client that enters has room for the section. *)
Room == \A c \in entering : Len(owns[c]) < Depth
Inv == TypeOK /\ Room /\ CountsSections /\ (exclusive => shared = {})

-----------------------------------------------------------------------------
(* What a section adds to those that took the lock, and its end removes. *)
LEMMA TookFinite ==
    ASSUME TypeOK, NEW c \in Client
    PROVE  IsFiniteSet(Took(c)) /\ Owned(c) \in Nat
<1>1. owns[c] \in Seq(BOOLEAN) /\ Len(owns[c]) \in Nat
    BY DEF TypeOK
<1>2. Took(c) \in SUBSET (1..Len(owns[c]))
    BY <1>1 DEF Took
<1>3. IsFiniteSet(1..Len(owns[c]))
    BY <1>1, FS_Interval
<1>4. IsFiniteSet(Took(c))
    BY <1>2, <1>3, FS_Subset
<1> QED  BY <1>4, FS_CardinalityType DEF Owned

LEMMA OwnedZero ==
    ASSUME TypeOK, NEW c \in Client
    PROVE  (Owned(c) = 0) <=> (Took(c) = {})
BY TookFinite, FS_EmptySet DEF Owned

LEMMA AppendIsSeq ==
    ASSUME NEW S, NEW s \in Seq(S), NEW x \in S
    PROVE  Append(s, x) \in Seq(S) /\ Len(Append(s, x)) = Len(s) + 1
OBVIOUS

LEMMA AppendEffect ==
    ASSUME TypeOK, NEW c \in Client, NEW b \in BOOLEAN,
           owns' = [owns EXCEPT ![c] = Append(@, b)]
    PROVE  /\ Owned(c)' = IF b THEN Owned(c) + 1 ELSE Owned(c)
           /\ \A d \in Client : d # c => Owned(d)' = Owned(d) /\ owns'[d] = owns[d]
           /\ owns'[c] \in Seq(BOOLEAN) /\ Len(owns'[c]) = Len(owns[c]) + 1
<1> DEFINE n == Len(owns[c]) + 1
<1>1. owns[c] \in Seq(BOOLEAN) /\ Len(owns[c]) \in Nat
    BY DEF TypeOK
<1>2. owns'[c] = Append(owns[c], b)
    BY <1>1 DEF TypeOK
<1>3. /\ DOMAIN owns'[c] = 1..n /\ DOMAIN owns[c] = 1..(n - 1)
      /\ \A i \in 1..(n - 1) : owns'[c][i] = owns[c][i]
      /\ owns'[c][n] = b
    BY <1>1, <1>2
<1>4. Took(c)' = IF b THEN Took(c) \cup {n} ELSE Took(c)
    BY <1>1, <1>3 DEF Took
<1>5. n \notin Took(c)
    BY <1>1, <1>3 DEF Took
<1>6. Owned(c)' = IF b THEN Owned(c) + 1 ELSE Owned(c)
    BY <1>4, <1>5, TookFinite, FS_AddElement DEF Owned
<1>7. \A d \in Client : d # c => owns'[d] = owns[d]
    BY DEF TypeOK
<1>8. \A d \in Client : d # c => Owned(d)' = Owned(d)
    BY <1>7 DEF Owned, Took
<1>9. Append(owns[c], b) \in Seq(BOOLEAN) /\ Len(Append(owns[c], b)) = Len(owns[c]) + 1
    BY <1>1, AppendIsSeq
<1>10. owns'[c] \in Seq(BOOLEAN) /\ Len(owns'[c]) = Len(owns[c]) + 1
    BY <1>2, <1>9
<1> QED  BY <1>6, <1>7, <1>8, <1>10

LEMMA FrontEffect ==
    ASSUME TypeOK, NEW c \in Client, owns[c] # <<>>,
           owns' = [owns EXCEPT ![c] = Front(@)]
    PROVE  /\ Owned(c)' = IF Last(owns[c]) THEN Owned(c) - 1 ELSE Owned(c)
           /\ Last(owns[c]) => Owned(c) > 0
           /\ \A d \in Client : d # c => Owned(d)' = Owned(d) /\ owns'[d] = owns[d]
           /\ owns'[c] \in Seq(BOOLEAN) /\ Len(owns'[c]) = Len(owns[c]) - 1
<1> DEFINE n == Len(owns[c])
<1>1. owns[c] \in Seq(BOOLEAN) /\ n \in Nat /\ n > 0
    BY DEF TypeOK
<1>2. owns'[c] = SubSeq(owns[c], 1, n - 1) /\ Last(owns[c]) = owns[c][n]
    BY <1>1 DEF TypeOK, Front, Last
<1>3. /\ owns'[c] \in Seq(BOOLEAN) /\ Len(owns'[c]) = n - 1
      /\ DOMAIN owns'[c] = 1..(n - 1) /\ DOMAIN owns[c] = 1..n
      /\ \A i \in 1..(n - 1) : owns'[c][i] = owns[c][i]
    BY <1>1, <1>2
<1>4. Took(c)' = Took(c) \ {n}
    BY <1>1, <1>3 DEF Took
<1>5. n \in Took(c) <=> Last(owns[c])
    BY <1>1, <1>2, <1>3 DEF Took
<1>6. Owned(c)' = IF Last(owns[c]) THEN Owned(c) - 1 ELSE Owned(c)
    BY <1>4, <1>5, TookFinite, FS_RemoveElement DEF Owned
<1>7. Last(owns[c]) => Owned(c) > 0
    BY <1>5, OwnedZero, TookFinite
<1>8. \A d \in Client : d # c => owns'[d] = owns[d]
    BY DEF TypeOK
<1>9. \A d \in Client : d # c => Owned(d)' = Owned(d)
    BY <1>8 DEF Owned, Took
<1> QED  BY <1>3, <1>6, <1>7, <1>8, <1>9

-----------------------------------------------------------------------------
(* The invariant step by step. *)
LEMMA InvInit == Init => Inv
<1> SUFFICES ASSUME Init PROVE Inv
    OBVIOUS
<1>1. Room /\ (exclusive => shared = {})
    BY DEF Init, Room
<1>2. TypeOK
  <2>1. owns \in [Client -> Seq(BOOLEAN)] /\ \A c \in Client : Len(owns[c]) = 0
      BY DEF Init
  <2>2. \A c \in Client : Len(owns[c]) <= Depth
      BY <2>1, DepthAssumption
  <2>3. read_locked_cnt \in [Client -> Nat]
      BY DEF Init
  <2> QED  BY <2>1, <2>2, <2>3 DEF Init, TypeOK
<1>3. CountsSections
  <2> SUFFICES ASSUME NEW c \in Client
               PROVE  read_locked_cnt[c] = Owned(c) /\ (c \in shared <=> Owned(c) > 0)
      BY DEF CountsSections
  <2>1. Took(c) = {}
      BY DEF Init, Took
  <2>2. Owned(c) = 0
      BY <2>1, FS_EmptySet DEF Owned
  <2> QED  BY <2>2 DEF Init
<1> QED  BY <1>1, <1>2, <1>3 DEF Inv

LEMMA OwnedUnchanged ==
    ASSUME UNCHANGED owns
    PROVE  \A c \in Client : Owned(c)' = Owned(c)
BY DEF Owned, Took

(* Steps that leave the sections and the mutex's readers alone. *)
LEMMA InvQuiet ==
    ASSUME Inv, UNCHANGED <<sectionVars, shared>>, TypeOK', exclusive' => shared = {}
    PROVE  Inv'
<1>1. \A c \in Client : Owned(c)' = Owned(c)
    BY OwnedUnchanged DEF sectionVars
<1>2. CountsSections'
    BY <1>1 DEF Inv, CountsSections, sectionVars
<1>3. Room'
    BY DEF Inv, Room, sectionVars
<1> QED  BY <1>2, <1>3 DEF Inv

LEMMA InvEnter ==
    ASSUME Inv, NEW c \in Client, MayNest(c), entering' = entering \cup {c},
           UNCHANGED <<gcPhase, mutexVars, read_locked_cnt, owns>>, healing' \subseteq healing \cup {c}
    PROVE  Inv'
<1>1. \A d \in Client : Owned(d)' = Owned(d)
    BY OwnedUnchanged
<1>2. CountsSections'
    BY <1>1 DEF Inv, CountsSections, mutexVars
<1>3. Room'
    BY DEF Inv, Room, MayNest
<1>4. TypeOK'
    BY DEF Inv, TypeOK, mutexVars
<1> QED  BY <1>2, <1>3, <1>4 DEF Inv, mutexVars

LEMMA InvRAIISTWLock ==
    ASSUME Inv, NEW c \in Client, RAIISTWLock(c)
    PROVE  Inv'
<1>1. CASE gcPhase = "REMARK"
  <2>1. /\ owns' = [owns EXCEPT ![c] = Append(@, FALSE)] /\ healing' = healing \cup {c}
        /\ UNCHANGED <<gcPhase, mutexVars, read_locked_cnt, entering>>
        /\ c \notin entering /\ Len(owns[c]) < Depth
      BY <1>1 DEF RAIISTWLock, MayNest
  <2>2. /\ Owned(c)' = Owned(c)
        /\ \A d \in Client : d # c => Owned(d)' = Owned(d) /\ owns'[d] = owns[d]
        /\ owns'[c] \in Seq(BOOLEAN) /\ Len(owns'[c]) = Len(owns[c]) + 1
      BY <2>1, AppendEffect DEF Inv
  <2>3. TypeOK'
    <3>1. owns' \in [Client -> Seq(BOOLEAN)]
        BY <2>1, <2>2 DEF Inv, TypeOK
    <3>2. \A d \in Client : Len(owns'[d]) <= Depth
      <4> SUFFICES ASSUME NEW d \in Client PROVE Len(owns'[d]) <= Depth
          OBVIOUS
      <4>1. CASE d = c
        <5>1. Len(owns[c]) \in Nat
            BY DEF Inv, TypeOK
        <5> QED  BY <4>1, <5>1, <2>1, <2>2, DepthAssumption
      <4>2. CASE d # c
          BY <4>2, <2>2 DEF Inv, TypeOK
      <4> QED  BY <4>1, <4>2
    <3> QED  BY <2>1, <3>1, <3>2 DEF Inv, TypeOK, mutexVars
  <2>4. Room'
      BY <2>1, <2>2 DEF Inv, TypeOK, Room
  <2>5. CountsSections'
      BY <2>1, <2>2 DEF Inv, CountsSections, mutexVars
  <2> QED  BY <2>1, <2>3, <2>4, <2>5 DEF Inv, mutexVars
<1>2. CASE gcPhase # "REMARK"
    BY <1>2, InvEnter DEF RAIISTWLock
<1> QED  BY <1>1, <1>2

LEMMA InvLockRead ==
    ASSUME Inv, NEW c \in Client, lockRead(c)
    PROVE  Inv'
<1>1. /\ owns' = [owns EXCEPT ![c] = Append(@, TRUE)]
      /\ c \in entering /\ Len(owns[c]) < Depth
      /\ read_locked_cnt' = [read_locked_cnt EXCEPT ![c] = @ + 1]
      /\ shared' = shared \cup {c} /\ entering' = entering \ {c}
      /\ UNCHANGED <<gcPhase, exclusive, waiting, healing>>
    BY DEF lockRead, Inv, Room
<1>2. /\ Owned(c)' = Owned(c) + 1
      /\ \A d \in Client : d # c => Owned(d)' = Owned(d) /\ owns'[d] = owns[d]
      /\ owns'[c] \in Seq(BOOLEAN) /\ Len(owns'[c]) = Len(owns[c]) + 1
    BY <1>1, AppendEffect DEF Inv
<1>3. TypeOK'
  <2>1. owns' \in [Client -> Seq(BOOLEAN)]
      BY <1>1, <1>2 DEF Inv, TypeOK
  <2>2. \A d \in Client : Len(owns'[d]) <= Depth
    <3> SUFFICES ASSUME NEW d \in Client PROVE Len(owns'[d]) <= Depth
        OBVIOUS
    <3>1. CASE d = c
      <4>1. Len(owns[c]) \in Nat
          BY DEF Inv, TypeOK
      <4> QED  BY <3>1, <4>1, <1>1, <1>2, DepthAssumption
    <3>2. CASE d # c
        BY <3>2, <1>2 DEF Inv, TypeOK
    <3> QED  BY <3>1, <3>2
  <2>3. read_locked_cnt' \in [Client -> Nat]
      BY <1>1 DEF Inv, TypeOK
  <2> QED  BY <1>1, <2>1, <2>2, <2>3 DEF Inv, TypeOK
<1>4. Room'
    BY <1>1, <1>2 DEF Inv, TypeOK, Room
<1>5. CountsSections'
  <2> SUFFICES ASSUME NEW d \in Client
               PROVE  /\ read_locked_cnt'[d] = Owned(d)'
                      /\ d \in shared' <=> Owned(d)' > 0
      BY DEF CountsSections
  <2>1. CASE d = c
      BY <2>1, <1>1, <1>2, TookFinite DEF Inv, CountsSections, TypeOK
  <2>2. CASE d # c
      BY <2>2, <1>1, <1>2 DEF Inv, CountsSections, TypeOK
  <2> QED  BY <2>1, <2>2
<1>6. ~exclusive
  <2>1. CASE read_locked_cnt[c] = 0
      BY <2>1 DEF lockRead, SharedIsFree
  <2>2. CASE read_locked_cnt[c] # 0
      BY <2>2, TookFinite DEF Inv, CountsSections, TypeOK
  <2> QED  BY <2>1, <2>2
<1> QED  BY <1>1, <1>3, <1>4, <1>5, <1>6 DEF Inv

LEMMA InvLeave ==
    ASSUME Inv, NEW c \in Client, Leave(c)
    PROVE  Inv'
<1> DEFINE took == Last(owns[c])
<1>1. /\ owns' = [owns EXCEPT ![c] = Front(@)] /\ owns[c] # <<>> /\ c \notin entering
      /\ healing' = healing \ {c}
      /\ UNCHANGED <<gcPhase, exclusive, waiting, entering>>
    BY DEF Leave
<1>2. /\ Owned(c)' = IF took THEN Owned(c) - 1 ELSE Owned(c)
      /\ took => Owned(c) > 0
      /\ \A d \in Client : d # c => Owned(d)' = Owned(d) /\ owns'[d] = owns[d]
      /\ owns'[c] \in Seq(BOOLEAN) /\ Len(owns'[c]) = Len(owns[c]) - 1
    BY <1>1, FrontEffect DEF Inv
<1>3. /\ read_locked_cnt' = IF took THEN [read_locked_cnt EXCEPT ![c] = @ - 1] ELSE read_locked_cnt
      /\ shared' = IF took /\ read_locked_cnt[c] = 1 THEN shared \ {c} ELSE shared
    BY DEF Leave
<1>4. Owned(c) \in Nat /\ read_locked_cnt[c] = Owned(c) /\ (c \in shared <=> Owned(c) > 0)
    BY TookFinite DEF Inv, CountsSections
<1>5. TypeOK'
  <2>1. owns' \in [Client -> Seq(BOOLEAN)]
      BY <1>1, <1>2 DEF Inv, TypeOK
  <2>2. \A d \in Client : Len(owns'[d]) <= Depth
    <3> SUFFICES ASSUME NEW d \in Client PROVE Len(owns'[d]) <= Depth
        OBVIOUS
    <3>1. CASE d = c
      <4>1. Len(owns[c]) \in Nat /\ Len(owns[c]) <= Depth
          BY DEF Inv, TypeOK
      <4> QED  BY <3>1, <4>1, <1>2, DepthAssumption
    <3>2. CASE d # c
        BY <3>2, <1>2 DEF Inv, TypeOK
    <3> QED  BY <3>1, <3>2
  <2>3. read_locked_cnt' \in [Client -> Nat]
      BY <1>2, <1>3, <1>4 DEF Inv, TypeOK
  <2> QED  BY <1>1, <1>3, <2>1, <2>2, <2>3 DEF Inv, TypeOK
<1>6. Room'
    BY <1>1, <1>2 DEF Inv, TypeOK, Room
<1>7. CountsSections'
  <2> SUFFICES ASSUME NEW d \in Client
               PROVE  /\ read_locked_cnt'[d] = Owned(d)'
                      /\ d \in shared' <=> Owned(d)' > 0
      BY DEF CountsSections
  <2>1. CASE d = c
      BY <2>1, <1>2, <1>3, <1>4 DEF Inv, TypeOK
  <2>2. CASE d # c
      BY <2>2, <1>2, <1>3 DEF Inv, CountsSections, TypeOK
  <2> QED  BY <2>1, <2>2
<1>8. exclusive' => shared' = {}
    BY <1>1, <1>3 DEF Inv
<1> QED  BY <1>5, <1>6, <1>7, <1>8 DEF Inv

LEMMA InvSections ==
    ASSUME Inv, NEW c \in Client, Sections(c)
    PROVE  Inv'
BY InvRAIISTWLock, InvLockRead, InvLeave DEF Sections

LEMMA InvGC ==
    ASSUME Inv, startGC \/ Stop \/ endGC
    PROVE  Inv'
<1>1. ASSUME NEW from, NEW to \in {"NONE", "CONCURRENT_MARK", "REMARK", "SWEEP"}, SwitchPhase(from, to)
      PROVE  Inv'
  <2>1. TypeOK'
      BY <1>1 DEF SwitchPhase, Inv, TypeOK, mutexVars, sectionVars
  <2>2. exclusive' => shared = {}
      BY <1>1 DEF SwitchPhase, Inv, mutexVars
  <2>3. UNCHANGED <<sectionVars, shared>>
      BY <1>1 DEF SwitchPhase, mutexVars
  <2> QED  BY <2>1, <2>2, <2>3, InvQuiet
<1>2. ASSUME stop_the_world \/ lockWrite \/ resume_the_world
      PROVE  Inv'
  <2>1. TypeOK'
      BY <1>2 DEF stop_the_world, lockWrite, resume_the_world, Inv, TypeOK, sectionVars
  <2>2. exclusive' => shared = {}
      BY <1>2 DEF stop_the_world, lockWrite, resume_the_world, Inv
  <2>3. UNCHANGED <<sectionVars, shared>>
      BY <1>2 DEF stop_the_world, lockWrite, resume_the_world
  <2> QED  BY <2>1, <2>2, <2>3, InvQuiet
<1> QED  BY <1>1, <1>2 DEF startGC, Stop, endGC, triggerSATBMark, selectRelocationSet

LEMMA InvNext == Inv /\ [Next]_vars => Inv'
<1> SUFFICES ASSUME Inv, [Next]_vars PROVE Inv'
    OBVIOUS
<1>1. CASE startGC \/ Stop \/ endGC
    BY <1>1, InvGC
<1>2. CASE MarkSome
    BY <1>2, InvSections DEF MarkSome, Client
<1>3. ASSUME NEW t \in Thread, EnterCriticalSection(t)
      PROVE  Inv'
    BY <1>3, InvEnter DEF EnterCriticalSection, Client
<1>4. ASSUME NEW t \in Thread, Sections(t)
      PROVE  Inv'
    BY <1>4, InvSections DEF Client
<1>5. CASE UNCHANGED vars
  <2>1. TypeOK' /\ UNCHANGED <<sectionVars, shared>> /\ (exclusive' => shared = {})
      BY <1>5 DEF vars, Inv, TypeOK, mutexVars, sectionVars
  <2> QED  BY <2>1, InvQuiet
<1> QED  BY <1>1, <1>2, <1>3, <1>4, <1>5 DEF Next

LEMMA Invariant == Spec => []Inv
<1> QED  BY InvInit, InvNext, PTL DEF Spec

-----------------------------------------------------------------------------
(* A thread has the mutex exactly while a section of its own took it, and  *)
(* counts those sections: unlockRead never throws.                         *)
THEOREM StwCountsSections == Spec => []CountsSections
<1>1. Inv => CountsSections
    BY DEF Inv
<1> QED  BY <1>1, Invariant, PTL

(* Nobody is in a critical section that took the lock while the GC thread  *)
(* has the world stopped.                                                  *)
THEOREM StwWorldStopped == Spec => []WorldStopped
<1>1. Inv => WorldStopped
  <2> SUFFICES ASSUME Inv, exclusive, NEW t \in Thread PROVE Owned(t) = 0
      BY DEF WorldStopped
  <2>1. t \in Client
      BY DEF Client
  <2> QED  BY <2>1, TookFinite DEF Inv, CountsSections
<1> QED  BY <1>1, Invariant, PTL

(* The GC thread's loop, its triggers and its destruction add no step to   *)
(* the lock, so both hold of the whole.                                    *)
THEOREM LoopKeepsWorldStopped == LoopSpec => [](CountsSections /\ WorldStopped)
<1>1. LoopInit => Init
    BY DEF LoopInit
<1>2. [LoopNext]_allVars => [Next]_vars
  <2> SUFFICES ASSUME [LoopNext]_allVars PROVE [Next]_vars
      OBVIOUS
  <2>1. ASSUME NEW t \in Thread, UserStep(t) PROVE Next
      BY <2>1 DEF UserStep, Next, Sections
  <2>2. CASE GCThread
      BY <2>2 DEF GCThread, Wait, Exit, Start, Cycle, EndOfCycle, Next
  <2>3. CASE WakeSpuriously \/ destroyGCWorker
      BY <2>3 DEF WakeSpuriously, destroyGCWorker
  <2>4. ASSUME NEW t \in Thread \cup {Main}, wakeUpGCThread(t) \/ notify_all(t) PROVE UNCHANGED vars
      BY <2>4 DEF wakeUpGCThread, notify_all
  <2>5. CASE UNCHANGED allVars
      BY <2>5 DEF allVars
  <2> QED  BY <2>1, <2>2, <2>3, <2>4, <2>5 DEF LoopNext
<1>3. LoopSpec => Spec
    BY <1>1, <1>2, PTL DEF LoopSpec, Spec
<1> QED  BY <1>3, StwCountsSections, StwWorldStopped, PTL
=============================================================================
