------------------------- MODULE GCRelocationProofs -------------------------
(***************************************************************************)
(* GCRelocation for any number of threads and objects and any capacity of  *)
(* the receiving region.                                                   *)
(***************************************************************************)
EXTENDS GCRelocation, FiniteSetTheorems, TLAPS

RelPc == {"idle", "check", "lookup", "allocate", "recheck", "copy", "publish", "find", "register",
          "crash", "undo", "retract"}
RelRecord == [pc : RelPc, obj : Obj \cup {None}, addr : Addr \cup {None}]
UserPc == {"idle", "query", "again", "throw", "guard", "access", "release"}
UserRecord == [pc : UserPc, obj : Obj \cup {None}, ref : Addr \cup {Old, None}, act : Action]

(* What the updates of the threads' records do, record by record. *)
LEMMA RelGotoEffect ==
    ASSUME TypeOK, NEW w \in Worker, NEW step \in RelPc, RelGoto(w, step)
    PROVE  /\ rel'[w].pc = step /\ rel'[w].obj = rel[w].obj /\ rel'[w].addr = rel[w].addr
           /\ \A x \in Worker : x # w => rel'[x] = rel[x]
           /\ rel' \in [Worker -> RelRecord]
BY DEF TypeOK, RelGoto, RelRecord, RelPc

LEMMA RelReturnEffect ==
    ASSUME TypeOK, NEW w \in Worker, RelReturn(w)
    PROVE  /\ rel'[w].pc = "idle" /\ rel'[w].obj = None /\ rel'[w].addr = None
           /\ \A x \in Worker : x # w => rel'[x] = rel[x]
           /\ rel' \in [Worker -> RelRecord]
BY DEF TypeOK, RelReturn, NoRelocation, RelRecord, RelPc

LEMMA CallEffect ==
    ASSUME TypeOK, NEW w \in Worker, NEW o \in Obj, Call(w, o)
    PROVE  /\ rel'[w].pc = "check" /\ rel'[w].obj = o /\ rel'[w].addr = None
           /\ \A x \in Worker : x # w => rel'[x] = rel[x]
           /\ rel' \in [Worker -> RelRecord]
BY DEF TypeOK, Call, RelRecord, RelPc

LEMMA AllocateEffect ==
    ASSUME TypeOK, NEW w \in Worker, allocate(w)
    PROVE  /\ rel'[w].pc = "recheck" /\ rel'[w].obj = rel[w].obj
           /\ rel'[w].addr = allocated_offset /\ allocated_offset \in Addr
           /\ allocated_offset' = allocated_offset + 1 /\ allocated_offset' \in 0..Capacity
           /\ \A x \in Worker : x # w => rel'[x] = rel[x]
           /\ rel' \in [Worker -> RelRecord]
<1>1. /\ allocated_offset \in Addr /\ allocated_offset' \in 0..Capacity
      /\ allocated_offset' = allocated_offset + 1
  BY CapacityAssumption DEF TypeOK, allocate, Addr
<1>2. /\ rel \in [Worker -> RelRecord]
      /\ rel' = [rel EXCEPT ![w] = [@ EXCEPT !.pc = "recheck", !.addr = allocated_offset]]
  BY DEF TypeOK, allocate, RelRecord, RelPc
<1> QED BY <1>1, <1>2 DEF RelRecord, RelPc

LEMMA GotoEffect ==
    ASSUME TypeOK, NEW t \in Thread, NEW step \in UserPc, Goto(t, step)
    PROVE  /\ user'[t].pc = step /\ user'[t].obj = user[t].obj
           /\ user'[t].ref = user[t].ref /\ user'[t].act = user[t].act
           /\ \A x \in Thread : x # t => user'[x] = user[x]
           /\ user' \in [Thread -> UserRecord]
<1>1. user \in [Thread -> UserRecord] /\ user' = [user EXCEPT ![t].pc = step]
  BY DEF TypeOK, Goto, UserRecord, UserPc
<1> QED BY <1>1 DEF UserRecord

LEMMA ReferEffect ==
    ASSUME TypeOK, NEW t \in Thread, NEW ref \in Addr, Refer(t, ref)
    PROVE  /\ user'[t].pc = "guard" /\ user'[t].obj = user[t].obj
           /\ user'[t].ref = ref /\ user'[t].act = user[t].act
           /\ \A x \in Thread : x # t => user'[x] = user[x]
           /\ user' \in [Thread -> UserRecord]
<1>1. /\ user \in [Thread -> UserRecord] /\ "guard" \in UserPc
      /\ user' = [user EXCEPT ![t] = [@ EXCEPT !.pc = "guard", !.ref = ref]]
  BY DEF TypeOK, Refer, UserRecord, UserPc
<1> QED BY <1>1 DEF UserRecord

-----------------------------------------------------------------------------
(* Types.  What a record's obj, addr and ref hold depends on its step, and *)
(* use_count stays a natural number because it counts guards.              *)
RelTypes ==
    \A w \in Worker :
        /\ ~Relocating(w, "idle") => rel[w].obj \in Obj
        /\ Holding(w) => rel[w].addr \in Addr
UserTypes ==
    \A t \in Thread :
        /\ ~UserAt(t, "idle") => user[t].obj \in Obj
        /\ user[t].pc \in {"guard", "access", "release"} => user[t].ref \in Addr \cup {Old}
Guards == {t \in Thread : user[t].pc \in {"access", "release"} /\ OnOld(t)}
UseCounted == use_count = Cardinality(Guards)
TypeInv == TypeOK /\ RelTypes /\ UserTypes /\ UseCounted

(* Threads join and leave the guards one at a time. *)
LEMMA GuardsFinite == IsFiniteSet(Guards) /\ Cardinality(Guards) \in Nat
<1>1. Guards \subseteq Thread /\ IsFiniteSet(Thread)
  BY WorkerAssumption DEF Guards
<1> QED BY <1>1, FS_Subset, FS_CardinalityType

LEMMA InitTypeInv == Init => TypeInv
<1> SUFFICES ASSUME Init PROVE TypeInv
  OBVIOUS
<1>1. TypeOK
  <2>1. {evacuated, freed} \subseteq BOOLEAN
    BY Zenon DEF Init
  <2>2. use_count \in Nat /\ allocated_offset \in 0..Capacity
    BY CapacityAssumption DEF Init
  <2>3. rel \in [Worker -> RelRecord] /\ user \in [Thread -> UserRecord]
    BY DEF Init, NoRelocation, NoAccess, RelRecord, UserRecord, RelPc, UserPc, Action
  <2> QED BY <2>1, <2>2, <2>3 DEF Init, TypeOK, RelRecord, UserRecord, RelPc, UserPc
<1>2. RelTypes /\ UserTypes
  BY DEF Init, RelTypes, UserTypes, NoRelocation, NoAccess, Relocating, UserAt, Holding
<1>3. Guards = {}
  BY DEF Init, NoAccess, Guards
<1>4. UseCounted
  BY <1>3, FS_EmptySet DEF Init, UseCounted
<1> QED BY <1>1, <1>2, <1>4 DEF TypeInv

(* The types of a step of a relocation. *)
LEMMA RelocateKeepsTypes ==
    ASSUME TypeInv, NEW w \in Worker, relocateObject(w)
    PROVE  TypeInv'
<1> USE DEF TypeInv
<1>1. /\ user' = user /\ use_count' = use_count /\ evacuated' = evacuated /\ freed' = freed
      /\ old' = old /\ gcpc' = gcpc /\ left' = left /\ overtaken' = overtaken
  BY DEF relocateObject, CheckRegion, LookUp, allocate, Recheck, Copy, Publish, FindMap, Register,
         Undo, Retract, regionVars, memoryVars, gcVars
<1>2. UserTypes' /\ UseCounted'
  BY <1>1 DEF UserTypes, UseCounted, Guards, OnOld, UserAt
<1>3. /\ rel[w].pc # "idle" /\ rel[w].obj \in Obj /\ (Holding(w) => rel[w].addr \in Addr)
      /\ forwarding_table \in [Obj -> Addr \cup {None}]
      /\ cell \in [Addr -> Value \cup {Garbage}] /\ old \in [Obj -> Value]
      /\ allocated_offset \in 0..Capacity /\ destructors \subseteq Obj
  BY DEF relocateObject, CheckRegion, LookUp, allocate, Recheck, Copy, Publish, FindMap, Register,
         Undo, Retract, RelTypes, Relocating, TypeOK
<1>4. rel' \in [Worker -> RelRecord] /\ RelTypes'
  <2>1. CASE CheckRegion(w) \/ LookUp(w) \/ Recheck(w) \/ Copy(w) \/ Publish(w) \/ Undo(w)
    BY <2>1, <1>3, RelGotoEffect, RelReturnEffect
       DEF CheckRegion, LookUp, Recheck, Copy, Publish, Undo, RelTypes, Relocating, Holding, RelPc
  <2>2. CASE FindMap(w) \/ Register(w) \/ Retract(w)
    BY <2>2, <1>3, RelGotoEffect, RelReturnEffect
       DEF FindMap, Register, Retract, RelTypes, Relocating, Holding, RelPc
  <2>3. CASE allocate(w)
    BY <2>3, <1>3, AllocateEffect DEF RelTypes, Relocating, Holding
  <2> QED BY <2>1, <2>2, <2>3 DEF relocateObject
<1>5. /\ forwarding_table' \in [Obj -> Addr \cup {None}]
      /\ cell' \in [Addr -> Value \cup {Garbage}]
      /\ allocated_offset' \in 0..Capacity /\ destructors' \subseteq Obj
  <2>1. CASE CheckRegion(w) \/ LookUp(w) \/ Recheck(w) \/ Undo(w) \/ FindMap(w) \/ Register(w)
    BY <2>1, <1>3 DEF CheckRegion, LookUp, Recheck, Undo, FindMap, Register, memoryVars, receiverVars
  <2>2. CASE Copy(w) \/ Publish(w)
    BY <2>2, <1>3 DEF Copy, Publish, Relocating, Holding, receiverVars, memoryVars
  <2>3. CASE Retract(w)
    BY <2>3, <1>3, CapacityAssumption DEF Retract, Relocating, Holding, Addr, memoryVars
  <2>4. CASE allocate(w)
    BY <2>4, <1>3, AllocateEffect DEF allocate, memoryVars
  <2> QED BY <2>1, <2>2, <2>3, <2>4 DEF relocateObject
<1>6. {evacuated', freed'} \subseteq BOOLEAN
  BY <1>1, Zenon DEF TypeOK
<1>7. TypeOK'
  BY <1>1, <1>4, <1>5, <1>6 DEF TypeOK, RelRecord, RelPc
<1> QED BY <1>2, <1>4, <1>7

(* The PtrGuards are counted: an increment puts its thread among them and  *)
(* a decrement takes it out, other steps of a dereference do neither.      *)
LEMMA CountFollows ==
    ASSUME TypeInv, NEW t \in Thread, user' \in [Thread -> UserRecord],
           \A x \in Thread : x # t => user'[x] = user[x],
           \/ (t \in Guards <=> t \in Guards') /\ use_count' = use_count
           \/ t \notin Guards /\ t \in Guards' /\ use_count' = use_count + 1
           \/ t \in Guards /\ t \notin Guards' /\ use_count' = use_count - 1
    PROVE  UseCounted' /\ use_count' \in Nat
<1>1. /\ IsFiniteSet(Guards) /\ Cardinality(Guards) \in Nat
      /\ use_count = Cardinality(Guards)
  BY GuardsFinite DEF TypeInv, UseCounted
<1>2. \A x \in Thread : x # t => (x \in Guards <=> x \in Guards')
  BY DEF Guards, OnOld
<1>3. Guards \subseteq Thread /\ Guards' \subseteq Thread
  BY DEF Guards
<1>4. CASE (t \in Guards <=> t \in Guards') /\ use_count' = use_count
  <2>1. Guards' = Guards
    BY <1>2, <1>3, <1>4
  <2> QED BY <1>1, <1>4, <2>1 DEF UseCounted
<1>5. CASE t \notin Guards /\ t \in Guards' /\ use_count' = use_count + 1
  <2>1. Guards' = Guards \cup {t}
    BY <1>2, <1>3, <1>5
  <2>2. Cardinality(Guards \cup {t}) = Cardinality(Guards) + 1
    BY <1>1, <1>5, FS_AddElement
  <2> QED BY <1>1, <1>5, <2>1, <2>2 DEF UseCounted
<1>6. CASE t \in Guards /\ t \notin Guards' /\ use_count' = use_count - 1
  <2>1. Guards' = Guards \ {t}
    BY <1>2, <1>3, <1>6
  <2>2. Cardinality(Guards \ {t}) = Cardinality(Guards) - 1 /\ IsFiniteSet(Guards \ {t})
    BY <1>1, <1>6, FS_RemoveElement
  <2>3. Cardinality(Guards \ {t}) \in Nat
    BY <2>2, FS_CardinalityType
  <2> QED BY <1>1, <1>6, <2>1, <2>2, <2>3 DEF UseCounted
<1> QED BY <1>4, <1>5, <1>6

(* What each step of a dereference does to the thread's record. *)
LEMMA DereferenceEffect ==
    ASSUME TypeInv, NEW t \in Thread, dereference(t)
    PROVE  /\ user' \in [Thread -> UserRecord]
           /\ \A x \in Thread : x # t => user'[x] = user[x]
           /\ user'[t].pc # "idle" => user'[t].obj \in Obj
           /\ user'[t].pc \in {"guard", "access", "release"} => user'[t].ref \in Addr \cup {Old}
           /\ \/ (t \in Guards <=> t \in Guards') /\ use_count' = use_count
              \/ t \notin Guards /\ t \in Guards' /\ use_count' = use_count + 1
              \/ t \in Guards /\ t \notin Guards' /\ use_count' = use_count - 1
<1> USE DEF TypeInv
<1>1. /\ user \in [Thread -> UserRecord] /\ forwarding_table \in [Obj -> Addr \cup {None}]
      /\ user[t].pc # "idle" => user[t].obj \in Obj
      /\ user[t].pc \in {"guard", "access", "release"} => user[t].ref \in Addr \cup {Old}
  BY DEF TypeOK, UserTypes, UserAt, UserRecord, UserPc
<1>2. ASSUME NEW o \in Obj, getRaw(t, o)
      PROVE  /\ user' \in [Thread -> UserRecord]
             /\ \A x \in Thread : x # t => user'[x] = user[x]
             /\ user'[t].obj = o /\ user'[t].pc \in {"guard", "query"}
             /\ user'[t].pc = "guard" => user'[t].ref = Old
             /\ t \notin Guards /\ t \notin Guards' /\ use_count' = use_count
  <2> DEFINE raw == [pc |-> "guard", obj |-> o, ref |-> Old, act |-> None]
             query == [pc |-> "query", obj |-> o, ref |-> None, act |-> None]
  <2>1. user' = [user EXCEPT ![t] = raw] \/ user' = [user EXCEPT ![t] = query]
    BY <1>2 DEF getRaw
  <2>2. raw \in UserRecord /\ query \in UserRecord
    BY DEF UserRecord, UserPc, Action
  <2>3. user[t].pc = "idle" /\ use_count' = use_count
    BY <1>2 DEF getRaw, UserAt, regionVars
  <2> QED BY <1>1, <2>1, <2>2, <2>3 DEF Guards, OnOld
<1>3. CASE getHealedPointer(t) \/ QueryAgain(t)
  <2>1. /\ user[t].pc \in {"query", "again"} /\ use_count' = use_count
        /\ \/ Refer(t, forwarding_table[user[t].obj]) /\ forwarding_table[user[t].obj] # None
           \/ Goto(t, "again") \/ Goto(t, "throw")
    BY <1>3 DEF getHealedPointer, QueryAgain, UserAt, Forwarded, regionVars
  <2>2. /\ user[t].obj \in Obj
        /\ forwarding_table[user[t].obj] # None => forwarding_table[user[t].obj] \in Addr
    BY <1>1, <2>1
  <2> QED BY <2>1, <2>2, ReferEffect, GotoEffect DEF Guards, OnOld, UserPc
<1>4. CASE inc_use_count(t)
  <2>1. /\ user[t].pc = "guard" /\ Goto(t, "access")
        /\ use_count' = IF OnOld(t) THEN use_count + 1 ELSE use_count
    BY <1>4 DEF inc_use_count, UserAt
  <2> QED BY <1>1, <2>1, GotoEffect DEF Guards, OnOld, UserPc
<1>5. CASE Access(t)
  <2>1. /\ user[t].pc = "access" /\ use_count' = use_count
        /\ user[t].obj \in Obj /\ user[t].ref \in Addr \cup {Old}
    BY <1>1, <1>5 DEF Access, UserAt, regionVars
  <2>2. Dereference(t) \in Value \cup {Garbage}
    BY <2>1 DEF Dereference, OnOld, TypeOK
  <2>3. \E act \in Action : user' = [user EXCEPT ![t] = [@ EXCEPT !.pc = "release", !.act = act]]
    BY <1>5, <2>1, <2>2 DEF Access, Action
  <2>4. "release" \in UserPc
    BY DEF UserPc
  <2> QED BY <1>1, <2>1, <2>3, <2>4 DEF UserRecord, Guards, OnOld
<1>6. CASE dec_use_count(t)
  <2>1. /\ user[t].pc = "release" /\ user' = [user EXCEPT ![t] = NoAccess]
        /\ use_count' = IF OnOld(t) THEN use_count - 1 ELSE use_count
    BY <1>6 DEF dec_use_count, UserAt
  <2>2. NoAccess \in UserRecord /\ NoAccess.pc = "idle"
    BY DEF NoAccess, UserRecord, UserPc, Action
  <2> QED BY <1>1, <2>1, <2>2 DEF Guards, OnOld
<1> QED BY <1>2, <1>3, <1>4, <1>5, <1>6 DEF dereference

LEMMA DereferenceKeepsTypes ==
    ASSUME TypeInv, NEW t \in Thread, dereference(t)
    PROVE  TypeInv'
<1> USE DEF TypeInv
<1>1. /\ user' \in [Thread -> UserRecord] /\ UserTypes'
      /\ UseCounted' /\ use_count' \in Nat
  <2>1. UseCounted' /\ use_count' \in Nat
    BY DereferenceEffect, CountFollows
  <2> QED BY <2>1, DereferenceEffect DEF UserTypes, UserAt
<1>2. /\ evacuated' = evacuated /\ freed' = freed /\ forwarding_table' = forwarding_table
      /\ allocated_offset' = allocated_offset /\ destructors' = destructors
      /\ gcpc' = gcpc /\ left' = left /\ overtaken' = overtaken
  BY DEF dereference, getRaw, getHealedPointer, QueryAgain, inc_use_count, Access, dec_use_count,
         regionVars, receiverVars, gcVars
<1>3. {evacuated', freed'} \subseteq BOOLEAN
  BY <1>2, Zenon DEF TypeOK
<1>4. rel' \in [Worker -> RelRecord] /\ RelTypes'
  <2>1. CASE rel' = rel
    BY <2>1 DEF RelTypes, Relocating, Holding, TypeOK, RelRecord, RelPc
  <2>2. CASE user[t].obj \in Obj /\ Call(t, user[t].obj)
    <3>1. t \in Worker
      BY DEF Worker
    <3> QED BY <2>2, <3>1, CallEffect DEF RelTypes, Relocating, Holding
  <2>3. UserAt(t, "query") => user[t].obj \in Obj
    BY DEF UserTypes, UserAt
  <2> QED BY <2>1, <2>2, <2>3
          DEF dereference, getRaw, getHealedPointer, QueryAgain, inc_use_count, Access, dec_use_count
<1>5. old' \in [Obj -> Value] /\ cell' \in [Addr -> Value \cup {Garbage}]
  <2>1. old \in [Obj -> Value] /\ cell \in [Addr -> Value \cup {Garbage}]
    BY DEF TypeOK
  <2>2. CASE Access(t)
    BY <2>1, <2>2 DEF Access, memoryVars, OnOld, UserTypes, UserAt
  <2> QED BY <2>1, <2>2
          DEF dereference, getRaw, getHealedPointer, QueryAgain, inc_use_count, dec_use_count, memoryVars
<1>6. TypeOK'
  BY <1>1, <1>2, <1>3, <1>4, <1>5 DEF TypeOK, UserRecord, UserPc, RelRecord, RelPc
<1> QED BY <1>1, <1>4, <1>6

(* The GC thread's own steps. *)
LEMMA GCKeepsTypes ==
    ASSUME TypeInv, Select \/ triggerRelocation
    PROVE  TypeInv'
<1> USE DEF TypeInv
<1>1. /\ use_count' = use_count /\ forwarding_table' = forwarding_table /\ user' = user
      /\ old' = old /\ cell' = cell /\ allocated_offset' = allocated_offset
      /\ destructors' = destructors
      /\ gcpc' \in {"marking", "wait", "waitAgain", "relocate", "freeing", "done"}
  BY DEF Select, triggerRelocation, WaitForGuards, WaitAgain, RelocateNext, free, ClearAddress,
         GCGoto, regionVars, memoryVars, receiverVars, TypeOK
<1>2. UserTypes' /\ UseCounted'
  BY <1>1 DEF UserTypes, UseCounted, Guards, OnOld, UserAt
<1>3. {evacuated', freed'} \subseteq BOOLEAN
  <2>1. evacuated' \in {evacuated, TRUE} /\ freed' \in {freed, TRUE}
    BY Zenon DEF Select, triggerRelocation, WaitForGuards, WaitAgain, RelocateNext, free,
       ClearAddress, GCGoto, regionVars
  <2> QED BY <2>1, Zenon DEF TypeOK
<1>4. rel' \in [Worker -> RelRecord] /\ RelTypes' /\ left' \subseteq Obj
  <2>1. left \subseteq Obj /\ GC \in Worker
    BY DEF TypeOK, Worker
  <2>2. CASE rel' = rel /\ left' = left
    BY <2>1, <2>2 DEF RelTypes, Relocating, Holding, TypeOK, RelRecord, RelPc
  <2>3. CASE RelocateNext
    BY <2>1, <2>3, CallEffect DEF RelocateNext, RelTypes, Relocating, Holding
  <2> QED BY <2>2, <2>3
          DEF Select, triggerRelocation, WaitForGuards, WaitAgain, free, ClearAddress
<1>5. overtaken' \subseteq Obj
  <2>1. overtaken \subseteq Obj /\ \A w \in Worker : Registering(w) => rel[w].obj \in Obj
    BY DEF TypeOK, RelTypes, Registering, Relocating
  <2>2. CASE overtaken' = overtaken
    BY <2>1, <2>2
  <2>3. CASE free
    BY <2>1, <2>3 DEF free, ReleaseMaps
  <2> QED BY <2>2, <2>3
          DEF Select, triggerRelocation, WaitForGuards, WaitAgain, RelocateNext, ClearAddress
<1>6. TypeOK'
  BY <1>1, <1>3, <1>4, <1>5 DEF TypeOK, RelRecord, RelPc
<1> QED BY <1>2, <1>4, <1>6

LEMMA StutterKeepsTypes ==
    ASSUME TypeInv, UNCHANGED vars
    PROVE  TypeInv'
<1>1. TypeOK'
  BY Zenon DEF TypeInv, TypeOK, vars, regionVars, memoryVars, receiverVars, gcVars
<1>2. RelTypes' /\ UserTypes' /\ UseCounted'
  BY DEF TypeInv, vars, RelTypes, UserTypes, UseCounted, Guards, OnOld, UserAt, Relocating, Holding,
         regionVars, memoryVars, receiverVars, gcVars
<1> QED BY <1>1, <1>2 DEF TypeInv

LEMMA TypesInductive == TypeInv /\ [Next]_vars => TypeInv'
<1> SUFFICES ASSUME TypeInv, [Next]_vars PROVE TypeInv'
  OBVIOUS
<1>1. CASE Select \/ triggerRelocation
  BY <1>1, GCKeepsTypes
<1>2. ASSUME NEW w \in Worker, relocateObject(w) PROVE TypeInv'
  BY <1>2, RelocateKeepsTypes
<1>3. ASSUME NEW t \in Thread, dereference(t) PROVE TypeInv'
  BY <1>3, DereferenceKeepsTypes
<1>4. CASE UNCHANGED vars
  BY <1>4, StutterKeepsTypes
<1> QED BY <1>1, <1>2, <1>3, <1>4 DEF Next, Finished

(* Every field of the region keeps to its range; in particular use_count   *)
(* is never decremented below zero (GCRegion.h: dec_use_count).            *)
THEOREM RelocationTypeCorrect == Spec => []TypeOK
<1>1. Spec => []TypeInv
  BY InitTypeInv, TypesInductive, PTL DEF Spec
<1>2. TypeInv => TypeOK
  BY DEF TypeInv
<1> QED BY <1>1, <1>2, PTL

-----------------------------------------------------------------------------
(* Addresses.  NoOverlap taken apart: what is owned lies below the offset, *)
(* and a worker that holds an address shares it with nobody.               *)
HeldBelow == \A w \in Worker : Holding(w) => rel[w].addr < allocated_offset
ForwardedBelow == \A o \in Obj : Forwarded(o) => forwarding_table[o] < allocated_offset
HeldApart ==
    \A v, w \in Worker : Holding(v) /\ Holding(w) /\ rel[v].addr = rel[w].addr => v = w
ForwardedApart ==
    \A o, p \in Obj : Forwarded(o) /\ forwarding_table[o] = forwarding_table[p] => o = p
HeldUnforwarded ==
    \A w \in Worker, o \in Obj : Holding(w) /\ Forwarded(o) => rel[w].addr # forwarding_table[o]
AddrInv == HeldBelow /\ ForwardedBelow /\ HeldApart /\ ForwardedApart /\ HeldUnforwarded

(* Nobody comes to own anything. *)
LEMMA FewerOwners ==
    ASSUME AddrInv, forwarding_table' = forwarding_table, allocated_offset' = allocated_offset,
           \A w \in Worker : Holding(w)' => Holding(w) /\ rel'[w].addr = rel[w].addr
    PROVE  AddrInv'
BY DEF AddrInv, HeldBelow, ForwardedBelow, HeldApart, ForwardedApart, HeldUnforwarded, Forwarded

LEMMA AllocateKeepsAddr ==
    ASSUME TypeInv, AddrInv, NEW w \in Worker, allocate(w)
    PROVE  AddrInv'
<1>1. /\ rel'[w].addr = allocated_offset /\ allocated_offset' = allocated_offset + 1
      /\ \A x \in Worker : x # w => rel'[x] = rel[x]
  BY AllocateEffect DEF TypeInv
<1>2. forwarding_table' = forwarding_table /\ allocated_offset \in Nat
  BY CapacityAssumption DEF allocate, TypeInv, TypeOK
<1>3. \A x \in Worker : Holding(x) => rel[x].addr \in Nat /\ rel[x].addr < allocated_offset
  BY CapacityAssumption DEF TypeInv, RelTypes, AddrInv, HeldBelow, Addr
<1>4. \A o \in Obj : Forwarded(o) =>
          forwarding_table[o] \in Nat /\ forwarding_table[o] < allocated_offset
  BY CapacityAssumption DEF TypeInv, TypeOK, AddrInv, ForwardedBelow, Addr, Forwarded
<1>5. \A x \in Worker : x # w => (Holding(x)' <=> Holding(x)) /\ rel'[x].addr = rel[x].addr
  BY <1>1 DEF Holding
<1>6. \A o \in Obj : Forwarded(o)' <=> Forwarded(o)
  BY <1>2 DEF Forwarded
<1>7. HeldBelow'
  BY <1>1, <1>2, <1>3, <1>5 DEF HeldBelow
<1>8. ForwardedBelow'
  BY <1>1, <1>2, <1>4, <1>6 DEF ForwardedBelow
<1>9. HeldApart'
  BY <1>1, <1>2, <1>3, <1>5 DEF HeldApart, AddrInv
<1>10. ForwardedApart'
  BY <1>2, <1>6 DEF ForwardedApart, AddrInv
<1>11. HeldUnforwarded'
  BY <1>1, <1>2, <1>4, <1>5, <1>6 DEF HeldUnforwarded, AddrInv
<1> QED BY <1>7, <1>8, <1>9, <1>10, <1>11 DEF AddrInv

(* The address passes from the worker to the object. *)
LEMMA PublishKeepsAddr ==
    ASSUME TypeInv, AddrInv, NEW w \in Worker, Publish(w), ~Forwarded(rel[w].obj)
    PROVE  AddrInv'
<1> DEFINE o == rel[w].obj
           a == rel[w].addr
<1>1. o \in Obj /\ a \in Addr /\ Holding(w) /\ a # None
  BY MarkerAssumption DEF TypeInv, RelTypes, Publish, Relocating, Holding
<1>2. /\ forwarding_table' = [forwarding_table EXCEPT ![o] = a]
      /\ RelGoto(w, "find") /\ allocated_offset' = allocated_offset
  BY DEF Publish, receiverVars
<1>3. /\ ~Holding(w)'
      /\ \A x \in Worker : x # w => (Holding(x)' <=> Holding(x)) /\ rel'[x].addr = rel[x].addr
  BY <1>2, RelGotoEffect DEF TypeInv, Holding, RelPc
<1>4. /\ forwarding_table'[o] = a
      /\ \A p \in Obj : p # o => forwarding_table'[p] = forwarding_table[p]
  BY <1>1, <1>2 DEF TypeInv, TypeOK
<1>5. \A p \in Obj : p # o => (Forwarded(p)' <=> Forwarded(p))
  BY <1>4 DEF Forwarded
<1> HIDE DEF o, a
<1>6. HeldBelow' /\ HeldApart'
  BY <1>2, <1>3 DEF AddrInv, HeldBelow, HeldApart
<1>7. a < allocated_offset /\ \A p \in Obj : forwarding_table[p] # a
  BY <1>1, MarkerAssumption DEF AddrInv, HeldBelow, HeldUnforwarded, Forwarded, a
<1>8. ForwardedBelow' /\ ForwardedApart'
  BY <1>1, <1>2, <1>4, <1>5, <1>7 DEF AddrInv, ForwardedBelow, ForwardedApart
<1>9. \A x \in Worker : x # w /\ Holding(x) => rel[x].addr # a
  BY <1>1 DEF AddrInv, HeldApart, a
<1>10. HeldUnforwarded'
  BY <1>3, <1>4, <1>5, <1>9 DEF AddrInv, HeldUnforwarded
<1> QED BY <1>6, <1>8, <1>10 DEF AddrInv

(* What is withdrawn was the last allocation. *)
LEMMA RetractKeepsAddr ==
    ASSUME TypeInv, AddrInv, NEW w \in Worker, Retract(w), allocated_offset = rel[w].addr + 1
    PROVE  AddrInv'
<1>1. /\ Holding(w) /\ rel[w].addr \in Nat /\ RelReturn(w)
      /\ allocated_offset' = rel[w].addr /\ forwarding_table' = forwarding_table
  BY CapacityAssumption DEF TypeInv, RelTypes, Retract, Relocating, Holding, Addr
<1>2. /\ ~Holding(w)'
      /\ \A x \in Worker : x # w => (Holding(x)' <=> Holding(x)) /\ rel'[x].addr = rel[x].addr
  BY <1>1, RelReturnEffect DEF TypeInv, Holding
<1>3. \A o \in Obj : Forwarded(o)' <=> Forwarded(o)
  BY <1>1 DEF Forwarded
<1>4. \A x \in Worker : x # w /\ Holding(x) => rel[x].addr \in Nat /\ rel[x].addr < rel[w].addr
  <2> SUFFICES ASSUME NEW x \in Worker, x # w, Holding(x)
               PROVE  rel[x].addr \in Nat /\ rel[x].addr < rel[w].addr
    OBVIOUS
  <2>1. rel[x].addr \in Nat /\ rel[x].addr < rel[w].addr + 1 /\ rel[x].addr # rel[w].addr
    BY <1>1, CapacityAssumption DEF TypeInv, RelTypes, AddrInv, HeldBelow, HeldApart, Addr
  <2> QED BY <1>1, <2>1
<1>5. \A o \in Obj : Forwarded(o) => forwarding_table[o] < rel[w].addr
  <2> SUFFICES ASSUME NEW o \in Obj, Forwarded(o) PROVE forwarding_table[o] < rel[w].addr
    OBVIOUS
  <2>1. forwarding_table[o] \in Nat
    BY CapacityAssumption DEF TypeInv, TypeOK, Forwarded, Addr
  <2>2. forwarding_table[o] < rel[w].addr + 1 /\ forwarding_table[o] # rel[w].addr
    BY <1>1 DEF AddrInv, ForwardedBelow, HeldUnforwarded
  <2> QED BY <1>1, <2>1, <2>2
<1>6. HeldBelow' /\ HeldApart' /\ HeldUnforwarded'
  BY <1>1, <1>2, <1>3, <1>4 DEF AddrInv, HeldBelow, HeldApart, HeldUnforwarded
<1>7. ForwardedBelow' /\ ForwardedApart'
  BY <1>1, <1>3, <1>5 DEF AddrInv, ForwardedBelow, ForwardedApart
<1> QED BY <1>6, <1>7 DEF AddrInv

LEMMA InitAddrInv == Init => AddrInv
BY DEF Init, AddrInv, HeldBelow, ForwardedBelow, HeldApart, ForwardedApart, HeldUnforwarded,
       Holding, Forwarded, NoRelocation

LEMMA AddrInductive == TypeInv /\ AddrInv /\ [Next]_vars => AddrInv'
<1> SUFFICES ASSUME TypeInv, AddrInv, [Next]_vars PROVE AddrInv'
  OBVIOUS
<1> USE DEF TypeInv
<1>1. ASSUME NEW w \in Worker, relocateObject(w) PROVE AddrInv'
  <2>1. CASE CheckRegion(w) \/ LookUp(w) \/ FindMap(w) \/ Register(w)
    BY <2>1, RelGotoEffect, RelReturnEffect, FewerOwners
       DEF CheckRegion, LookUp, FindMap, Register, Holding, RelPc, receiverVars
  <2>2. CASE Recheck(w) \/ Copy(w) \/ Undo(w)
    BY <2>2, RelGotoEffect, RelReturnEffect, FewerOwners
       DEF Recheck, Copy, Undo, Holding, Relocating, RelPc, receiverVars
  <2>3. CASE Publish(w)
    <3>1. CASE Forwarded(rel[w].obj)
      BY <2>3, <3>1, RelGotoEffect, FewerOwners DEF Publish, Holding, Relocating, RelPc, receiverVars
    <3> QED BY <2>3, <3>1, PublishKeepsAddr
  <2>4. CASE Retract(w)
    <3>1. CASE allocated_offset # rel[w].addr + 1
      BY <2>4, <3>1, RelGotoEffect, FewerOwners DEF Retract, Holding, Relocating, RelPc
    <3> QED BY <2>4, <3>1, RetractKeepsAddr
  <2> QED BY <1>1, <2>1, <2>2, <2>3, <2>4, AllocateKeepsAddr DEF relocateObject
<1>2. ASSUME NEW t \in Thread, dereference(t) PROVE AddrInv'
  <2>1. forwarding_table' = forwarding_table /\ allocated_offset' = allocated_offset
    BY <1>2 DEF dereference, getRaw, getHealedPointer, QueryAgain, inc_use_count, Access,
                dec_use_count, receiverVars
  <2>2. rel' = rel \/ (t \in Worker /\ user[t].obj \in Obj /\ Call(t, user[t].obj))
    BY <1>2 DEF dereference, getRaw, getHealedPointer, QueryAgain, inc_use_count, Access,
                dec_use_count, UserTypes, UserAt, Worker
  <2> QED BY <2>1, <2>2, CallEffect, FewerOwners DEF Holding
<1>3. CASE Select \/ triggerRelocation
  <2>1. forwarding_table' = forwarding_table /\ allocated_offset' = allocated_offset
    BY <1>3 DEF Select, triggerRelocation, WaitForGuards, WaitAgain, RelocateNext, free,
                ClearAddress, GCGoto, receiverVars
  <2>2. rel' = rel \/ (GC \in Worker /\ \E o \in Obj : Call(GC, o))
    BY <1>3 DEF Select, triggerRelocation, WaitForGuards, WaitAgain, RelocateNext, free,
                ClearAddress, TypeOK, Worker
  <2> QED BY <2>1, <2>2, CallEffect, FewerOwners DEF Holding
<1>4. CASE UNCHANGED vars
  BY <1>4, FewerOwners DEF vars, receiverVars, Holding
<1> QED BY <1>1, <1>2, <1>3, <1>4 DEF Next, Finished

LEMMA AlwaysTypedAndApart == Spec => [](TypeInv /\ AddrInv)
BY InitTypeInv, InitAddrInv, TypesInductive, AddrInductive, PTL DEF Spec

(* No two objects ever share an address of the receiving region, however   *)
(* many workers race and withdraw what they allocated (GCRegion.cpp:262    *)
(* relocateObject with GCRegion::free).                                    *)
THEOREM RelocationNoOverlap == Spec => []NoOverlap
<1>1. TypeInv /\ AddrInv => NoOverlap
  <2> SUFFICES ASSUME TypeInv, AddrInv, NEW a \in Addr
               PROVE  /\ \A x, y \in Owners(a) : x = y
                      /\ a >= allocated_offset => Owners(a) = {}
    BY DEF NoOverlap
  <2>1. /\ a # None /\ a \in Nat /\ allocated_offset \in Nat
        /\ \A o \in Obj : forwarding_table[o] = a => Forwarded(o)
    BY MarkerAssumption, CapacityAssumption DEF Addr, TypeInv, TypeOK, Forwarded
  <2>2. \A x, y \in Owners(a) : x = y
    BY <2>1 DEF Owners, AddrInv, HeldApart, ForwardedApart, HeldUnforwarded
  <2>3. \A x \in Owners(a) : a < allocated_offset
    BY <2>1 DEF Owners, AddrInv, HeldBelow, ForwardedBelow
  <2> QED BY <2>1, <2>2, <2>3
<1> QED BY <1>1, AlwaysTypedAndApart, PTL

-----------------------------------------------------------------------------
(* What all the steps of a relocation have in common.  Until a worker has  *)
(* come back it looks for or makes the copy, afterwards the object is      *)
(* forwarded, unless the region was freed.                                 *)
Back == {"undo", "retract", "find", "register", "crash"}
Front == {"check", "lookup", "allocate", "recheck", "copy", "publish"}

LEMMA ForwardedStaysInRelocation ==
    ASSUME TypeInv, NEW w \in Worker, relocateObject(w), NEW o \in Obj, Forwarded(o)
    PROVE  forwarding_table'[o] = forwarding_table[o] /\ Forwarded(o)'
<1>1. forwarding_table \in [Obj -> Addr \cup {None}]
  BY DEF TypeInv, TypeOK
<1>2. \/ forwarding_table' = forwarding_table
      \/ /\ ~Forwarded(rel[w].obj)
         /\ forwarding_table' = [forwarding_table EXCEPT ![rel[w].obj] = rel[w].addr]
  BY DEF relocateObject, CheckRegion, LookUp, allocate, Recheck, Copy, Publish, FindMap, Register, Undo, Retract
<1> QED BY <1>1, <1>2 DEF Forwarded

LEMMA RelocateEffect ==
    ASSUME TypeInv, NEW w \in Worker, relocateObject(w), NEW o \in Obj, o = rel[w].obj
    PROVE  /\ \A x \in Worker : x # w => rel'[x] = rel[x]
           /\ rel[w].pc # "idle"
           /\ rel'[w].pc # "idle" => rel'[w].obj = o
           /\ rel'[w].pc \in Front => rel[w].pc \in Front
           /\ rel'[w].pc \in Back \cup {"idle"} =>
                  freed \/ Forwarded(o)' \/ rel[w].pc \in Back
           /\ user' = user /\ gcpc' = gcpc /\ left' = left
           /\ freed' = freed /\ old' = old
<1> USE DEF TypeInv
<1>1. /\ user' = user /\ gcpc' = gcpc /\ left' = left /\ freed' = freed /\ old' = old
      /\ rel[w].pc # "idle"
  BY DEF relocateObject, CheckRegion, LookUp, allocate, Recheck, Copy, Publish, FindMap, Register, Undo, Retract,
         regionVars, memoryVars, gcVars, Relocating
<1>2. CASE CheckRegion(w) \/ LookUp(w)
  BY <1>1, <1>2, RelGotoEffect, RelReturnEffect, ForwardedStaysInRelocation
     DEF CheckRegion, LookUp, Relocating, Front, Back, RelPc
<1>3. CASE Recheck(w) \/ Copy(w)
  BY <1>1, <1>3, RelGotoEffect DEF Recheck, Copy, Relocating, Front, Back, RelPc
<1>4. CASE allocate(w)
  BY <1>1, <1>4, AllocateEffect DEF allocate, Relocating, Front, Back
<1>5. CASE Publish(w)
  <2>1. RelGoto(w, "undo") \/ RelGoto(w, "find")
    BY <1>5 DEF Publish
  <2>2. /\ \A x \in Worker : x # w => rel'[x] = rel[x]
        /\ rel'[w].obj = rel[w].obj /\ rel'[w].pc \in Back
    BY <2>1, RelGotoEffect DEF Back, RelPc
  <2>3. Forwarded(o)'
    <3>1. CASE Forwarded(o)
      BY <1>1, <3>1, ForwardedStaysInRelocation
    <3>2. CASE ~Forwarded(o)
      <4>1. rel[w].addr \in Addr /\ rel[w].addr # None
        BY <1>5, MarkerAssumption DEF Publish, Relocating, RelTypes, Holding
      <4>2. forwarding_table'[o] = rel[w].addr
        BY <1>1, <1>5, <3>2 DEF Publish, TypeOK
      <4> QED BY <4>1, <4>2 DEF Forwarded
    <3> QED BY <3>1, <3>2
  <2> QED BY <1>1, <2>2, <2>3 DEF Front, Back
<1>6. CASE FindMap(w) \/ Register(w) \/ Undo(w) \/ Retract(w)
  BY <1>1, <1>6, RelGotoEffect, RelReturnEffect
     DEF FindMap, Register, Undo, Retract, Relocating, Front, Back, RelPc
<1> QED BY <1>1, <1>2, <1>3, <1>4, <1>5, <1>6 DEF relocateObject

-----------------------------------------------------------------------------
(* Why the second look-up finds the object.  The region is freed only when *)
(* the GC thread has left nothing unforwarded, so a relocation that meets  *)
(* a freed region has nothing to do either.                                *)
CallsAgree ==
    \A t \in Thread : ~Relocating(t, "idle") => UserAt(t, "again") /\ rel[t].obj = user[t].obj
GCInOrder ==
    /\ ~Relocating(GC, "idle") => gcpc = "relocate"
    /\ freed => gcpc = "done"
NothingLost ==
    \A o \in Obj : Forwarded(o) \/ o \in left \/ (rel[GC].obj = o /\ rel[GC].pc \in Front)
AllForwarded == gcpc \in {"freeing", "done"} => \A o \in Obj : Forwarded(o)
BackForwarded == \A w \in Worker : rel[w].pc \in Back => Forwarded(rel[w].obj)
AgainForwarded ==
    \A t \in Thread : UserAt(t, "again") /\ Relocating(t, "idle") => Forwarded(user[t].obj)
ProgressInv ==
    /\ CallsAgree /\ GCInOrder /\ NothingLost /\ AllForwarded /\ BackForwarded /\ AgainForwarded
    /\ NeverThrows

LEMMA InitProgressInv == Init => ProgressInv
BY DEF Init, ProgressInv, CallsAgree, GCInOrder, NothingLost, AllForwarded, BackForwarded,
       AgainForwarded, NeverThrows, Worker, NoRelocation, NoAccess, Relocating, UserAt, Back

LEMMA RelocateKeepsProgress ==
    ASSUME TypeInv, ProgressInv, NEW w \in Worker, relocateObject(w)
    PROVE  ProgressInv'
<1> USE DEF ProgressInv
<1> DEFINE o == rel[w].obj
<1>1. o \in Obj /\ rel[w].pc # "idle"
  BY DEF TypeInv, RelTypes, Relocating, relocateObject, CheckRegion, LookUp, allocate, Recheck, Copy,
         Publish, FindMap, Register, Undo, Retract
<1>2. /\ \A x \in Worker : x # w => rel'[x] = rel[x]
      /\ rel'[w].pc # "idle" => rel'[w].obj = o
      /\ rel'[w].pc \in Front => rel[w].pc \in Front
      /\ user' = user /\ gcpc' = gcpc /\ left' = left /\ freed' = freed
  BY <1>1, RelocateEffect
<1>3. \A p \in Obj : Forwarded(p) => Forwarded(p)'
  BY ForwardedStaysInRelocation
<1>4. /\ rel \in [Worker -> RelRecord] /\ rel' \in [Worker -> RelRecord]
      /\ GC \in Worker /\ Thread \subseteq Worker /\ GC \notin Thread
  BY RelocateKeepsTypes, WorkerAssumption
     DEF TypeInv, TypeOK, RelRecord, RelPc, Worker
<1>5. freed \/ rel[w].pc \in Back => \A p \in Obj : p = o => Forwarded(p)
  BY <1>1 DEF GCInOrder, AllForwarded, BackForwarded
<1>6. rel'[w].pc \in Back \cup {"idle"} => forwarding_table'[o] # None
  <2> SUFFICES ASSUME NEW p \in Obj, p = o, rel'[w].pc \in Back \cup {"idle"}
               PROVE  Forwarded(p)'
    BY <1>1 DEF Forwarded
  <2>1. freed \/ Forwarded(p)' \/ rel[w].pc \in Back
    BY RelocateEffect
  <2> QED BY <1>3, <1>5, <2>1
<1>7. \A p \in RelPc : p \in Front \/ p \in Back \/ p = "idle"
  BY DEF RelPc, Front, Back
<1>8. rel'[w].pc \in RelPc /\ rel[w].pc \in RelPc
  BY <1>4 DEF RelRecord
<1>9. CallsAgree' /\ GCInOrder' /\ NeverThrows'
  BY <1>1, <1>2, <1>4 DEF CallsAgree, GCInOrder, NeverThrows, Relocating, UserAt
<1>10. AllForwarded'
  BY <1>2, <1>3 DEF AllForwarded
<1>11. NothingLost'
  <2> SUFFICES ASSUME NEW p \in Obj, ~Forwarded(p)', p \notin left'
               PROVE  rel'[GC].obj = p /\ rel'[GC].pc \in Front
    BY DEF NothingLost
  <2>1. rel[GC].obj = p /\ rel[GC].pc \in Front
    BY <1>2, <1>3 DEF NothingLost
  <2>2. CASE w = GC
    <3>1. o = p /\ rel'[w].pc \notin Back \cup {"idle"}
      BY <1>6, <2>1, <2>2 DEF Forwarded
    <3> QED BY <1>2, <1>7, <1>8, <2>2, <3>1
  <2> QED BY <1>2, <1>4, <2>1, <2>2
<1>12. BackForwarded'
  <2> SUFFICES ASSUME NEW x \in Worker, rel'[x].pc \in Back
               PROVE  forwarding_table'[rel'[x].obj] # None
    BY DEF BackForwarded, Forwarded
  <2>1. CASE x = w
    BY <1>2, <1>6, <2>1 DEF Back
  <2>2. CASE x # w
    <3>1. rel'[x] = rel[x] /\ rel[x].obj \in Obj
      BY <1>2, <2>2 DEF TypeInv, RelTypes, Relocating, Back
    <3> QED BY <1>3, <3>1 DEF BackForwarded, Forwarded
  <2> QED BY <2>1, <2>2
<1>13. AgainForwarded'
  <2> SUFFICES ASSUME NEW t \in Thread, user[t].pc = "again", rel'[t].pc = "idle"
               PROVE  forwarding_table'[user[t].obj] # None
    BY <1>2 DEF AgainForwarded, Forwarded, UserAt, Relocating
  <2>1. user[t].obj \in Obj
    BY DEF TypeInv, UserTypes, UserAt
  <2>2. CASE t = w
    BY <1>1, <1>6, <2>2 DEF CallsAgree, Relocating
  <2>3. CASE t # w
    BY <1>2, <1>3, <1>4, <2>1, <2>3 DEF AgainForwarded, Relocating, UserAt, Forwarded
  <2> QED BY <2>2, <2>3
<1> QED BY <1>9, <1>10, <1>11, <1>12, <1>13

(* A user thread calls relocateObject and waits for it; what it refers to  *)
(* is of no consequence for the relocations.                               *)
LEMMA DereferenceKeepsProgress ==
    ASSUME TypeInv, ProgressInv, NEW t \in Thread, dereference(t)
    PROVE  ProgressInv'
<1> USE DEF ProgressInv
<1>1. /\ forwarding_table' = forwarding_table /\ gcpc' = gcpc /\ left' = left /\ freed' = freed
      /\ \A x \in Thread : x # t => user'[x] = user[x]
      /\ user \in [Thread -> UserRecord] /\ t \in Worker /\ GC # t
  BY DereferenceEffect, WorkerAssumption
     DEF dereference, getRaw, getHealedPointer, QueryAgain, inc_use_count, Access, dec_use_count,
         regionVars, gcVars, Worker, TypeInv, TypeOK, UserRecord, UserPc
<1>2. AllForwarded'
  BY <1>1 DEF AllForwarded, Forwarded
<1>3. CASE rel' = rel
  <2>1. GCInOrder' /\ NothingLost' /\ BackForwarded'
    BY <1>1, <1>3 DEF GCInOrder, NothingLost, BackForwarded, Forwarded, Relocating
  <2>2. /\ rel[t].pc # "idle" => user'[t] = user[t]
        /\ user'[t].pc # "again" /\ user'[t].pc # "throw"
    <3>1. rel[t].pc # "idle" => user[t].pc = "again"
      BY DEF CallsAgree, Relocating, UserAt
    <3>2. ~getHealedPointer(t) \/ user'[t].pc = "guard"
      <4> SUFFICES ASSUME getHealedPointer(t) PROVE user'[t].pc = "guard"
        OBVIOUS
      <4>1. ~Call(t, user[t].obj)
        BY <1>1, <1>3, CallEffect, <3>1 DEF getHealedPointer, UserAt, TypeInv, UserTypes
      <4>2. user[t].obj \in Obj /\ Forwarded(user[t].obj) /\ Refer(t, forwarding_table[user[t].obj])
        BY <4>1 DEF getHealedPointer, UserAt, TypeInv, UserTypes
      <4>3. forwarding_table[user[t].obj] \in Addr
        BY <4>2 DEF TypeInv, TypeOK, Forwarded
      <4> QED BY <4>2, <4>3, ReferEffect DEF TypeInv
    <3>3. CASE QueryAgain(t)
      <4>1. user[t].obj \in Obj /\ Forwarded(user[t].obj) /\ rel[t].pc = "idle"
        BY <3>3 DEF QueryAgain, AgainForwarded, UserAt, TypeInv, UserTypes, Relocating
      <4>2. Refer(t, forwarding_table[user[t].obj]) /\ forwarding_table[user[t].obj] \in Addr
        BY <3>3, <4>1 DEF QueryAgain, TypeInv, TypeOK, Forwarded
      <4> QED BY <4>1, <4>2, ReferEffect DEF TypeInv
    <3>4. CASE getHealedPointer(t)
      BY <3>1, <3>2, <3>4 DEF getHealedPointer, UserAt
    <3>5. ASSUME NEW o \in Obj, getRaw(t, o) PROVE rel[t].pc = "idle" /\ user'[t].pc \in {"guard", "query"}
      BY <1>1, <3>1, <3>5 DEF getRaw, UserAt
    <3>6. CASE inc_use_count(t)
      BY <3>1, <3>6, GotoEffect DEF inc_use_count, UserAt, UserPc, TypeInv
    <3>7. CASE Access(t)
      <4>1. user[t].pc = "access" /\ \E act : user' = [user EXCEPT ![t] = [@ EXCEPT !.pc = "release", !.act = act]]
        BY <3>7 DEF Access, UserAt
      <4> QED BY <1>1, <3>1, <4>1 DEF UserRecord
    <3>8. CASE dec_use_count(t)
      BY <1>1, <3>1, <3>8 DEF dec_use_count, UserAt, NoAccess
    <3> QED BY <3>3, <3>4, <3>5, <3>6, <3>7, <3>8 DEF dereference
  <2>3. CallsAgree' /\ NeverThrows' /\ AgainForwarded'
    BY <1>1, <1>3, <2>2 DEF CallsAgree, NeverThrows, AgainForwarded, Relocating, UserAt, Forwarded
  <2> QED BY <1>2, <2>1, <2>3
<1>4. CASE user[t].obj \in Obj /\ Call(t, user[t].obj) /\ Goto(t, "again")
  <2>1. /\ rel'[t].pc = "check" /\ rel'[t].obj = user[t].obj
        /\ \A x \in Worker : x # t => rel'[x] = rel[x]
        /\ user'[t].pc = "again" /\ user'[t].obj = user[t].obj
    BY <1>1, <1>4, CallEffect, GotoEffect DEF TypeInv, UserPc
  <2>2. GCInOrder' /\ NothingLost' /\ BackForwarded'
    BY <1>1, <2>1 DEF GCInOrder, NothingLost, BackForwarded, Forwarded, Relocating, Worker, Back
  <2>3. CallsAgree' /\ NeverThrows' /\ AgainForwarded'
    BY <1>1, <2>1
       DEF CallsAgree, NeverThrows, AgainForwarded, Relocating, UserAt, Forwarded, Worker
  <2> QED BY <1>2, <2>2, <2>3
<1>5. rel' = rel \/ (user[t].obj \in Obj /\ Call(t, user[t].obj) /\ Goto(t, "again"))
  BY DEF dereference, getRaw, getHealedPointer, QueryAgain, inc_use_count, Access, dec_use_count,
         TypeInv, UserTypes, UserAt
<1> QED BY <1>3, <1>4, <1>5

LEMMA GCKeepsProgress ==
    ASSUME TypeInv, ProgressInv, Select \/ triggerRelocation
    PROVE  ProgressInv'
<1> USE DEF ProgressInv
<1>1. /\ user' = user /\ forwarding_table' = forwarding_table
      /\ GC \in Worker /\ Thread \subseteq Worker /\ GC \notin Thread /\ left \subseteq Obj
  BY WorkerAssumption
     DEF Select, triggerRelocation, WaitForGuards, WaitAgain, RelocateNext, free, ClearAddress,
         GCGoto, Worker, TypeInv, TypeOK
<1>2. CASE Select \/ WaitForGuards \/ WaitAgain
  BY <1>1, <1>2 DEF Select, WaitForGuards, WaitAgain, GCGoto, CallsAgree, GCInOrder, NothingLost,
         AllForwarded, BackForwarded, AgainForwarded, NeverThrows, Forwarded, Relocating, UserAt
<1>3. CASE RelocateNext
  <2>1. PICK o \in left : Call(GC, o) /\ left' = left \ {o}
    BY <1>3 DEF RelocateNext
  <2>2. /\ rel'[GC].pc = "check" /\ rel'[GC].obj = o
        /\ \A x \in Worker : x # GC => rel'[x] = rel[x]
        /\ rel[GC].pc = "idle" /\ gcpc' = gcpc /\ freed' = freed /\ gcpc = "relocate"
    BY <1>1, <1>3, <2>1, CallEffect DEF TypeInv, RelocateNext, Relocating, regionVars
  <2>3. NothingLost'
    BY <1>1, <2>1, <2>2 DEF NothingLost, Forwarded, Front
  <2>4. CallsAgree' /\ AgainForwarded' /\ NeverThrows'
    BY <1>1, <2>2 DEF CallsAgree, AgainForwarded, NeverThrows, Forwarded, Relocating, UserAt
  <2>5. GCInOrder' /\ AllForwarded' /\ BackForwarded'
    BY <1>1, <2>2 DEF GCInOrder, AllForwarded, BackForwarded, Forwarded, Relocating, Back
  <2> QED BY <2>3, <2>4, <2>5
<1>4. CASE free \/ ClearAddress
  <2>1. rel' = rel /\ left' = left /\ gcpc' \in {"freeing", "done"} /\ (freed' => gcpc' = "done")
    BY <1>4 DEF free, ClearAddress, GCGoto, GCInOrder
  <2>2. gcpc # "relocate" \/ (left = {} /\ rel[GC].pc = "idle")
    BY <1>4 DEF free, ClearAddress, Relocating
  <2>3. rel[GC].pc = "idle"
    BY <1>4 DEF free, ClearAddress, Relocating, GCInOrder
  <2>4. \A o \in Obj : Forwarded(o)
    BY <1>4, <2>2, <2>3 DEF free, ClearAddress, AllForwarded, NothingLost, Front
  <2> QED BY <1>1, <2>1, <2>3, <2>4
          DEF CallsAgree, GCInOrder, NothingLost, AllForwarded, BackForwarded, AgainForwarded,
              NeverThrows, Forwarded, Relocating, UserAt
<1> QED BY <1>2, <1>3, <1>4 DEF triggerRelocation

LEMMA ProgressInductive == TypeInv /\ ProgressInv /\ [Next]_vars => ProgressInv'
<1> SUFFICES ASSUME TypeInv, ProgressInv, [Next]_vars PROVE ProgressInv'
  OBVIOUS
<1>1. CASE UNCHANGED vars
  BY <1>1 DEF vars, regionVars, gcVars, ProgressInv, CallsAgree, GCInOrder, NothingLost, AllForwarded,
         BackForwarded, AgainForwarded, NeverThrows, Forwarded, Relocating, UserAt
<1> QED BY <1>1, RelocateKeepsProgress, DereferenceKeepsProgress, GCKeepsProgress DEF Next, Finished

LEMMA AlwaysProgressing == Spec => [](TypeInv /\ AddrInv /\ ProgressInv)
BY InitTypeInv, InitAddrInv, InitProgressInv, TypesInductive, AddrInductive, ProgressInductive,
   PTL DEF Spec

(* getHealedPointer's second look-up never fails: GCWorker.cpp:676 throws  *)
(* in no execution, whoever wins the race and even if the region is freed  *)
(* in the middle of it.                                                    *)
THEOREM RelocationNeverThrows == Spec => []NeverThrows
<1>1. ProgressInv => NeverThrows
  BY DEF ProgressInv
<1> QED BY <1>1, AlwaysProgressing, PTL

(* No step changes a forwarding entry that was made. *)
LEMMA EntriesStay ==
    ASSUME TypeInv, [Next]_vars, NEW o \in Obj, Forwarded(o)
    PROVE  forwarding_table'[o] = forwarding_table[o]
<1>1. ASSUME NEW w \in Worker, relocateObject(w)
      PROVE  forwarding_table'[o] = forwarding_table[o]
  BY <1>1, ForwardedStaysInRelocation
<1>2. CASE forwarding_table' = forwarding_table
  BY <1>2
<1>3. (\E w \in Worker : relocateObject(w)) \/ forwarding_table' = forwarding_table
  BY DEF Next, Finished, vars, Select, triggerRelocation, WaitForGuards, WaitAgain, RelocateNext, free,
         ClearAddress, GCGoto, dereference, getRaw, getHealedPointer, QueryAgain, inc_use_count,
         Access, dec_use_count
<1> QED BY <1>1, <1>2, <1>3

(* A forwarding entry, once made, is never changed: relocateObject tests   *)
(* it again under the exclusive lock (GCRegion.cpp:262).                   *)
THEOREM RelocationForwardsOnce == Spec => ForwardedOnce
<1>1. TypeInv /\ [Next]_vars =>
          [\A o \in Obj : Forwarded(o) => forwarding_table'[o] = forwarding_table[o]]_vars
  BY EntriesStay
<1> QED BY <1>1, AlwaysTypedAndApart, PTL DEF Spec, ForwardedOnce

-----------------------------------------------------------------------------
(* Guards.  A region is selected only when nobody refers to its old place  *)
(* and afterwards nobody comes to: getRaw answers with it only while the   *)
(* marking is under way.                                                   *)
Referring(t) == user[t].pc \in {"guard", "access", "release"}
NothingMoves ==
    gcpc = "marking" =>
        /\ \A o \in Obj : ~Forwarded(o)
        /\ \A w \in Worker : Relocating(w, "idle")
        /\ \A t \in Thread : Referring(t) \/ UserAt(t, "idle")
NobodyOnOld == gcpc # "marking" => \A t \in Thread : Referring(t) => ~OnOld(t)
QuietInv == NothingMoves /\ NobodyOnOld

LEMMA InitQuietInv == Init => QuietInv
BY DEF Init, QuietInv, NothingMoves, NobodyOnOld, Forwarded, Relocating, UserAt, NoRelocation, NoAccess

LEMMA SelectKeepsQuiet ==
    ASSUME TypeInv, doNotRelocatePtrGuard, GuardCovers, Select
    PROVE  QuietInv'
<1>1. use_count = 0 /\ \A t \in Thread : ~(UserAt(t, "guard") /\ OnOld(t))
  BY Zenon DEF Select
<1>2. user' = user /\ gcpc' = "wait"
  BY DEF Select, GCGoto
<1>3. Guards = {}
  BY <1>1, GuardsFinite, FS_EmptySet DEF TypeInv, UseCounted
<1>4. \A t \in Thread : Referring(t) => ~OnOld(t)
  BY <1>1, <1>3 DEF Referring, Guards, UserAt
<1> QED BY <1>2, <1>4 DEF QuietInv, NothingMoves, NobodyOnOld, Referring, OnOld

(* Once a relocation is under way or an object forwarded, the steps of a   *)
(* dereference lead to the new place.                                      *)
LEMMA DereferenceKeepsQuiet ==
    ASSUME TypeInv, QuietInv, NEW t \in Thread, dereference(t)
    PROVE  QuietInv'
<1> USE DEF QuietInv
<1>1. /\ gcpc' = gcpc /\ forwarding_table' = forwarding_table
      /\ user \in [Thread -> UserRecord]
      /\ \A x \in Thread : x # t => user'[x] = user[x]
      /\ user[t].pc # "idle" => user[t].obj \in Obj
  BY DereferenceEffect
     DEF dereference, getRaw, getHealedPointer, QueryAgain, inc_use_count, Access, dec_use_count,
         gcVars, TypeInv, TypeOK, UserRecord, UserPc, UserTypes, UserAt
<1>2. SUFFICES
         /\ gcpc = "marking" => rel' = rel /\ user'[t].pc \in {"guard", "access", "release", "idle"}
         /\ gcpc # "marking" /\ user'[t].pc \in {"guard", "access", "release"} => user'[t].ref # Old
  BY <1>1 DEF NothingMoves, NobodyOnOld, Referring, OnOld, Forwarded, Relocating, UserAt
<1>3. ASSUME NEW o \in Obj, getRaw(t, o)
      PROVE  /\ rel' = rel
             /\ IF gcpc = "marking" THEN user'[t].pc = "guard" ELSE user'[t].pc = "query"
  BY <1>1, <1>3 DEF getRaw
<1>4. CASE getHealedPointer(t) \/ QueryAgain(t)
  <2>1. gcpc # "marking"
    BY <1>4 DEF getHealedPointer, QueryAgain, NothingMoves, Referring, UserAt
  <2>2. \/ Refer(t, forwarding_table[user[t].obj]) /\ forwarding_table[user[t].obj] \in Addr
        \/ Goto(t, "again") \/ Goto(t, "throw")
    BY <1>1, <1>4 DEF getHealedPointer, QueryAgain, UserAt, Forwarded, TypeInv, TypeOK
  <2>3. user'[t].pc \in {"again", "throw"} \/ (user'[t].ref \in Addr /\ Old \notin Addr)
    BY <2>2, ReferEffect, GotoEffect, MarkerAssumption DEF UserPc, TypeInv
  <2> QED BY <2>1, <2>3
<1>5. CASE inc_use_count(t)
  BY <1>1, <1>5, GotoEffect
     DEF inc_use_count, UserAt, UserPc, TypeInv, NobodyOnOld, Referring, OnOld
<1>6. CASE Access(t)
  <2>1. /\ user[t].pc = "access" /\ rel' = rel
        /\ \E act : user' = [user EXCEPT ![t] = [@ EXCEPT !.pc = "release", !.act = act]]
    BY <1>6 DEF Access, UserAt
  <2>2. user'[t].pc = "release" /\ user'[t].ref = user[t].ref
    BY <1>1, <2>1 DEF UserRecord
  <2> QED BY <2>1, <2>2 DEF NobodyOnOld, Referring, OnOld
<1>7. CASE dec_use_count(t)
  BY <1>1, <1>7 DEF dec_use_count, NoAccess
<1> QED BY <1>3, <1>4, <1>5, <1>6, <1>7 DEF dereference

LEMMA QuietInductive ==
    ASSUME doNotRelocatePtrGuard, GuardCovers
    PROVE  TypeInv /\ QuietInv /\ [Next]_vars => QuietInv'
<1> SUFFICES ASSUME TypeInv, QuietInv, [Next]_vars PROVE QuietInv'
  OBVIOUS
<1>1. ASSUME NEW w \in Worker, relocateObject(w) PROVE QuietInv'
  <2>1. user' = user /\ gcpc' = gcpc /\ gcpc # "marking"
    BY <1>1 DEF relocateObject, CheckRegion, LookUp, allocate, Recheck, Copy, Publish, FindMap, Register, Undo,
                Retract, gcVars, Relocating, QuietInv, NothingMoves
  <2> QED BY <2>1 DEF QuietInv, NothingMoves, NobodyOnOld, Referring, OnOld
<1>2. CASE triggerRelocation
  <2>1. user' = user /\ gcpc # "marking" /\ gcpc' # "marking"
    BY <1>2 DEF triggerRelocation, WaitForGuards, WaitAgain, RelocateNext, free, ClearAddress, GCGoto
  <2> QED BY <2>1 DEF QuietInv, NothingMoves, NobodyOnOld, Referring, OnOld
<1>3. CASE UNCHANGED vars
  BY <1>3 DEF vars, gcVars, QuietInv, NothingMoves, NobodyOnOld, Referring, OnOld, Forwarded,
              Relocating, UserAt
<1> QED BY <1>1, <1>2, <1>3, SelectKeepsQuiet, DereferenceKeepsQuiet DEF Next, Finished

(* While a PtrGuard refers to the old place of an object, the object is    *)
(* there (README.md:309), if regions in use are not selected and no thread *)
(* is caught between the read and the increment.                           *)
THEOREM RelocationLeavesGuarded ==
    ASSUME doNotRelocatePtrGuard, GuardCovers
    PROVE  Spec => []GuardedInPlace
<1>1. Spec => []QuietInv
  <2>1. TypeInv /\ QuietInv /\ [Next]_vars => QuietInv'
    BY QuietInductive
  <2> QED BY <2>1, InitQuietInv, AlwaysTypedAndApart, PTL DEF Spec
<1>2. TypeInv /\ QuietInv => GuardedInPlace
  BY DEF QuietInv, NothingMoves, NobodyOnOld, GuardedInPlace, Referring, TypeInv, UserTypes, UserAt
<1> QED BY <1>1, <1>2, AlwaysTypedAndApart, PTL

-----------------------------------------------------------------------------
(* The refinement.  A reference to a new place is the object's entry, and  *)
(* a copy about to be published has what the object holds: nobody writes   *)
(* to the old place once copying has begun, or to a place that is held.    *)
ReferencesAgree ==
    \A t \in Thread : Referring(t) /\ ~OnOld(t) => forwarding_table[user[t].obj] = user[t].ref
CopyFaithful ==
    \A w \in Worker :
        Relocating(w, "publish") /\ ~Forwarded(rel[w].obj) => cell[rel[w].addr] = old[rel[w].obj]
ActionAtRelease == \A t \in Thread : user[t].act # None => UserAt(t, "release")
CopyInv == ReferencesAgree /\ CopyFaithful /\ ActionAtRelease
FullInv == TypeInv /\ AddrInv /\ ProgressInv /\ QuietInv /\ CopyInv
HeapStep == [Heap!Next]_(Heap!heapVars)

LEMMA InitCopyInv == Init => CopyInv
BY DEF Init, CopyInv, ReferencesAgree, CopyFaithful, ActionAtRelease, Referring, Relocating, UserAt,
       NoRelocation, NoAccess

(* Steps the program does not see. *)
LEMMA HeapStutters ==
    ASSUME \A o \in Obj : Content(o)' = Content(o),
           \A t \in Thread : user'[t].act = user[t].act
    PROVE  HeapStep
<1>1. [o \in Obj |-> Content(o)]' = [o \in Obj |-> Content(o)]
  OBVIOUS
<1>2. [t \in Thread |-> user[t].act]' = [t \in Thread |-> user[t].act]
  OBVIOUS
<1> QED BY <1>1, <1>2 DEF HeapStep, Heap!heapVars

LEMMA CopyKeepsCopy ==
    ASSUME FullInv, NEW w \in Worker, Copy(w)
    PROVE  CopyInv' /\ HeapStep
<1> DEFINE a == rel[w].addr
           o == rel[w].obj
<1>1. /\ rel[w].pc = "copy" /\ Holding(w) /\ a \in Addr /\ o \in Obj
      /\ cell \in [Addr -> Value \cup {Garbage}]
  BY DEF Copy, Relocating, Holding, FullInv, TypeInv, RelTypes, TypeOK
<1>2. /\ cell' = [cell EXCEPT ![a] = IF Released THEN Garbage ELSE old[o]]
      /\ RelGoto(w, "publish") /\ old' = old /\ forwarding_table' = forwarding_table /\ user' = user
  BY DEF Copy
<1>3. /\ rel'[w].pc = "publish" /\ rel'[w].addr = a /\ rel'[w].obj = o
      /\ \A x \in Worker : x # w => rel'[x] = rel[x]
  BY <1>2, RelGotoEffect DEF FullInv, TypeInv, RelPc
<1>4. Released => Forwarded(o)
  BY <1>1 DEF Released, FullInv, ProgressInv, AllForwarded
<1>5. \A p \in Obj : Forwarded(p) => forwarding_table[p] # a
  BY <1>1 DEF FullInv, AddrInv, HeldUnforwarded
<1>6. \A b \in Addr : b # a => cell'[b] = cell[b]
  BY <1>1, <1>2
<1>7. \A p \in Obj : Forwarded(p) => forwarding_table[p] \in Addr
  BY DEF FullInv, TypeInv, TypeOK, Forwarded
<1>8. CopyFaithful'
  <2> SUFFICES ASSUME NEW x \in Worker, rel'[x].pc = "publish", ~Forwarded(rel'[x].obj)
               PROVE  cell'[rel'[x].addr] = old[rel'[x].obj]
    BY <1>2 DEF CopyFaithful, Relocating, Forwarded
  <2>1. CASE x = w
    BY <1>1, <1>2, <1>3, <1>4, <2>1
  <2>2. CASE x # w
    <3>1. rel'[x] = rel[x] /\ Holding(x) /\ rel[x].addr \in Addr /\ rel[x].addr # a
      BY <1>1, <1>3, <2>2 DEF Holding, FullInv, TypeInv, RelTypes, AddrInv, HeldApart
    <3> QED BY <1>6, <3>1 DEF FullInv, CopyInv, CopyFaithful, Relocating
  <2> QED BY <2>1, <2>2
<1>9. ReferencesAgree' /\ ActionAtRelease'
  BY <1>2 DEF FullInv, CopyInv, ReferencesAgree, ActionAtRelease, Referring, OnOld, UserAt
<1>10. \A p \in Obj : Content(p)' = Content(p)
  BY <1>2, <1>5, <1>6, <1>7 DEF Content, Forwarded
<1>11. HeapStep
  BY <1>2, <1>10, HeapStutters
<1> QED BY <1>8, <1>9, <1>11 DEF CopyInv

LEMMA PublishKeepsCopy ==
    ASSUME FullInv, NEW w \in Worker, Publish(w)
    PROVE  CopyInv' /\ HeapStep
<1>1. /\ rel[w].pc = "publish" /\ rel[w].addr \in Addr /\ rel[w].obj \in Obj /\ rel[w].addr # None
      /\ forwarding_table \in [Obj -> Addr \cup {None}]
  BY MarkerAssumption DEF Publish, Relocating, Holding, FullInv, TypeInv, RelTypes, TypeOK
<1>2. /\ cell' = cell /\ old' = old /\ user' = user
      /\ IF Forwarded(rel[w].obj)
         THEN RelGoto(w, "undo") /\ forwarding_table' = forwarding_table
         ELSE /\ forwarding_table' = [forwarding_table EXCEPT ![rel[w].obj] = rel[w].addr]
              /\ RelGoto(w, "find")
  BY <1>1 DEF Publish, memoryVars
<1>3. rel'[w].pc # "publish" /\ \A x \in Worker : x # w => rel'[x] = rel[x]
  BY <1>2, RelGotoEffect DEF FullInv, TypeInv, RelPc
<1>4. \A p \in Obj : Forwarded(p) => forwarding_table'[p] = forwarding_table[p] /\ Forwarded(p)'
  BY <1>1, <1>2 DEF Forwarded
<1>5. CopyFaithful'
  <2> SUFFICES ASSUME NEW x \in Worker, rel'[x].pc = "publish", forwarding_table'[rel'[x].obj] = None
               PROVE  cell[rel'[x].addr] = old[rel'[x].obj]
    BY <1>2 DEF CopyFaithful, Relocating, Forwarded
  <2>1. x # w /\ rel'[x] = rel[x] /\ rel[x].obj \in Obj
    BY <1>3 DEF FullInv, TypeInv, RelTypes, Relocating
  <2>2. ~Forwarded(rel[x].obj)
    BY <1>4, <2>1 DEF Forwarded
  <2> QED BY <2>1, <2>2 DEF FullInv, CopyInv, CopyFaithful, Relocating
<1>6. ReferencesAgree'
  <2> SUFFICES ASSUME NEW t \in Thread, Referring(t), ~OnOld(t)
               PROVE  forwarding_table'[user[t].obj] = user[t].ref
    BY <1>2 DEF ReferencesAgree, Referring, OnOld
  <2>1. user[t].obj \in Obj /\ user[t].ref \in Addr /\ forwarding_table[user[t].obj] = user[t].ref
    BY DEF FullInv, CopyInv, ReferencesAgree, TypeInv, UserTypes, Referring, OnOld, UserAt
  <2> QED BY <1>4, <2>1, MarkerAssumption DEF Forwarded
<1>7. ActionAtRelease'
  BY <1>2 DEF FullInv, CopyInv, ActionAtRelease, UserAt
<1>8. \A p \in Obj : Content(p)' = Content(p)
  <2> SUFFICES ASSUME NEW p \in Obj PROVE Content(p)' = Content(p)
    OBVIOUS
  <2>1. CASE Forwarded(p)
    BY <1>2, <1>4, <2>1 DEF Content
  <2>2. CASE ~Forwarded(p) /\ p = rel[w].obj
    <3>1. forwarding_table'[p] = rel[w].addr /\ cell[rel[w].addr] = old[p]
      BY <1>1, <1>2, <2>2 DEF FullInv, CopyInv, CopyFaithful, Relocating
    <3> QED BY <1>1, <1>2, <2>2, <3>1 DEF Content, Forwarded
  <2>3. CASE ~Forwarded(p) /\ p # rel[w].obj
    BY <1>1, <1>2, <2>3 DEF Content, Forwarded
  <2> QED BY <2>1, <2>2, <2>3
<1>9. HeapStep
  BY <1>2, <1>8, HeapStutters
<1> QED BY <1>5, <1>6, <1>7, <1>9 DEF CopyInv

(* Steps that touch neither the memory nor the table. *)
LEMMA QuietStepKeepsCopy ==
    ASSUME FullInv, UNCHANGED <<old, cell, forwarding_table, user>>,
           \A w \in Worker : Relocating(w, "publish")' => rel'[w] = rel[w]
    PROVE  CopyInv' /\ HeapStep
<1>1. ReferencesAgree' /\ ActionAtRelease'
  BY DEF FullInv, CopyInv, ReferencesAgree, ActionAtRelease, Referring, OnOld, UserAt
<1>2. CopyFaithful'
  BY DEF FullInv, CopyInv, CopyFaithful, Relocating, Forwarded
<1>3. HeapStep
  BY HeapStutters DEF Content, Forwarded
<1> QED BY <1>1, <1>2, <1>3 DEF CopyInv

LEMMA RelocateKeepsCopy ==
    ASSUME FullInv, NEW w \in Worker, relocateObject(w)
    PROVE  CopyInv' /\ HeapStep
<1> USE DEF FullInv, TypeInv
<1>1. CASE CheckRegion(w) \/ LookUp(w) \/ Recheck(w)
  BY <1>1, RelGotoEffect, RelReturnEffect, QuietStepKeepsCopy
     DEF CheckRegion, LookUp, Recheck, memoryVars, Relocating, RelPc
<1>2. CASE FindMap(w) \/ Register(w) \/ Undo(w) \/ Retract(w)
  BY <1>2, RelGotoEffect, RelReturnEffect, QuietStepKeepsCopy
     DEF FindMap, Register, Undo, Retract, memoryVars, Relocating, RelPc
<1>3. CASE allocate(w)
  BY <1>3, AllocateEffect, QuietStepKeepsCopy DEF allocate, memoryVars, Relocating
<1> QED BY <1>1, <1>2, <1>3, CopyKeepsCopy, PublishKeepsCopy DEF relocateObject

(* An access sees the object's one value. *)
LEMMA AccessSees ==
    ASSUME FullInv, NEW t \in Thread, Access(t)
    PROVE  Dereference(t) = Content(user[t].obj)
<1>1. user[t].pc = "access" /\ user[t].obj \in Obj /\ Referring(t)
  BY DEF Access, UserAt, Referring, FullInv, TypeInv, UserTypes
<1>2. CASE OnOld(t)
  <2>1. gcpc = "marking" /\ ~Forwarded(user[t].obj) /\ ~Released
    BY <1>1, <1>2 DEF FullInv, QuietInv, NothingMoves, NobodyOnOld, Released
  <2> QED BY <1>2, <2>1 DEF Dereference, Content
<1>3. CASE ~OnOld(t)
  <2>1. forwarding_table[user[t].obj] = user[t].ref /\ user[t].ref \in Addr
    BY <1>1, <1>3 DEF FullInv, CopyInv, ReferencesAgree, TypeInv, UserTypes, OnOld
  <2> QED BY <1>3, <2>1, MarkerAssumption DEF Dereference, Content, Forwarded
<1> QED BY <1>2, <1>3

(* A write replaces it, and no copy in the making becomes outdated. *)
LEMMA WriteSeen ==
    ASSUME FullInv, NEW t \in Thread, user[t].pc = "access", NEW o \in Obj, o = user[t].obj, NEW v,
           UNCHANGED <<forwarding_table, rel>>,
           IF OnOld(t) THEN old' = [old EXCEPT ![o] = v] /\ cell' = cell
                       ELSE cell' = [cell EXCEPT ![user[t].ref] = v] /\ old' = old
    PROVE  /\ CopyFaithful'
           /\ \A p \in Obj : Content(p)' = IF p = o THEN v ELSE Content(p)
<1>1. old \in [Obj -> Value] /\ cell \in [Addr -> Value \cup {Garbage}] /\ Referring(t)
  BY DEF FullInv, TypeInv, TypeOK, Referring
<1>2. CASE OnOld(t)
  <2>1. gcpc = "marking" /\ (\A p \in Obj : ~Forwarded(p)) /\ \A w \in Worker : Relocating(w, "idle")
    BY <1>1, <1>2 DEF FullInv, QuietInv, NothingMoves, NobodyOnOld
  <2>2. CopyFaithful'
    BY <2>1 DEF CopyFaithful, Relocating
  <2> QED BY <1>1, <1>2, <2>1, <2>2 DEF Content, Forwarded
<1>3. CASE ~OnOld(t)
  <2>1. forwarding_table[o] = user[t].ref /\ user[t].ref \in Addr /\ Forwarded(o)
    BY <1>1, <1>3, MarkerAssumption
       DEF FullInv, CopyInv, ReferencesAgree, TypeInv, UserTypes, OnOld, Forwarded
  <2>2. \A b \in Addr : cell'[b] = IF b = user[t].ref THEN v ELSE cell[b]
    BY <1>1, <1>3, <2>1
  <2>3. CopyFaithful'
    <3> SUFFICES ASSUME NEW w \in Worker, Relocating(w, "publish"), ~Forwarded(rel[w].obj)
                 PROVE  cell'[rel[w].addr] = old[rel[w].obj]
      BY <1>3 DEF CopyFaithful, Relocating, Forwarded
    <3>1. Holding(w) /\ rel[w].addr \in Addr /\ rel[w].addr # user[t].ref
      BY <2>1 DEF Relocating, Holding, FullInv, TypeInv, RelTypes, AddrInv, HeldUnforwarded
    <3> QED BY <2>2, <3>1 DEF FullInv, CopyInv, CopyFaithful
  <2>4. \A p \in Obj : Forwarded(p) =>
            forwarding_table[p] \in Addr /\ (forwarding_table[p] = user[t].ref => p = o)
    BY <2>1 DEF FullInv, AddrInv, ForwardedApart, TypeInv, TypeOK, Forwarded
  <2>5. \A p \in Obj : Content(p)' = IF p = o THEN v ELSE Content(p)
    BY <1>3, <2>1, <2>2, <2>4 DEF Content, Forwarded
  <2> QED BY <2>3, <2>5
<1> QED BY <1>2, <1>3

LEMMA AccessKeepsCopy ==
    ASSUME FullInv, NEW t \in Thread, Access(t)
    PROVE  CopyInv' /\ HeapStep
<1>0. user[t].obj \in Obj
  BY DEF Access, UserAt, FullInv, TypeInv, UserTypes
<1> PICK o \in Obj : o = user[t].obj
  BY <1>0
<1>1. /\ user[t].pc = "access" /\ o = user[t].obj /\ user[t].act = None
      /\ user \in [Thread -> UserRecord]
      /\ forwarding_table' = forwarding_table /\ rel' = rel
  BY DEF Access, UserAt, FullInv, TypeInv, UserTypes, TypeOK, UserRecord, UserPc, CopyInv, ActionAtRelease
<1>2. ASSUME NEW act, user' = [user EXCEPT ![t] = [@ EXCEPT !.pc = "release", !.act = act]]
      PROVE  /\ ReferencesAgree' /\ ActionAtRelease'
             /\ [s \in Thread |-> user[s].act]' = [[s \in Thread |-> user[s].act] EXCEPT ![t] = act]
  <2>1. /\ user'[t].pc = "release" /\ user'[t].obj = o /\ user'[t].ref = user[t].ref
        /\ user'[t].act = act
        /\ \A x \in Thread : x # t => user'[x] = user[x]
    BY <1>1, <1>2 DEF UserRecord
  <2>2. ReferencesAgree'
    BY <1>1, <2>1 DEF FullInv, CopyInv, ReferencesAgree, Referring, OnOld
  <2>3. ActionAtRelease'
    BY <2>1 DEF FullInv, CopyInv, ActionAtRelease, UserAt
  <2> QED BY <2>1, <2>2, <2>3
<1>3. CASE /\ user' = [user EXCEPT ![t] = [@ EXCEPT !.pc = "release",
                                                   !.act = <<"read", o, Dereference(t)>>]]
           /\ UNCHANGED memoryVars
  <2>1. CopyFaithful' /\ \A p \in Obj : Content(p)' = Content(p)
    BY <1>1, <1>3 DEF FullInv, CopyInv, CopyFaithful, Relocating, Forwarded, memoryVars, Content
  <2>2. [p \in Obj |-> Content(p)]' = [p \in Obj |-> Content(p)]
    BY <2>1
  <2>3. [p \in Obj |-> Content(p)][o] = Dereference(t)
    BY <1>1, AccessSees
  <2>4. [s \in Thread |-> user[s].act][t] = None
    BY <1>1
  <2>5. /\ ReferencesAgree' /\ ActionAtRelease'
        /\ [s \in Thread |-> user[s].act]' =
               [[s \in Thread |-> user[s].act] EXCEPT ![t] = <<"read", o, Dereference(t)>>]
    BY <1>2, <1>3
  <2>6. Heap!Read(t, o)
    BY <1>1, <2>2, <2>5, AccessSees DEF Heap!Read
  <2>7. Heap!Next
    BY <1>1, <2>4, <2>6 DEF Heap!Next
  <2> QED BY <2>1, <2>5, <2>7 DEF CopyInv, HeapStep
<1>4. ASSUME NEW v \in Value,
             user' = [user EXCEPT ![t] = [@ EXCEPT !.pc = "release", !.act = <<"write", o, v>>]],
             IF OnOld(t) THEN old' = [old EXCEPT ![o] = v] /\ cell' = cell
                         ELSE cell' = [cell EXCEPT ![user[t].ref] = v] /\ old' = old
      PROVE  CopyInv' /\ HeapStep
  <2>1. CopyFaithful' /\ \A p \in Obj : Content(p)' = IF p = o THEN v ELSE Content(p)
    BY <1>1, <1>4, WriteSeen
  <2>2. [p \in Obj |-> Content(p)]' = [[p \in Obj |-> Content(p)] EXCEPT ![o] = v]
    BY <1>1, <2>1
  <2>3. [s \in Thread |-> user[s].act][t] = None
    BY <1>1
  <2>4. Heap!Write(t, o, v)
    BY <1>2, <1>4, <2>2 DEF Heap!Write
  <2> QED BY <1>1, <1>2, <1>4, <2>1, <2>3, <2>4 DEF CopyInv, HeapStep, Heap!Next
<1> QED BY <1>3, <1>4 DEF Access

(* The other steps of a dereference do not touch the objects. *)
LEMMA DereferenceKeepsCopy ==
    ASSUME FullInv, NEW t \in Thread, dereference(t)
    PROVE  CopyInv' /\ HeapStep
<1>1. CASE Access(t)
  BY <1>1, AccessKeepsCopy
<1>2. CASE ~Access(t)
  <2>1. /\ UNCHANGED <<old, cell, forwarding_table>>
        /\ user \in [Thread -> UserRecord]
        /\ \A x \in Thread : x # t => user'[x] = user[x]
        /\ \A w \in Worker : Relocating(w, "publish")' => rel'[w] = rel[w]
    <3>1. rel' = rel \/ (t \in Worker /\ user[t].obj \in Obj /\ Call(t, user[t].obj))
      BY <1>2 DEF dereference, getRaw, getHealedPointer, QueryAgain, inc_use_count, dec_use_count,
                  FullInv, TypeInv, UserTypes, UserAt, Worker
    <3>2. UNCHANGED <<old, cell, forwarding_table>>
      BY <1>2 DEF dereference, getRaw, getHealedPointer, QueryAgain, inc_use_count, dec_use_count,
                  memoryVars
    <3> QED BY <3>1, <3>2, CallEffect, DereferenceEffect
            DEF FullInv, TypeInv, TypeOK, Relocating, UserRecord, UserPc
  <2>2. CopyFaithful'
    <3>1. \A w \in Worker : rel'[w].pc = "publish" =>
              /\ rel'[w] = rel[w]
              /\ ~Forwarded(rel[w].obj) => cell[rel[w].addr] = old[rel[w].obj]
      BY <2>1 DEF FullInv, CopyInv, CopyFaithful, Relocating
    <3> QED BY <2>1, <3>1 DEF CopyFaithful, Relocating, Forwarded
  <2>3. \A p \in Obj : Content(p)' = Content(p)
    BY <2>1 DEF Content, Forwarded
  <2>4. SUFFICES /\ user'[t].act \in {user[t].act, None}
                 /\ user'[t].act # None => user'[t].pc = "release"
                 /\ user'[t].act # user[t].act => user[t].act # None
                 /\ user'[t].pc \in {"guard", "access", "release"} /\ user'[t].ref # Old =>
                        forwarding_table[user'[t].obj] = user'[t].ref
    <3>1. ReferencesAgree' /\ ActionAtRelease'
      BY <2>1, <2>4 DEF FullInv, CopyInv, ReferencesAgree, ActionAtRelease, Referring, OnOld, UserAt
    <3>2. CASE user'[t].act = user[t].act
      BY <2>1, <2>2, <2>3, <3>1, <3>2, HeapStutters DEF CopyInv
    <3>3. CASE user'[t].act # user[t].act
      <4>1. /\ [p \in Obj |-> Content(p)]' = [p \in Obj |-> Content(p)]
            /\ [s \in Thread |-> user[s].act]' = [[s \in Thread |-> user[s].act] EXCEPT ![t] = None]
            /\ [s \in Thread |-> user[s].act][t] # None
        BY <2>1, <2>3, <2>4, <3>3
      <4>2. Heap!Finish(t)
        BY <4>1 DEF Heap!Finish
      <4> QED BY <2>2, <3>1, <4>1, <4>2 DEF CopyInv, HeapStep, Heap!Next
    <3> QED BY <3>2, <3>3
  <2>5. /\ user[t].pc # "idle" => user[t].obj \in Obj
        /\ user[t].act # None => user[t].pc = "release"
        /\ user[t].pc \in {"guard", "access", "release"} /\ user[t].ref # Old =>
               forwarding_table[user[t].obj] = user[t].ref
    BY DEF FullInv, TypeInv, UserTypes, UserAt, CopyInv, ActionAtRelease, ReferencesAgree, Referring,
           OnOld
  <2>6. ASSUME NEW o \in Obj, getRaw(t, o)
        PROVE  user'[t].act = None /\ user[t].act = None
               /\ (user'[t].pc = "query" \/ user'[t].ref = Old)
    BY <2>1, <2>5, <2>6 DEF getRaw, UserAt
  <2>7. CASE getHealedPointer(t) \/ QueryAgain(t)
    <3>1. \/ /\ Refer(t, forwarding_table[user[t].obj])
             /\ forwarding_table[user[t].obj] \in Addr
          \/ Goto(t, "again") \/ Goto(t, "throw")
      BY <2>5, <2>7 DEF getHealedPointer, QueryAgain, UserAt, Forwarded, FullInv, TypeInv, TypeOK
    <3>2. user[t].act = None
      BY <2>5, <2>7 DEF getHealedPointer, QueryAgain, UserAt
    <3> QED BY <3>1, <3>2, ReferEffect, GotoEffect DEF FullInv, TypeInv, UserPc
  <2>8. CASE inc_use_count(t)
    BY <2>5, <2>8, GotoEffect DEF inc_use_count, UserAt, FullInv, TypeInv, UserPc
  <2>9. CASE dec_use_count(t)
    BY <2>1, <2>9 DEF dec_use_count, UserAt, NoAccess
  <2> QED BY <1>2, <2>6, <2>7, <2>8, <2>9 DEF dereference
<1> QED BY <1>1, <1>2

LEMMA GCKeepsCopy ==
    ASSUME FullInv, Select \/ triggerRelocation
    PROVE  CopyInv' /\ HeapStep
<1>1. UNCHANGED <<old, cell, forwarding_table, user>>
  BY DEF Select, triggerRelocation, WaitForGuards, WaitAgain, RelocateNext, free, ClearAddress, GCGoto,
         memoryVars
<1>2. rel' = rel \/ (GC \in Worker /\ \E o \in Obj : Call(GC, o))
  BY DEF Select, triggerRelocation, WaitForGuards, WaitAgain, RelocateNext, free, ClearAddress,
         FullInv, TypeInv, TypeOK, Worker
<1>3. \A w \in Worker : Relocating(w, "publish")' => rel'[w] = rel[w]
  BY <1>2, CallEffect DEF FullInv, TypeInv, Relocating
<1> QED BY <1>1, <1>3, QuietStepKeepsCopy

LEMMA NextKeepsCopy == FullInv /\ [Next]_vars => CopyInv' /\ HeapStep
<1> SUFFICES ASSUME FullInv, [Next]_vars PROVE CopyInv' /\ HeapStep
  OBVIOUS
<1>1. CASE UNCHANGED vars
  BY <1>1, QuietStepKeepsCopy DEF vars, memoryVars, Relocating
<1> QED BY <1>1, RelocateKeepsCopy, DereferenceKeepsCopy, GCKeepsCopy DEF Next, Finished

(* To the program the objects do not move: every execution of the          *)
(* relocation is one of a heap of cells that stay where they are, under    *)
(* the same two conditions.                                                *)
THEOREM RelocationImplementsHeap ==
    ASSUME doNotRelocatePtrGuard, GuardCovers
    PROVE  Spec => RelocationInvisible
<1>1. Init => FullInv
  BY InitTypeInv, InitAddrInv, InitProgressInv, InitQuietInv, InitCopyInv DEF FullInv
<1>2. FullInv /\ [Next]_vars => FullInv'
  BY TypesInductive, AddrInductive, ProgressInductive, QuietInductive, NextKeepsCopy DEF FullInv
<1>3. FullInv /\ [Next]_vars => [Heap!Next]_(Heap!heapVars)
  BY NextKeepsCopy DEF HeapStep
<1>4. Init => Heap!Init
  BY DEF Init, Heap!Init, Content, Forwarded, NoAccess
<1> QED BY <1>1, <1>2, <1>3, <1>4, PTL DEF Spec, RelocationInvisible, Heap!Spec

-----------------------------------------------------------------------------
(* Destructors.  An object forwarded for the first time is one the GC      *)
(* thread has still to see, so its maps are there; whoever is between the  *)
(* two when they go is noted.                                              *)
LEMMA InitDestructors == Init => DestructorCarried
BY DEF Init, DestructorCarried, Forwarded

(* The steps that leave the entries, the maps and the workers that         *)
(* register something as they are. *)
LEMMA QuietStepKeepsDestructors ==
    ASSUME DestructorCarried, UNCHANGED <<forwarding_table, destructors, overtaken>>,
           Released' <=> Released, \A w \in Worker : Registering(w) => rel'[w] = rel[w]
    PROVE  DestructorCarried'
<1> SUFFICES ASSUME NEW o \in Obj, Forwarded(o), o \notin destructors \cup overtaken
             PROVE  ~Released /\ \E w \in Worker : rel'[w].obj = o /\ Registering(w)'
  BY DEF DestructorCarried, Forwarded
<1>1. ~Released /\ \E w \in Worker : rel[w].obj = o /\ Registering(w)
  BY DEF DestructorCarried
<1> QED BY <1>1 DEF Registering

LEMMA PublishKeepsDestructors ==
    ASSUME TypeInv, ProgressInv, DestructorCarried, NEW w \in Worker, Publish(w)
    PROVE  DestructorCarried'
<1> PICK o \in Obj : o = rel[w].obj
  BY DEF Publish, Relocating, TypeInv, RelTypes
<1>1. /\ gcpc' = gcpc /\ destructors' = destructors /\ overtaken' = overtaken /\ ~Registering(w)
      /\ forwarding_table \in [Obj -> Addr \cup {None}]
  BY DEF Publish, gcVars, receiverVars, TypeInv, TypeOK, Registering, Relocating
<1>2. CASE Forwarded(o)
  <2>1. RelGoto(w, "undo") /\ forwarding_table' = forwarding_table
    BY <1>2 DEF Publish
  <2>2. \A x \in Worker : x # w => rel'[x] = rel[x]
    BY <2>1, RelGotoEffect DEF TypeInv, RelPc
  <2> QED BY <1>1, <2>1, <2>2, QuietStepKeepsDestructors DEF Registering, Released
<1>3. CASE ~Forwarded(o)
  <2>1. /\ RelGoto(w, "find")
        /\ forwarding_table' = [forwarding_table EXCEPT ![o] = rel[w].addr]
    BY <1>3 DEF Publish
  <2>2. /\ rel'[w].pc = "find" /\ rel'[w].obj = o
        /\ \A x \in Worker : x # w => rel'[x] = rel[x]
    BY <2>1, RelGotoEffect DEF TypeInv, RelPc
  <2>3. ~Released /\ ~Released'
    BY <1>1, <1>3 DEF ProgressInv, AllForwarded, Released
  <2> SUFFICES ASSUME NEW p \in Obj, Forwarded(p)', p \notin destructors \cup overtaken
               PROVE  \E x \in Worker : rel'[x].obj = p /\ Registering(x)'
    BY <1>1, <2>3 DEF DestructorCarried
  <2>4. CASE p = o
    BY <2>2, <2>4 DEF Registering
  <2>5. CASE p # o
    <3>1. Forwarded(p)
      BY <1>1, <2>1, <2>5 DEF Forwarded
    <3>2. PICK x \in Worker : rel[x].obj = p /\ Registering(x)
      BY <3>1 DEF DestructorCarried
    <3>3. x # w
      BY <1>1, <3>2
    <3> QED BY <2>2, <3>2, <3>3 DEF Registering
  <2> QED BY <2>4, <2>5
<1> QED BY <1>2, <1>3

LEMMA RegisterKeepsDestructors ==
    ASSUME TypeInv, DestructorCarried, NEW w \in Worker, FindMap(w) \/ Register(w)
    PROVE  DestructorCarried'
<1> PICK o \in Obj : o = rel[w].obj
  BY DEF FindMap, Register, Relocating, TypeInv, RelTypes
<1>1. /\ gcpc' = gcpc /\ overtaken' = overtaken /\ forwarding_table' = forwarding_table
      /\ destructors \subseteq destructors'
  BY DEF FindMap, Register, gcVars, receiverVars
<1>2. /\ \A x \in Worker : x # w => rel'[x] = rel[x]
      /\ ~Released => o \in destructors' \/ (rel'[w].obj = o /\ Registering(w)')
  <2>1. CASE FindMap(w)
    <3>1. RelGoto(w, IF Released THEN "crash" ELSE "register")
      BY <2>1 DEF FindMap
    <3>2. CASE Released
      BY <3>1, <3>2, RelGotoEffect DEF TypeInv, RelPc
    <3>3. CASE ~Released
      BY <3>1, <3>3, RelGotoEffect DEF TypeInv, RelPc, Registering
    <3> QED BY <3>2, <3>3
  <2>2. CASE Register(w)
    BY <2>2, RelGotoEffect, RelReturnEffect DEF Register, TypeInv, RelPc
  <2> QED BY <2>1, <2>2
<1> SUFFICES ASSUME NEW p \in Obj, Forwarded(p), p \notin destructors' \cup overtaken
             PROVE  ~Released /\ \E x \in Worker : rel'[x].obj = p /\ Registering(x)'
  BY <1>1 DEF DestructorCarried, Forwarded, Released
<1>3. ~Released
  BY <1>1 DEF DestructorCarried
<1>4. PICK x \in Worker : rel[x].obj = p /\ Registering(x)
  BY <1>1 DEF DestructorCarried
<1>5. CASE x = w
  BY <1>2, <1>3, <1>4, <1>5
<1>6. CASE x # w
  BY <1>2, <1>3, <1>4, <1>6 DEF Registering
<1> QED BY <1>5, <1>6

LEMMA RelocateKeepsDestructors ==
    ASSUME TypeInv, ProgressInv, DestructorCarried, NEW w \in Worker, relocateObject(w)
    PROVE  DestructorCarried'
<1>1. CASE ~Publish(w) /\ ~FindMap(w) /\ ~Register(w)
  <2>1. /\ UNCHANGED <<gcpc, overtaken, forwarding_table, destructors>>
        /\ ~Registering(w)
    BY <1>1 DEF relocateObject, CheckRegion, LookUp, allocate, Recheck, Copy, Undo, Retract,
                gcVars, receiverVars, Registering, Relocating
  <2>2. \A x \in Worker : x # w => rel'[x] = rel[x]
    BY <1>1, RelGotoEffect, RelReturnEffect, AllocateEffect
       DEF relocateObject, CheckRegion, LookUp, Recheck, Copy, Undo, Retract, TypeInv, RelPc
  <2> QED BY <2>1, <2>2, QuietStepKeepsDestructors DEF Released
<1> QED BY <1>1, PublishKeepsDestructors, RegisterKeepsDestructors

LEMMA GCKeepsDestructors ==
    ASSUME TypeInv, DestructorCarried, Select \/ triggerRelocation
    PROVE  DestructorCarried'
<1>1. UNCHANGED <<forwarding_table, destructors>>
  BY DEF Select, triggerRelocation, WaitForGuards, WaitAgain, RelocateNext, free, ClearAddress, GCGoto,
         receiverVars
<1>2. CASE free
  <2>1. ~Released
    BY <1>2 DEF free, Released
  <2>2. overtaken' = overtaken \cup {rel[w].obj : w \in {x \in Worker : Registering(x)}}
    BY <1>2 DEF free, ReleaseMaps
  <2> SUFFICES ASSUME NEW o \in Obj, Forwarded(o), o \notin destructors
               PROVE  o \in overtaken'
    BY <1>1 DEF DestructorCarried, Forwarded
  <2>3. o \in overtaken \/ \E w \in Worker : rel[w].obj = o /\ Registering(w)
    BY DEF DestructorCarried
  <2> QED BY <2>2, <2>3
<1>3. CASE ~free
  <2>1. (Released' <=> Released) /\ overtaken' = overtaken
    BY <1>3 DEF Select, triggerRelocation, WaitForGuards, WaitAgain, RelocateNext, ClearAddress, GCGoto,
                Released
  <2>2. \/ rel' = rel
        \/ GC \in Worker /\ Relocating(GC, "idle") /\ \E o \in Obj : Call(GC, o)
    BY <1>3 DEF Select, triggerRelocation, WaitForGuards, WaitAgain, RelocateNext, ClearAddress,
                TypeInv, TypeOK, Worker
  <2>3. \A w \in Worker : Registering(w) => rel'[w] = rel[w]
    BY <2>2, CallEffect DEF Registering, Relocating, TypeInv
  <2> QED BY <1>1, <2>1, <2>3, QuietStepKeepsDestructors
<1> QED BY <1>2, <1>3

LEMMA DereferenceKeepsDestructors ==
    ASSUME TypeInv, ProgressInv, DestructorCarried, NEW t \in Thread, dereference(t)
    PROVE  DestructorCarried'
<1>1. UNCHANGED <<forwarding_table, destructors, gcpc, overtaken>>
  BY DEF dereference, getRaw, getHealedPointer, QueryAgain, inc_use_count, Access, dec_use_count,
         receiverVars, gcVars
<1>2. \/ rel' = rel
      \/ t \in Worker /\ Relocating(t, "idle") /\ \E o \in Obj : Call(t, o)
  <2>1. t \in Worker /\ (Relocating(t, "idle") \/ UserAt(t, "again"))
    BY DEF ProgressInv, CallsAgree, Worker
  <2> QED BY <2>1 DEF dereference, getRaw, getHealedPointer, QueryAgain, inc_use_count, Access,
                      dec_use_count, UserAt, TypeInv, UserTypes
<1>3. \A w \in Worker : Registering(w) => rel'[w] = rel[w]
  BY <1>2, CallEffect DEF Registering, Relocating, TypeInv
<1> QED BY <1>1, <1>3, QuietStepKeepsDestructors DEF Released

(* The destructor of a relocated object moves with it (GCRegion.cpp:285),  *)
(* for any threads and objects and whenever the old region is freed, but   *)
(* for the objects free finds published and not yet registered.            *)
THEOREM RelocationCarriesDestructors == Spec => []DestructorCarried
<1>1. TypeInv /\ ProgressInv /\ DestructorCarried /\ [Next]_vars => DestructorCarried'
  <2> SUFFICES ASSUME TypeInv, ProgressInv, DestructorCarried, [Next]_vars PROVE DestructorCarried'
    OBVIOUS
  <2>1. CASE UNCHANGED vars
    BY <2>1, QuietStepKeepsDestructors DEF vars, receiverVars, gcVars, Registering, Released
  <2> QED BY <2>1, RelocateKeepsDestructors, GCKeepsDestructors, DereferenceKeepsDestructors
          DEF Next, Finished
<1> QED BY <1>1, InitDestructors, AlwaysProgressing, PTL DEF Spec
=============================================================================
