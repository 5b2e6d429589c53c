---------------------------- MODULE GCRelocation ----------------------------
(***************************************************************************)
(* The evacuation of one region: selection, the GC thread's relocation of  *)
(* the objects the marking kept (Obj), the user threads that relocate an   *)
(* object themselves because they want to use it, the forwarding table all *)
(* of them race on, the bump allocation in the receiving region and its    *)
(* withdrawal by whoever loses the race, the use count of the PtrGuards    *)
(* and the release of the old memory.                                      *)
(*                                                                         *)
(* Old is the region being evacuated, as the place a user thread's pointer *)
(* refers to; the offsets of the receiving region are 0..Capacity-1, one   *)
(* per object.  Capacity bounds the receiving region: a worker allocates   *)
(* at most once for an object, so (|Thread| + 1) * |Obj| is always enough, *)
(* and the allocator would open another region when one is full.           *)
(*                                                                         *)
(* A definition name_change is a faulty variant of name that no            *)
(* specification here uses.                                                *)
(***************************************************************************)
EXTENDS Integers, FiniteSets

CONSTANTS
    Thread,         \* user threads
    GC,             \* the GC pool thread that evacuates the region
    Obj,            \* the live objects of the region
    Value,          \* what an object may hold
    Garbage,        \* what freed memory holds
    None, Old,
    Capacity,
    doNotRelocatePtrGuard,      \* of GCParameter
    GuardCovers     \* no thread is caught between the read of a GCPtr's object
                    \* and the increment of the use count when the set of
                    \* regions to evacuate is selected

Worker == Thread \cup {GC}
Addr == 0..(Capacity - 1)

ASSUME WorkerAssumption ==
    GC \notin Thread /\ IsFiniteSet(Thread) /\ Worker \cap Obj = {}
ASSUME CapacityAssumption == Capacity \in Nat
ASSUME MarkerAssumption ==
    None \notin Addr \cup Obj /\ Old \notin Addr \cup {None} /\ Garbage \notin Value
ASSUME ParameterAssumption ==
    {doNotRelocatePtrGuard, GuardCovers} \subseteq BOOLEAN

VARIABLES
    evacuated, freed, use_count, forwarding_table,  \* fields of the region
    old,                    \* what the objects hold at their old addresses
    cell,                   \* what the receiving region holds
    allocated_offset,       \* of the receiving region
    gcpc,                   \* where the GC thread is
    left,                   \* the objects its iterator has still to visit
    destructors,            \* the objects registered with the receiving region
    overtaken,              \* history: the objects whose worker had published them
                            \* and not registered them when the maps were released
    rel,                    \* a relocateObject under way: its step, object, address
    user                    \* a dereference under way

regionVars == <<evacuated, freed, use_count>>
memoryVars == <<old, cell>>
receiverVars == <<allocated_offset, destructors>>
gcVars == <<gcpc, left, overtaken>>
vars == <<regionVars, forwarding_table, memoryVars, receiverVars, gcVars, rel, user>>

Forwarded(o) == forwarding_table[o] # None
NoRelocation == [pc |-> "idle", obj |-> None, addr |-> None]
NoAccess == [pc |-> "idle", obj |-> None, ref |-> None, act |-> None]

-----------------------------------------------------------------------------
(* GCRegion::relocateObject, run by worker w for rel[w].obj. *)
Relocating(w, step) == rel[w].pc = step
RelGoto(w, step) == rel' = [rel EXCEPT ![w].pc = step]
RelReturn(w) == rel' = [rel EXCEPT ![w] = NoRelocation]
Call(w, o) == rel' = [rel EXCEPT ![w] = [pc |-> "check", obj |-> o, addr |-> None]]

(* isFreed(), inside_region() and the look-up under the shared lock. *)
CheckRegion(w) ==
    /\ Relocating(w, "check")
    /\ IF freed THEN RelReturn(w) ELSE RelGoto(w, "lookup")
    /\ UNCHANGED <<regionVars, forwarding_table, memoryVars, receiverVars, gcVars, user>>
LookUp(w) ==
    /\ Relocating(w, "lookup")
    /\ IF Forwarded(rel[w].obj) THEN RelReturn(w) ELSE RelGoto(w, "allocate")
    /\ UNCHANGED <<regionVars, forwarding_table, memoryVars, receiverVars, gcVars, user>>
(* memoryAllocator->relocate: the compare-and-swap that moves the offset. *)
allocate(w) ==
    /\ Relocating(w, "allocate") /\ allocated_offset < Capacity
    /\ allocated_offset' = allocated_offset + 1
    /\ rel' = [rel EXCEPT ![w] = [@ EXCEPT !.pc = "recheck", !.addr = allocated_offset]]
    /\ UNCHANGED <<regionVars, forwarding_table, memoryVars, destructors, gcVars, user>>
Recheck(w) ==
    /\ Relocating(w, "recheck")
    /\ RelGoto(w, IF freed THEN "undo" ELSE "copy")
    /\ UNCHANGED <<regionVars, forwarding_table, memoryVars, receiverVars, gcVars, user>>
(* memcpy; the memory may have gone back since the check. *)
Released == gcpc \in {"freeing", "done"}
Copy(w) ==
    /\ Relocating(w, "copy")
    /\ cell' = [cell EXCEPT ![rel[w].addr] = IF Released THEN Garbage ELSE old[rel[w].obj]]
    /\ RelGoto(w, "publish")
    /\ UNCHANGED <<regionVars, forwarding_table, old, receiverVars, gcVars, user>>
(* Under the exclusive lock: the first to come forwards the object. *)
Publish_lastWins(w) ==
    /\ Relocating(w, "publish")
    /\ forwarding_table' = [forwarding_table EXCEPT ![rel[w].obj] = rel[w].addr]
    /\ RelGoto(w, "find")
    /\ UNCHANGED <<regionVars, memoryVars, receiverVars, gcVars, user>>
Publish(w) ==
    /\ Relocating(w, "publish")
    /\ IF Forwarded(rel[w].obj)
       THEN RelGoto(w, "undo") /\ UNCHANGED forwarding_table
       ELSE /\ forwarding_table' = [forwarding_table EXCEPT ![rel[w].obj] = rel[w].addr]
            /\ RelGoto(w, "find")
    /\ UNCHANGED <<regionVars, memoryVars, receiverVars, gcVars, user>>
(* The lock released, the winner turns to the old region's destructor map, *)
(* which free takes away without a lock: it loads the map's pointer, which *)
(* is null from then on, and searches the map and registers what it found. *)
(* In a map that went after the load that ends in anything.                *)
FindMap(w) ==
    /\ Relocating(w, "find")
    /\ RelGoto(w, IF Released THEN "crash" ELSE "register")
    /\ UNCHANGED <<regionVars, forwarding_table, memoryVars, receiverVars, gcVars, user>>
Register(w) ==
    /\ Relocating(w, "register")
    /\ \/ RelReturn(w) /\ destructors' = destructors \cup {rel[w].obj}
       \/ Released /\ (RelReturn(w) \/ RelGoto(w, "crash")) /\ UNCHANGED destructors
    /\ UNCHANGED <<regionVars, forwarding_table, memoryVars, allocated_offset, gcVars, user>>
Registering(w) == rel[w].pc \in {"find", "register"}
(* new_region->free: withdraws the allocation if it is the last one still, *)
(* with a load and a compare-and-swap, and leaves a hole otherwise.        *)
Undo(w) ==
    /\ Relocating(w, "undo")
    /\ IF rel[w].addr + 1 = allocated_offset THEN RelGoto(w, "retract") ELSE RelReturn(w)
    /\ UNCHANGED <<regionVars, forwarding_table, memoryVars, receiverVars, gcVars, user>>
Retract_plainStore(w) ==
    /\ Relocating(w, "retract")
    /\ allocated_offset' = rel[w].addr
    /\ RelReturn(w)
    /\ UNCHANGED <<regionVars, forwarding_table, memoryVars, destructors, gcVars, user>>
Retract(w) ==
    /\ Relocating(w, "retract")
    /\ IF allocated_offset = rel[w].addr + 1
       THEN allocated_offset' = rel[w].addr /\ RelReturn(w)
       ELSE RelGoto(w, "undo") /\ UNCHANGED allocated_offset
    /\ UNCHANGED <<regionVars, forwarding_table, memoryVars, destructors, gcVars, user>>

relocateObject(w) ==
    \/ CheckRegion(w) \/ LookUp(w) \/ allocate(w) \/ Recheck(w) \/ Copy(w)
    \/ Publish(w) \/ FindMap(w) \/ Register(w) \/ Undo(w) \/ Retract(w)

-----------------------------------------------------------------------------
(* A user thread's operator->: getRaw, the PtrGuard's increment, an access *)
(* through the guard's pointer, the decrement.                             *)
UserAt(t, step) == user[t].pc = step
Goto(t, step) == user' = [user EXCEPT ![t].pc = step]
Refer(t, ref) == user' = [user EXCEPT ![t] = [@ EXCEPT !.pc = "guard", !.ref = ref]]

(* While the objects are being marked a GCPtr needs no heal. *)
getRaw(t, o) ==
    /\ UserAt(t, "idle")
    /\ user' = [user EXCEPT ![t] =
           IF gcpc = "marking" THEN [pc |-> "guard", obj |-> o, ref |-> Old, act |-> None]
                               ELSE [pc |-> "query", obj |-> o, ref |-> None, act |-> None]]
    /\ UNCHANGED <<regionVars, forwarding_table, memoryVars, receiverVars, gcVars, rel>>
(* getHealedPointer: the table, else relocate the object and look again. *)
getHealedPointer(t) ==
    /\ UserAt(t, "query")
    /\ LET o == user[t].obj
       IN  IF Forwarded(o)
           THEN Refer(t, forwarding_table[o]) /\ UNCHANGED rel
           ELSE Call(t, o) /\ Goto(t, "again")
    /\ UNCHANGED <<regionVars, forwarding_table, memoryVars, receiverVars, gcVars>>
QueryAgain(t) ==
    /\ UserAt(t, "again") /\ Relocating(t, "idle")
    /\ IF Forwarded(user[t].obj) THEN Refer(t, forwarding_table[user[t].obj])
                                 ELSE Goto(t, "throw")
    /\ UNCHANGED <<regionVars, forwarding_table, memoryVars, receiverVars, gcVars, rel>>

OnOld(t) == user[t].ref = Old
inc_use_count(t) ==
    /\ UserAt(t, "guard")
    /\ use_count' = IF OnOld(t) THEN use_count + 1 ELSE use_count
    /\ Goto(t, "access")
    /\ UNCHANGED <<evacuated, freed, forwarding_table, memoryVars, receiverVars, gcVars, rel>>
Dereference(t) ==
    IF OnOld(t) THEN IF Released THEN Garbage ELSE old[user[t].obj] ELSE cell[user[t].ref]
Access(t) ==
    /\ UserAt(t, "access")
    /\ LET o == user[t].obj
           done(act) == user' = [user EXCEPT ![t] = [@ EXCEPT !.pc = "release", !.act = act]]
       IN  \/ done(<<"read", o, Dereference(t)>>) /\ UNCHANGED memoryVars
           \/ \E v \in Value :
                  /\ done(<<"write", o, v>>)
                  /\ IF OnOld(t) THEN old' = [old EXCEPT ![o] = v] /\ UNCHANGED cell
                     ELSE cell' = [cell EXCEPT ![user[t].ref] = v] /\ UNCHANGED old
    /\ UNCHANGED <<regionVars, forwarding_table, receiverVars, gcVars, rel>>
dec_use_count_missed(t) ==
    /\ UserAt(t, "release")
    /\ user' = [user EXCEPT ![t] = NoAccess]
    /\ UNCHANGED <<regionVars, forwarding_table, memoryVars, receiverVars, gcVars, rel>>
dec_use_count(t) ==
    /\ UserAt(t, "release")
    /\ use_count' = IF OnOld(t) THEN use_count - 1 ELSE use_count
    /\ user' = [user EXCEPT ![t] = NoAccess]
    /\ UNCHANGED <<evacuated, freed, forwarding_table, memoryVars, receiverVars, gcVars, rel>>

dereference(t) ==
    \/ \E o \in Obj : getRaw(t, o)
    \/ getHealedPointer(t) \/ QueryAgain(t) \/ inc_use_count(t) \/ Access(t)
    \/ dec_use_count(t)

-----------------------------------------------------------------------------
(* The GC thread: selectRelocationSet while the world is stopped, then     *)
(* GCRegion::triggerRelocation and free.                                   *)
GCGoto(step) ==
    /\ gcpc' = step
    /\ UNCHANGED <<use_count, forwarding_table, memoryVars, receiverVars, user>>

Select_guarded ==
    /\ gcpc = "marking" /\ GCGoto("wait")
    /\ evacuated' = TRUE
    /\ UNCHANGED <<freed, left, overtaken, rel>>
Select ==
    /\ gcpc = "marking" /\ GCGoto("wait")
    /\ doNotRelocatePtrGuard => use_count = 0
    /\ GuardCovers => \A t \in Thread : ~(UserAt(t, "guard") /\ OnOld(t))
    /\ evacuated' = TRUE
    /\ UNCHANGED <<freed, left, overtaken, rel>>
(* while (use_count != 0): spins, before and after the store of evacuated. *)
WaitForGuards ==
    /\ gcpc = "wait" /\ use_count = 0 /\ GCGoto("waitAgain")
    /\ evacuated' = TRUE
    /\ UNCHANGED <<freed, left, overtaken, rel>>
WaitAgain ==
    /\ gcpc = "waitAgain" /\ use_count = 0 /\ GCGoto("relocate")
    /\ UNCHANGED <<evacuated, freed, left, overtaken, rel>>
(* The objects one after the other; then the maps and the memory go, and   *)
(* after that the region's address is cleared, which isFreed tests.        *)
RelocateNext ==
    /\ gcpc = "relocate" /\ Relocating(GC, "idle")
    /\ \E o \in left : Call(GC, o) /\ left' = left \ {o}
    /\ UNCHANGED <<regionVars, forwarding_table, memoryVars, receiverVars, gcpc, overtaken, user>>
ReleaseMaps ==
    overtaken' = overtaken \cup {rel[w].obj : w \in {x \in Worker : Registering(x)}}
free_early ==
    /\ gcpc = "relocate" /\ Relocating(GC, "idle") /\ GCGoto("freeing")
    /\ ReleaseMaps
    /\ evacuated' = TRUE
    /\ UNCHANGED <<freed, left, rel>>
free ==
    /\ gcpc = "relocate" /\ Relocating(GC, "idle") /\ left = {} /\ GCGoto("freeing")
    /\ ReleaseMaps
    /\ evacuated' = TRUE
    /\ UNCHANGED <<freed, left, rel>>
ClearAddress ==
    /\ gcpc = "freeing" /\ GCGoto("done")
    /\ freed' = TRUE
    /\ UNCHANGED <<evacuated, left, overtaken, rel>>
(* Nothing more happens when the program stops using its objects, or dies. *)
Finished ==
    /\ gcpc = "done"
    /\ \A t \in Thread : UserAt(t, "idle") \/ Relocating(t, "crash")
    /\ UNCHANGED vars

triggerRelocation ==
    WaitForGuards \/ WaitAgain \/ RelocateNext \/ free \/ ClearAddress

Init ==
    /\ evacuated = FALSE /\ freed = FALSE /\ use_count = 0
    /\ forwarding_table = [o \in Obj |-> None]
    /\ old \in [Obj -> Value] /\ cell = [a \in Addr |-> Garbage]
    /\ allocated_offset = 0 /\ destructors = {} /\ gcpc = "marking" /\ left = Obj
    /\ overtaken = {}
    /\ rel = [w \in Worker |-> NoRelocation]
    /\ user = [t \in Thread |-> NoAccess]

Next ==
    \/ Select \/ triggerRelocation \/ Finished
    \/ \E w \in Worker : relocateObject(w)
    \/ \E t \in Thread : dereference(t)
Spec == Init /\ [][Next]_vars

(* The scheduler runs every thread: a dereference that has begun ends, and *)
(* the GC thread, once it has selected the region, goes on.                *)
Going(t) == dereference(t) /\ ~UserAt(t, "idle")
Fairness ==
    /\ WF_vars(triggerRelocation)
    /\ \A w \in Worker : WF_vars(relocateObject(w))
    /\ \A t \in Thread : WF_vars(Going(t))
FairSpec == Spec /\ Fairness

-----------------------------------------------------------------------------
Action == {None} \cup ({"read", "write"} \X Obj \X (Value \cup {Garbage}))
(* Every variable keeps to the range of the field or local it stands for. *)
TypeOK ==
    /\ {evacuated, freed} \subseteq BOOLEAN /\ use_count \in Nat
    /\ forwarding_table \in [Obj -> Addr \cup {None}]
    /\ old \in [Obj -> Value] /\ cell \in [Addr -> Value \cup {Garbage}]
    /\ allocated_offset \in 0..Capacity /\ {destructors, left, overtaken} \subseteq SUBSET Obj
    /\ gcpc \in {"marking", "wait", "waitAgain", "relocate", "freeing", "done"}
    /\ rel \in [Worker -> [pc : {"idle", "check", "lookup", "allocate", "recheck", "copy",
                                 "publish", "find", "register", "crash", "undo", "retract"},
                           obj : Obj \cup {None}, addr : Addr \cup {None}]]
    /\ user \in [Thread -> [pc : {"idle", "query", "again", "throw", "guard", "access", "release"},
                            obj : Obj \cup {None}, ref : Addr \cup {Old, None},
                            act : Action]]

(* getHealedPointer's second look-up finds the object, whoever relocated   *)
(* it and even if the region was freed in between (GCWorker.cpp:676).      *)
NeverThrows == \A t \in Thread : ~UserAt(t, "throw")

(* README.md:323 wants every destructor called, so that of a relocated     *)
(* object must come to its new region (GCRegion.cpp:285).  Only what its   *)
(* one worker had published and not registered when the maps went is ever  *)
(* lost: whoever had not published by then finds the object forwarded.     *)
DestructorCarried ==
    \A o \in Obj :
        Forwarded(o) => \/ o \in destructors \cup overtaken
                        \/ ~Released /\ \E w \in Worker : rel[w].obj = o /\ Registering(w)

(* The owners of an address of the receiving region: the object forwarded  *)
(* to it, and a worker that allocated it and has not published or          *)
(* withdrawn it.                                                           *)
Holding(w) == rel[w].pc \in {"recheck", "copy", "publish", "undo", "retract"}
Owners(a) == {w \in Worker : Holding(w) /\ rel[w].addr = a}
             \cup {o \in Obj : forwarding_table[o] = a}
(* No two objects ever share an address of the receiving region, although  *)
(* losers withdraw theirs while others allocate.                           *)
NoOverlap ==
    \A a \in Addr :
        /\ \A x, y \in Owners(a) : x = y
        /\ a >= allocated_offset => Owners(a) = {}

(* README.md:309: while a PtrGuard to the region exists, the object it     *)
(* guards stays where it is.                                               *)
GuardedInPlace ==
    \A t \in Thread :
        user[t].pc \in {"access", "release"} /\ OnOld(t) => ~Forwarded(user[t].obj)

(* A forwarding entry, once made, is never changed: pointers healed with   *)
(* it are never healed again.                                              *)
ForwardedOnce ==
    [][\A o \in Obj : Forwarded(o) => forwarding_table'[o] = forwarding_table[o]]_vars

(* To the program the objects do not move: every access reads or replaces  *)
(* the object's one value, whichever copy it goes to and whoever made it.  *)
Content(o) == IF Forwarded(o) THEN cell[forwarding_table[o]] ELSE old[o]
Heap == INSTANCE StableHeap
            WITH val <- [o \in Obj |-> Content(o)],
                 access <- [t \in Thread |-> user[t].act]
RelocationInvisible == Heap!Spec

(* Once selected, the region is evacuated and its memory freed. *)
EvacuationEnds == gcpc = "wait" ~> gcpc = "done"
=============================================================================
