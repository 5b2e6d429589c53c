------------------------------- MODULE GCMark -------------------------------
(***************************************************************************)
(* Concurrent snapshot-at-the-beginning marking and the sweep that follows *)
(* it, at the granularity of the individual accesses of the user threads.  *)
(*                                                                         *)
(* A slot is one GCPtr: a root (a GCPtr outside the managed heap) or the   *)
(* GCPtr field of an object.  Every object has one such field, named by    *)
(* the object itself.  A slot keeps the object it refers to (ptr) and its  *)
(* inline mark state (ims); an object keeps its entry of the region's mark *)
(* bitmap (bit).  Relocation does not change which object a slot refers    *)
(* to, so a heal is visible here only through the inline mark state; the   *)
(* addresses are the matter of module GCRelocation.                        *)
(*                                                                         *)
(* A user operation is a sequence of steps; the GC thread and its pool are *)
(* a set of pending visits that may be served in any order.                *)
(*                                                                         *)
(* A definition name_change is a faulty variant of name: a mistake one     *)
(* could make in that code.  No specification here uses it; substituted    *)
(* for name it must break a property the README names.                     *)
(***************************************************************************)
EXTENDS Naturals, FiniteSets

CONSTANTS
    Mutator,        \* user threads
    Root,           \* GCPtr variables outside the managed heap
    Obj,            \* object addresses
    Null,           \* the null pointer
    M0, M1,         \* the mark states the cycles take in turn
    Ops,            \* the operations the program uses
    PoolCount,      \* number of SATB queues
    PoolOf,         \* the SATB queue a user thread appends to
    suspendThreadsWhenSTW,  \* GCParameter: the user threads are suspended
                            \* while the world is stopped
    SleepCovers,    \* startGC's sleep outlasts operations already begun
    SwitchCovers,   \* no operator= is caught between its phase test and the
                    \* store of its inline state when a cycle begins
    PhaseLockCovers,    \* SwitchToNextPhase's two stores are one to every reader:
                    \* what WeakSpinReadWriteLock gives, but for a reader
                    \* caught between its test of the flag and its count
    AliasAssign     \* the program may assign p = q when p and q already refer
                    \* to the same object

ASSUME PoolAssumption ==
    /\ PoolCount \in Nat \ {0}
    /\ PoolOf \in [Mutator -> 1..PoolCount]
ASSUME OpsAssumption ==
    Ops \subseteq {"assign", "null", "destroy", "copy", "convert", "make", "build", "read"}
ASSUME NullAssumption == Null \notin Obj \cup Root
ASSUME StateAssumption ==
    M0 # M1 /\ {M0, M1} \cap {"REMAPPED", "DE_ALLOCATED", "NOT_ALLOCATED", "none"} = {}
ASSUME SlotAssumption == Root \cap Obj = {}
ASSUME TimingAssumption == {suspendThreadsWhenSTW, SleepCovers, SwitchCovers, PhaseLockCovers, AliasAssign}
                               \subseteq BOOLEAN

Slot == Root \cup Obj
MarkState == {"REMAPPED", M0, M1, "DE_ALLOCATED"}
MarkStateBit == {"NOT_ALLOCATED", "REMAPPED", M0, M1}
Phase == {"NONE", "CONCURRENT_MARK", "REMARK", "SWEEP"}

VARIABLES
    phase, cms,                     \* GCPhase::gcPhase, currentMarkState
    ptr, ims, bit, rootset, satb,
    gcpc,                           \* where the GC thread is
    greySlot, greyInfo, greyObj,    \* visits the marking threads still owe
    pool,                           \* the SATB queue being drained
    op, fresh,                      \* the user threads' operations, new objects
    early, doomed                   \* history: see SwitchMarkState

gcVars == <<phase, cms, gcpc, greySlot, greyInfo, greyObj, pool>>
heapVars == <<ptr, ims, bit, rootset, satb>>
opVars == <<op, fresh>>
vars == <<gcVars, heapVars, opVars, early, doomed>>

Step == {"idle", "push", "inline", "write", "clear", "remove", "addRoot", "allocate",
         "fields", "set", "read"}

-----------------------------------------------------------------------------
duringGC == phase # "NONE"
duringMarking == phase \in {"CONCURRENT_MARK", "REMARK"}
switchState == [s \in {"REMAPPED", M0, M1} |-> IF s = M0 THEN M1 ELSE M0]

(* needSelfHeal reads the mark state and the phase as a read section of    *)
(* gcPhaseLock.                                                            *)
PhaseReadable == PhaseLockCovers => gcpc # "switching"
(* GCPhase::needSelfHeal and the null test of GCPtr_::needHeal. *)
needHeal(s) ==
    /\ ptr[s] # Null
    /\ ims[s] # "REMAPPED"
    /\ IF duringMarking THEN ims[s] # cms ELSE ims[s] = cms

needSweep_sparesRemapped(o) == bit[o] \notin {"NOT_ALLOCATED", cms, "REMAPPED"}
needSweep(o) == bit[o] \notin {"NOT_ALLOCATED", cms}

(* The inline state of a GCPtr built by the default constructor, and the   *)
(* one setInlineMarkState(other) computes.                                 *)
freshState_alwaysRemapped == "REMAPPED"
freshState == IF duringGC THEN cms ELSE "REMAPPED"
copiedState(other) == IF duringMarking THEN cms ELSE ims[other]

(* The objects that can be reached from a set of slots over a set of       *)
(* links: the least set those slots and its own links do not lead out of.  *)
Targets(S) == {ptr[s] : s \in S} \ {Null}
Closed(C, S, Links) == Targets((S \cup C) \cap Links) \subseteq C
ReachableFrom(S, Links) ==
    {o \in Obj : \A C \in SUBSET Obj : Closed(C, S, Links) => o \in C}
Reachable == ReachableFrom(Root, Slot)

-----------------------------------------------------------------------------
(* User operations.  op[m] is the operation thread m is in: its kind, the  *)
(* next step (pc), the slot written (dst), the slot read (src), the roots  *)
(* those fields are reached through (via), and the mark state a heal under *)
(* way has read (heal).  A step ends at the next access whose order with   *)
(* the GC thread's can matter.                                             *)
NoOp == [kind |-> "none", pc |-> "idle", dst |-> Null, src |-> Null, via |-> {},
         heal |-> "none"]
At(m, step) == op[m].pc = step

(* The program writes a GCPtr from one thread at a time, and reads it from *)
(* another only while no thread writes it.                                 *)
Writes(m) == {op[m].dst} \ {Null}
Reads(m) == ({op[m].src} \ {Null}) \cup op[m].via
Exclusive(m, W, R) ==
    \A k \in Mutator \ {m} :
        W \cap (Writes(k) \cup Reads(k)) = {} /\ R \cap Writes(k) = {}

(* The slots an expression of the program can name, each with the root it  *)
(* goes through: a root r itself, or the field of the object r refers to.  *)
Path(r) == {<<r, {}>>} \cup {<<o, {r}>> : o \in {ptr[r]} \ {Null}}
Named == UNION {Path(r) : r \in rootset}
(* A root no thread has built yet, or one destroyed. *)
Unbuilt == {r \in Root : ims[r] = "DE_ALLOCATED" /\ \A k \in Mutator : r \notin Writes(k)}

(* While the world is stopped the GC thread holds the STW lock exclusively, *)
(* or has suspended every user thread.                                      *)
StwHeld == gcpc \in {"remark", "drain", "selected"}
Running(m) == ~(suspendThreadsWhenSTW /\ StwHeld)
(* The steps taken between EnterCriticalSection and LeaveCriticalSection.  *)
InCritical(m) ==
    \/ op[m].kind \in {"null", "destroy", "copy"} /\ op[m].heal # "none"
    \/ op[m].kind = "copy" /\ At(m, "addRoot")
    \/ At(m, "fields") \/ At(m, "set")

Begin(m, kind, step, dst, src, via, heal) ==
    /\ Running(m) /\ kind \in Ops /\ At(m, "idle")
    /\ Exclusive(m, {dst} \ {Null}, ({src} \ {Null}) \cup via)
    /\ op' = [op EXCEPT ![m] = [kind |-> kind, pc |-> step, dst |-> dst, src |-> src,
                               via |-> via, heal |-> heal]]
    /\ UNCHANGED <<early, gcVars, doomed>>
Goto(m, step) ==
    /\ Running(m)
    /\ op' = [op EXCEPT ![m] = [@ EXCEPT !.pc = step, !.heal = "none"]]
    /\ UNCHANGED <<early, gcVars, doomed>>
Return(m) ==
    /\ Running(m)
    /\ op' = [op EXCEPT ![m] = NoOp] /\ early' = early \ {m}
    /\ UNCHANGED <<gcVars, doomed>>

(* The test that guards the SATB barrier, made outside any lock. *)
Barrier_dropped(dst) == FALSE
Barrier(dst) == phase = "CONCURRENT_MARK" /\ ptr[dst] # Null

(* operator=(const GCPtr_&), operator=(nullptr_t), ~GCPtr_ up to that test. *)
StartAssign(m) ==
    \E d, s \in Named :
        /\ d[1] # s[1]
        /\ AliasAssign \/ ptr[d[1]] = Null \/ ptr[d[1]] # ptr[s[1]]
        /\ Begin(m, "assign",
                 IF Barrier(d[1]) /\ ptr[d[1]] # ptr[s[1]] THEN "push" ELSE "inline",
                 d[1], s[1], d[2] \cup s[2], "none")
        /\ UNCHANGED <<heapVars, fresh>>
StartNull(m) ==
    \E d \in Named :
        /\ ptr[d[1]] # Null
        /\ Begin(m, "null", IF Barrier(d[1]) THEN "push" ELSE "clear", d[1], Null, d[2],
                 "none")
        /\ UNCHANGED <<heapVars, fresh>>
StartDestroy(m) ==
    \E r \in rootset :
        /\ Begin(m, "destroy", IF Barrier(r) THEN "push" ELSE "remove", r, Null, {}, "none")
        /\ UNCHANGED <<heapVars, fresh>>
(* The copy constructors and the default one: the inline state comes first. *)
StartCopy(m) ==
    \E r \in Unbuilt, s \in Named, kind \in {"copy", "convert"} :
        /\ Begin(m, kind, "write", r, s[1], s[2], "none")
        /\ ims' = [ims EXCEPT ![r] = copiedState(s[1])]
        /\ UNCHANGED <<ptr, bit, rootset, satb, fresh>>
(* Obj bounds the heap: make_gc starts only if memory is left for it. *)
Unused == {o \in Obj : bit[o] = "NOT_ALLOCATED"}
MemoryLeft ==
    Cardinality({k \in Mutator : op[k].kind \in {"make", "build"} /\ fresh[k] = Null}) < Cardinality(Unused)
(* make_gc, without arguments or with a GCPtr its object's field copies. *)
StartMake(m) ==
    \E r \in Unbuilt :
        /\ MemoryLeft
        /\ \/ Begin(m, "make", "addRoot", r, Null, {}, "none")
           \/ \E s \in Named : Begin(m, "build", "addRoot", r, s[1], s[2], "none")
        /\ ims' = [ims EXCEPT ![r] = freshState]
        /\ UNCHANGED <<ptr, bit, rootset, satb, fresh>>

-----------------------------------------------------------------------------
(* getRaw of the slot a step reads: the decision to heal, under            *)
(* gcPhaseLock, and then the healing, which publishes REMAPPED with a      *)
(* compare-and-swap just before the step's own effect.                     *)
Operand(m) == IF At(m, "push") THEN op[m].dst ELSE op[m].src
GetRaw(m) == op[m].heal = "none" => PhaseReadable /\ ~needHeal(Operand(m))
Healed_plainStore(m) ==
    IF op[m].heal # "none" THEN [ims EXCEPT ![Operand(m)] = "REMAPPED"] ELSE ims
Healed(m) ==
    LET s == Operand(m)
    IN  IF op[m].heal # "none" /\ ims[s] = op[m].heal
        THEN [ims EXCEPT ![s] = "REMAPPED"] ELSE ims
(* The STW lock, shared: taken by the barriers of operator=(nullptr) and   *)
(* the destructor and by the copy constructor, and by getHealedPointer     *)
(* except in the remark phase.                                             *)
TakesLock(m) ==
    \/ op[m].kind \in {"null", "destroy"} /\ At(m, "push")
    \/ op[m].kind = "copy" /\ At(m, "write")
StwOpen(m) ==
    /\ TakesLock(m) => ~StwHeld
    /\ op[m].heal # "none" => ~StwHeld \/ phase = "REMARK"

StartHeal(m) ==
    /\ Running(m)
    /\ At(m, "push") \/ At(m, "write") \/ (At(m, "fields") /\ op[m].src # Null)
    /\ op[m].heal = "none" /\ PhaseReadable /\ needHeal(Operand(m))
    /\ StwOpen(m)
    /\ op' = [op EXCEPT ![m].heal = ims[Operand(m)]]
    /\ UNCHANGED <<gcVars, heapVars, fresh, early, doomed>>
(* operator-> and operator*: a getRaw and nothing else. *)
StartRead(m) ==
    \E s \in Named :
        /\ PhaseReadable /\ needHeal(s[1])
        /\ Begin(m, "read", "read", Null, s[1], s[2], ims[s[1]])
        /\ UNCHANGED <<heapVars, fresh>>
Read(m) ==
    /\ At(m, "read") /\ StwOpen(m)
    /\ ims' = Healed(m)
    /\ Return(m)
    /\ UNCHANGED <<ptr, bit, rootset, satb, fresh>>

addSATB(m) ==
    /\ At(m, "push") /\ GetRaw(m) /\ StwOpen(m)
    /\ ims' = Healed(m)
    /\ satb' = [satb EXCEPT ![PoolOf[m]] = @ \cup ({ptr[op[m].dst]} \ {Null})]
    /\ Goto(m, CASE op[m].kind = "assign" -> "inline"
                 [] op[m].kind = "null" -> "clear"
                 [] OTHER -> "remove")
    /\ UNCHANGED <<ptr, bit, rootset, fresh>>

(* setInlineMarkState(other), which operator= does before it writes obj. *)
SetInline(m) ==
    /\ At(m, "inline")
    /\ ims' = [ims EXCEPT ![op[m].dst] = copiedState(op[m].src)]
    /\ Goto(m, "write")
    /\ UNCHANGED <<ptr, bit, rootset, satb, fresh>>

(* this->obj = other's object; a constructor then registers its GCPtr. *)
Write(m) ==
    /\ At(m, "write") /\ GetRaw(m) /\ StwOpen(m)
    /\ ims' = Healed(m)
    /\ ptr' = [ptr EXCEPT ![op[m].dst] = ptr[op[m].src]]
    /\ IF op[m].kind = "assign" THEN Return(m) ELSE Goto(m, "addRoot")
    /\ UNCHANGED <<bit, rootset, satb, fresh>>
Clear(m) ==
    /\ At(m, "clear")
    /\ ptr' = [ptr EXCEPT ![op[m].dst] = Null]
    /\ Return(m)
    /\ UNCHANGED <<ims, bit, rootset, satb, fresh>>

(* addRoot and removeRoot wait for gcRootsetMtx, which beginMark holds     *)
(* while it visits the roots; the destructor then retires the GCPtr.       *)
addRoot(m) ==
    /\ At(m, "addRoot") /\ gcpc # "roots"
    /\ rootset' = rootset \cup {op[m].dst}
    /\ IF op[m].kind \in {"make", "build"} THEN Goto(m, "allocate") ELSE Return(m)
    /\ UNCHANGED <<ptr, ims, bit, satb, fresh>>
removeRoot(m) ==
    /\ At(m, "remove") /\ gcpc # "roots"
    /\ rootset' = rootset \ {op[m].dst}
    /\ ims' = [ims EXCEPT ![op[m].dst] = "DE_ALLOCATED"]
    /\ ptr' = [ptr EXCEPT ![op[m].dst] = Null]
    /\ Return(m)
    /\ UNCHANGED <<bit, satb, fresh>>

(* make_gc in its critical section: the memory is taken and marked, the    *)
(* object built (its field by the default or the copy constructor), and    *)
(* published.                                                              *)
Allocate(m) ==
    /\ At(m, "allocate") /\ ~StwHeld
    /\ \E o \in Unused :
           /\ fresh' = [fresh EXCEPT ![m] = o]
           /\ bit' = [bit EXCEPT ![o] = freshState]
    /\ Goto(m, "fields")
    /\ UNCHANGED <<ptr, ims, rootset, satb>>
BuildFields(m) ==
    /\ At(m, "fields")
    /\ IF op[m].src = Null
       THEN ims' = [ims EXCEPT ![fresh[m]] = freshState] /\ UNCHANGED ptr
       ELSE /\ GetRaw(m)
            /\ ims' = [Healed(m) EXCEPT ![fresh[m]] = copiedState(op[m].src)]
            /\ ptr' = [ptr EXCEPT ![fresh[m]] = ptr[op[m].src]]
    /\ Goto(m, "set")
    /\ UNCHANGED <<bit, rootset, satb, fresh>>
Set(m) ==
    /\ At(m, "set")
    /\ ptr' = [ptr EXCEPT ![op[m].dst] = fresh[m]]
    /\ fresh' = [fresh EXCEPT ![m] = Null]
    /\ Return(m)
    /\ UNCHANGED <<ims, bit, rootset, satb>>

-----------------------------------------------------------------------------
(* The GC thread. *)
GCStep == UNCHANGED opVars

(* m has made operator='s phase test and not yet stored the inline state. *)
Stamping(m) == op[m].kind = "assign" /\ op[m].pc \in {"push", "inline"}

(* SwitchToNextPhase out of NONE: two stores under gcPhaseLock.  From here *)
(* on, early are the threads with an operation under way and doomed the    *)
(* objects no slot, no operation and no SATB queue leads to.               *)
SwitchPhase ==
    /\ gcpc = "idle" /\ phase = "NONE"
    /\ SwitchCovers => \A m \in Mutator : ~Stamping(m)
    /\ phase' = "CONCURRENT_MARK" /\ gcpc' = "switching"
    /\ UNCHANGED <<cms, heapVars, greySlot, greyInfo, greyObj, pool, early, doomed>>
    /\ GCStep
SwitchMarkState ==
    /\ gcpc = "switching"
    /\ cms' = switchState[cms] /\ gcpc' = "sleep"
    /\ early' = {m \in Mutator : ~At(m, "idle")}
    /\ LET queued == UNION {satb[i] : i \in 1..PoolCount}
       IN  doomed' = {o \in Obj : bit[o] # "NOT_ALLOCATED"}
                       \ (Reachable \cup queued \cup ReachableFrom(queued, Slot)
                                   \cup {fresh[m] : m \in Mutator})
    /\ UNCHANGED <<phase, heapVars, greySlot, greyInfo, greyObj, pool>> /\ GCStep

(* beginMark, after startGC's sleep: takes gcRootsetMtx. *)
BeginMark ==
    /\ gcpc = "sleep" /\ (SleepCovers => early = {})
    /\ gcpc' = "roots" /\ greySlot' = rootset
    /\ UNCHANGED <<phase, cms, heapVars, greyInfo, greyObj, pool, early, doomed>> /\ GCStep

(* mark_root / mark_v2(GCPtrBase): getObjectInfo (which heals), then the   *)
(* test and store of the inline state.                                     *)
VisitSlot(s) ==
    /\ gcpc \in {"roots", "mark", "drain"} /\ s \in greySlot
    /\ greySlot' = greySlot \ {s}
    /\ IF ims[s] = "DE_ALLOCATED" \/ ptr[s] = Null
       THEN UNCHANGED <<ims, greyInfo>>
       ELSE /\ greyInfo' = greyInfo \cup {<<s, ptr[s]>>}
            /\ ims' = IF needHeal(s) THEN [ims EXCEPT ![s] = "REMAPPED"] ELSE ims
    /\ UNCHANGED <<phase, cms, ptr, bit, rootset, satb, gcpc, greyObj, pool, early, doomed>>
    /\ GCStep
MarkSlot(s, o) ==
    /\ gcpc \in {"roots", "mark", "drain"} /\ <<s, o>> \in greyInfo
    /\ greyInfo' = greyInfo \ {<<s, o>>}
    /\ IF ims[s] = cms
       THEN UNCHANGED <<ims, greyObj>>
       ELSE ims' = [ims EXCEPT ![s] = cms] /\ greyObj' = greyObj \cup {o}
    /\ UNCHANGED <<phase, cms, ptr, bit, rootset, satb, gcpc, greySlot, pool, early, doomed>>
    /\ GCStep

(* mark_v2(ObjectInfo): the bitmap, then the fields of a newly marked object. *)
MarkObject(o) ==
    /\ gcpc \in {"mark", "drain"} /\ o \in greyObj
    /\ greyObj' = greyObj \ {o}
    /\ IF bit[o] = cms
       THEN UNCHANGED <<bit, greySlot>>
       ELSE bit' = [bit EXCEPT ![o] = cms] /\ greySlot' = greySlot \cup {o}
    /\ UNCHANGED <<phase, cms, ptr, ims, rootset, satb, gcpc, greyInfo, pool, early, doomed>>
    /\ GCStep

Visited == greySlot = {} /\ greyInfo = {}
EndRoots ==
    /\ gcpc = "roots" /\ Visited
    /\ gcpc' = "mark"
    /\ UNCHANGED <<phase, cms, heapVars, greySlot, greyInfo, greyObj, pool, early, doomed>>
    /\ GCStep

(* stop_the_world takes the STW lock exclusively; triggerSATBMark then     *)
(* enters the remark phase.                                                *)
StopTheWorld ==
    /\ gcpc = "mark" /\ Visited /\ greyObj = {} /\ \A m \in Mutator : ~InCritical(m)
    /\ phase' = "REMARK" /\ gcpc' = "remark" /\ pool' = 1
    /\ UNCHANGED <<cms, heapVars, greySlot, greyInfo, greyObj, early, doomed>> /\ GCStep

(* triggerSATBMark: the non-empty queues one after the other; what is      *)
(* visited are the entries present when the iteration starts, and clear()  *)
(* drops the others too.                                                   *)
NonEmpty == {i \in pool..PoolCount : satb[i] # {}}
DrainPool ==
    /\ gcpc = "remark"
    /\ \E i \in NonEmpty :
           /\ \A j \in NonEmpty : i <= j
           /\ pool' = i /\ gcpc' = "drain" /\ greyObj' = satb[i]
    /\ UNCHANGED <<phase, cms, heapVars, greySlot, greyInfo, early, doomed>> /\ GCStep
ClearPool ==
    /\ gcpc = "drain" /\ Visited /\ greyObj = {}
    /\ satb' = [satb EXCEPT ![pool] = {}]
    /\ gcpc' = "remark" /\ pool' = pool + 1
    /\ UNCHANGED <<phase, cms, ptr, ims, bit, rootset, greySlot, greyInfo, greyObj,
                   early, doomed>> /\ GCStep

selectRelocationSet ==
    /\ gcpc = "remark" /\ NonEmpty = {}
    /\ phase' = "SWEEP" /\ gcpc' = "selected" /\ pool' = 0
    /\ UNCHANGED <<cms, heapVars, greySlot, greyInfo, greyObj, early, doomed>> /\ GCStep
ResumeTheWorld ==
    /\ gcpc = "selected"
    /\ gcpc' = "sweep"
    /\ UNCHANGED <<phase, cms, heapVars, greySlot, greyInfo, greyObj, pool, early, doomed>>
    /\ GCStep

(* An object the marking did not reach: its destructor runs (which retires *)
(* its field) and its bitmap entry is cleared.                             *)
Sweep_wrongTable(o) ==
    /\ gcpc = "sweep" /\ needSweep(o)
    /\ bit' = [bit EXCEPT ![o] = "DE_ALLOCATED"]
    /\ ptr' = [ptr EXCEPT ![o] = Null]
    /\ ims' = [ims EXCEPT ![o] = "DE_ALLOCATED"]
    /\ doomed' = doomed \ {o}
    /\ UNCHANGED <<gcVars, rootset, satb, early>> /\ GCStep
Sweep(o) ==
    /\ gcpc = "sweep" /\ needSweep(o)
    /\ bit' = [bit EXCEPT ![o] = "NOT_ALLOCATED"]
    /\ ptr' = [ptr EXCEPT ![o] = Null]
    /\ ims' = [ims EXCEPT ![o] = "DE_ALLOCATED"]
    /\ doomed' = doomed \ {o}
    /\ UNCHANGED <<gcVars, rootset, satb, early>> /\ GCStep
endGC_early ==
    /\ gcpc = "sweep"
    /\ phase' = "NONE" /\ gcpc' = "idle"
    /\ UNCHANGED <<cms, heapVars, greySlot, greyInfo, greyObj, pool, early, doomed>> /\ GCStep
endGC ==
    /\ gcpc = "sweep" /\ \A o \in Obj : ~needSweep(o)
    /\ phase' = "NONE" /\ gcpc' = "idle"
    /\ UNCHANGED <<cms, heapVars, greySlot, greyInfo, greyObj, pool, early, doomed>> /\ GCStep

-----------------------------------------------------------------------------
Init ==
    /\ phase = "NONE" /\ cms = "REMAPPED"
    /\ ptr = [s \in Slot |-> Null] /\ ims = [s \in Slot |-> "DE_ALLOCATED"]
    /\ bit = [o \in Obj |-> "NOT_ALLOCATED"]
    /\ rootset = {} /\ satb = [i \in 1..PoolCount |-> {}]
    /\ gcpc = "idle" /\ greySlot = {} /\ greyInfo = {} /\ greyObj = {} /\ pool = 0
    /\ op = [m \in Mutator |-> NoOp] /\ fresh = [m \in Mutator |-> Null]
    /\ early = {} /\ doomed = {}

StartOp(m) ==
    \/ StartAssign(m) \/ StartNull(m) \/ StartRead(m)
    \/ StartDestroy(m) \/ StartCopy(m) \/ StartMake(m)
MutatorStep(m) ==
    \/ StartHeal(m) \/ Read(m) \/ addSATB(m) \/ SetInline(m) \/ Write(m) \/ Clear(m)
    \/ addRoot(m) \/ removeRoot(m) \/ Allocate(m) \/ BuildFields(m) \/ Set(m)
GCThread ==
    \/ SwitchPhase \/ SwitchMarkState \/ BeginMark \/ EndRoots
    \/ (\E s \in Slot : VisitSlot(s))
    \/ (\E s \in Slot, o \in Obj : MarkSlot(s, o))
    \/ (\E o \in Obj : MarkObject(o))
    \/ StopTheWorld \/ DrainPool \/ ClearPool
    \/ selectRelocationSet \/ ResumeTheWorld
    \/ (\E o \in Obj : Sweep(o)) \/ endGC

Next == GCThread \/ \E m \in Mutator : StartOp(m) \/ MutatorStep(m)
Spec == Init /\ [][Next]_vars

-----------------------------------------------------------------------------
(* Every variable keeps to the range of the field or local it stands for. *)
TypeOK ==
    /\ phase \in Phase /\ cms \in MarkState \ {"DE_ALLOCATED"}
    /\ ptr \in [Slot -> Obj \cup {Null}] /\ ims \in [Slot -> MarkState]
    /\ bit \in [Obj -> MarkStateBit] /\ rootset \subseteq Root
    /\ satb \in [1..PoolCount -> SUBSET Obj]
    /\ gcpc \in {"idle", "switching", "sleep", "roots", "mark", "remark", "drain",
                 "selected", "sweep"}
    /\ greySlot \subseteq Slot /\ greyInfo \subseteq Slot \X Obj /\ greyObj \subseteq Obj
    /\ pool \in 0..(PoolCount + 1)
    /\ op \in [Mutator -> [kind : Ops \cup {"none"}, pc : Step, dst : Slot \cup {Null},
                          src : Slot \cup {Null}, via : SUBSET Root,
                          heal : MarkState \cup {"none"}]]
    /\ fresh \in [Mutator -> Obj \cup {Null}]
    /\ early \subseteq Mutator /\ doomed \subseteq Obj

(* A GCPtr that operator= has stamped with its new inline state and not    *)
(* given its new object yet; what it still refers to is about to be lost.  *)
Overwriting(s) ==
    \E m \in Mutator : op[m].kind = "assign" /\ op[m].dst = s /\ At(m, "write")
Live == ReachableFrom(Root, {s \in Slot : ~Overwriting(s)})

(* No GCPtr the program can reach refers to an object that was swept: the  *)
(* promise of a garbage collector.                                         *)
NoDangling == \A o \in Live : bit[o] # "NOT_ALLOCATED"

(* When the remark ends, with the world still stopped, marking is complete:*)
(* whatever the program can reach carries the mark of this cycle, wherever *)
(* the operations of the user threads were interrupted.                    *)
MarkingComplete == gcpc = "selected" => \A o \in Live : bit[o] = cms

(* At the same moment every reachable non-null GCPtr carries the current   *)
(* mark state.  Any object's region may now be evacuated, and only a GCPtr *)
(* in that state will ask the forwarding table (needSelfHeal).             *)
HealableAtSelection ==
    gcpc = "selected" =>
        \A s \in rootset \cup Live : ptr[s] # Null => ims[s] = cms \/ Overwriting(s)

(* When a cycle ends, everything that was already garbage when it began is *)
(* reclaimed: marking through SATB entries and through the GCPtrs of new   *)
(* objects keeps only what was reachable at the switch or made since.      *)
GarbageReclaimed == gcpc = "idle" => doomed = {}

(* M0 and M1 are reused every second cycle: when a cycle takes its mark    *)
(* state, no object and no GCPtr in use already carries it.                *)
FreshColour ==
    [][gcpc = "switching" /\ gcpc' = "sleep" =>
          /\ \A o \in Obj : bit[o] # cms'
          /\ \A s \in rootset \cup Live :
                 ptr[s] # Null => ims[s] # cms' \/ Overwriting(s)]_vars
=============================================================================
