--------------------------- MODULE GCMarkInvariant ---------------------------
(***************************************************************************)
(* The inductive invariant of GCMark: what must hold between any two steps *)
(* of the GC thread and the user threads for marking to be complete.       *)
(*                                                                         *)
(* Its centre is the set Safe.  While a cycle marks, an object is safe if  *)
(* it is marked, or owed a visit, or in a SATB queue, or led to from such  *)
(* an object or a root by GCPtrs the marking will still follow: those that *)
(* do not carry the cycle's mark state yet.  SafeInv says that a GCPtr     *)
(* which does carry it, and which the marking will therefore skip, refers  *)
(* to a safe object already.  A user step may break a chain of such GCPtrs *)
(* only where the barrier has queued what lay behind it; the GC thread     *)
(* only turns what is owed into what is marked; and when nothing is owed   *)
(* any more, Safe is the set of the marked objects.  The other parts say   *)
(* what each thread has already done for the operation it is in.           *)
(***************************************************************************)
EXTENDS GCMark

(* What marking relies on, besides its own code.  Without the first two a  *)
(* cycle can begin in the middle of an operation that will not push what   *)
(* it overwrites; p = q between two GCPtrs to the same object pushes       *)
(* nothing and restamps p; and with the user threads running during the    *)
(* remark, neither operator= pushes at all.                                *)
Covered ==
    /\ SleepCovers /\ SwitchCovers /\ ~AliasAssign
    /\ suspendThreadsWhenSTW \/ Ops \cap {"assign", "null"} = {}

-----------------------------------------------------------------------------
OpRecord == [kind : Ops \cup {"none"}, pc : Step, dst : Slot \cup {Null},
             src : Slot \cup {Null}, via : SUBSET Root, heal : MarkState \cup {"none"}]

(* The operands each kind of operation works on while it is under way, and *)
(* the kinds of operation that take each step.                             *)
Coherent(r) ==
    /\ r.kind \in {"assign", "null"} => r.dst \in Slot
    /\ r.kind \in {"assign", "copy", "convert", "read"} => r.src \in Slot
    /\ r.kind \in {"destroy", "copy", "convert", "make", "build"} => r.dst \in Root
    /\ r.pc = "push" => r.kind \in {"assign", "null", "destroy"}
    /\ r.pc = "inline" => r.kind = "assign"
    /\ r.pc = "write" => r.kind \in {"assign", "copy", "convert"}
    /\ r.pc = "clear" => r.kind = "null"
    /\ r.pc = "remove" => r.kind = "destroy"
    /\ r.pc = "addRoot" => r.kind \in {"copy", "convert", "make", "build"}
    /\ r.pc \in {"allocate", "fields", "set"} => r.kind \in {"make", "build"}
    /\ r.pc = "read" => r.kind = "read"
Operands == \A m \in Mutator : Coherent(op[m])
TypeInv == TypeOK /\ Operands

(* While SATB queues remain to be drained, pool is the index of a queue. *)
DrainIndex ==
    /\ gcpc = "remark" => pool \in 1..(PoolCount + 1)
    /\ gcpc = "drain" => pool \in 1..PoolCount

-----------------------------------------------------------------------------
(* The cycle carries its new mark state and has not resumed the world;     *)
(* the roots have been handed to it; operator= pushes what it overwrites.  *)
Marking == gcpc \in {"sleep", "roots", "mark", "remark", "drain", "selected"}
Visiting == gcpc \in {"roots", "mark", "remark", "drain", "selected"}
Barred == gcpc \in {"switching", "sleep", "roots", "mark"}

Nil(s) == ptr[s] = Null
Alloc == {o \in Obj : bit[o] # "NOT_ALLOCATED"}
Marked == {o \in Obj : bit[o] = cms}
Pushed == UNION {satb[i] : i \in 1..PoolCount}
other == switchState[cms]
(* The objects that stay: once the marking is over, those it reached. *)
Kept == IF gcpc = "sweep" THEN Marked ELSE Alloc
Copies == {"copy", "convert"}
Makes == {"make", "build"}

(* The GCPtrs an operation begun in the old cycle is about to overwrite.   *)
Going == {op[m].dst : m \in {k \in early : op[k].pc \in {"clear", "remove", "write"}}}
(* The GCPtrs the marking may still have to follow, and the objects it is  *)
(* certain to mark: the least set that has those marked, queued, or owed,  *)
(* and that those GCPtrs do not lead out of.                               *)
White == {s \in Slot : ims[s] # cms} \ Going
Base == Marked \cup greyObj \cup Pushed \cup Targets(Root \cap White)
Keeps(C) == Base \subseteq C /\ Targets(C \cap White) \subseteq C
Safe == {o \in Obj : \A C \in SUBSET Obj : Keeps(C) => o \in C}

-----------------------------------------------------------------------------
(* The phase, the visits owed and the SATB queues at each step of the GC   *)
(* thread; while it holds the STW lock no thread is building an object.    *)
PhaseInv ==
    /\ gcpc = "idle" <=> phase = "NONE"
    /\ Barred <=> phase = "CONCURRENT_MARK"
    /\ gcpc \in {"remark", "drain"} <=> phase = "REMARK"
    /\ Marking \/ gcpc = "sweep" => cms \in {M0, M1}
    /\ gcpc \notin {"roots", "mark", "drain"} =>
           greySlot = {} /\ greyInfo = {} /\ greyObj = {}
    /\ gcpc # "sleep" => early = {}
    /\ gcpc \in {"remark", "drain"} => \A i \in 1..PoolCount : i < pool => satb[i] = {}
    /\ gcpc = "drain" => satb[pool] \subseteq greyObj \cup Marked
    /\ gcpc = "selected" => Pushed = {}
    /\ StwHeld => \A m \in Mutator : ~At(m, "fields") /\ ~At(m, "set")

(* No thread works on a GCPtr another one writes. *)
Disjoint ==
    \A m, k \in Mutator :
        m # k /\ op[m].dst # Null => op[m].dst \notin {op[k].dst, op[k].src} \cup op[k].via
(* The operands of an operation stay reachable while it runs: a field is   *)
(* held by the root it was named through.                                  *)
Owns(m) ==
    /\ At(m, "idle") => op[m] = NoOp
    /\ op[m].via \subseteq rootset
    /\ op[m].src \in Root => op[m].src \in rootset
    /\ op[m].src \in Obj => \E r \in op[m].via : ptr[r] = op[m].src
    /\ op[m].dst \in Obj => \E r \in op[m].via : ptr[r] = op[m].dst
    /\ op[m].dst # Null => op[m].dst # op[m].src
    /\ op[m].kind \in {"assign", "null", "destroy"} /\ op[m].dst \in Root =>
           op[m].dst \in rootset
    /\ op[m].heal # "none" =>
           /\ Operand(m) # Null /\ ~Nil(Operand(m))
           /\ op[m].pc \in {"push", "write", "fields", "read"}
(* A GCPtr under construction is null until its object is written, and is  *)
(* registered when the code says so.                                       *)
Builds(m) ==
    /\ op[m].kind \in Copies \cup Makes =>
           ims[op[m].dst] # "DE_ALLOCATED" /\ op[m].dst \notin op[m].via
    /\ op[m].kind \in Copies =>
           op[m].dst \notin rootset /\ (At(m, "write") => Nil(op[m].dst))
    /\ op[m].kind \in Makes =>
           Nil(op[m].dst) /\ (op[m].dst \in rootset <=> ~At(m, "addRoot"))
(* Nothing else knows the object a thread is building. *)
New(m) ==
    /\ fresh[m] # Null <=> op[m].pc \in {"fields", "set"}
    /\ fresh[m] # Null =>
        /\ fresh[m] \in Kept
        /\ \A k \in Mutator \ {m} : fresh[k] # fresh[m]
        /\ \A s \in Root \cup Kept : ptr[s] # fresh[m]
        /\ fresh[m] \notin Pushed \cup greyObj \cup greySlot
        /\ \A e \in greyInfo : fresh[m] # e[1] /\ fresh[m] # e[2]
    /\ At(m, "fields") => Nil(fresh[m])
    /\ At(m, "set") =>
           Nil(fresh[m]) \/ (op[m].src # Null /\ ptr[fresh[m]] = ptr[op[m].src])
(* Only a registered root refers to an object, or one about to be.         *)
RootInv ==
    /\ \A r \in Root : ims[r] = "DE_ALLOCATED" => Nil(r)
    /\ \A r \in rootset : ims[r] # "DE_ALLOCATED"
    /\ \A r \in Root : ~Nil(r) =>
           \/ r \in rootset
           \/ \E m \in Mutator : op[m].kind \in Copies /\ At(m, "addRoot") /\ op[m].dst = r
(* Roots and objects that stay refer to objects that stay. *)
HeapInv ==
    /\ \A o \in Obj \ Alloc : Nil(o)
    /\ \A o \in Alloc :
           (\A m \in Mutator : At(m, "fields") => fresh[m] # o) => ims[o] # "DE_ALLOCATED"
    /\ \A s \in Root \cup Kept : Nil(s) \/ ptr[s] \in Kept
    /\ Pushed \cup greyObj \subseteq Kept
    /\ greySlot \cap Obj \subseteq Alloc
    /\ \A e \in greyInfo : e[2] \in Alloc /\ e[1] \in Root \cup Alloc
(* Between two markings nothing in use carries the mark state the next     *)
(* cycle will take, nor is anything about to.                              *)
ColourInv == ~Marking =>
    /\ gcpc # "sweep" => \A o \in Obj : bit[o] # other
    /\ \A s \in Root \cup Kept : Nil(s) \/ ims[s] # other \/ Overwriting(s)
Coloured(m) == ~Marking =>
    /\ At(m, "write") => Nil(op[m].src) \/ ims[op[m].dst] # other
    /\ op[m].kind \in Makes => ims[op[m].dst] # other

-----------------------------------------------------------------------------
(* What an operation is about to overwrite has been pushed. *)
Barriered(m) ==
    /\ Barred /\ At(m, "inline") => Nil(op[m].dst) \/ ptr[op[m].dst] \in Pushed
    /\ Barred /\ Marking /\ m \notin early /\ op[m].pc \in {"clear", "remove"}
           => Nil(op[m].dst) \/ ptr[op[m].dst] \in Pushed
(* What an operation of this cycle writes carries the cycle's mark state,  *)
(* and a heal under way did not read that state.                           *)
Stamped(m) == Marking /\ m \notin early =>
    /\ op[m].kind = "assign" /\ At(m, "write") => ims[op[m].dst] = cms
    /\ op[m].kind \in Copies /\ At(m, "write") => Nil(op[m].src) \/ ims[op[m].dst] = cms
    /\ op[m].kind \in Copies /\ At(m, "addRoot") => Nil(op[m].dst) \/ ims[op[m].dst] = cms
    /\ op[m].kind \in Makes => ims[op[m].dst] = cms
    /\ fresh[m] # Null => fresh[m] \in Marked
    /\ gcpc # "selected" => op[m].heal # cms
(* An operation begun before the switch: it writes no marked object, and   *)
(* does not leave the new mark state on a GCPtr to an unsafe one.          *)
Early(m) == m \in early =>
    /\ ~At(m, "idle")
    /\ op[m].dst \notin Marked
    /\ op[m].heal = cms => ims[Operand(m)] # cms
    /\ At(m, "write") /\ ims[op[m].dst] = cms => Nil(op[m].src) \/ ptr[op[m].src] \in Safe
    /\ op[m].kind \in Makes => ims[op[m].dst] # cms

(* A GCPtr the marking will skip refers to a safe object. *)
SafeInv == Marking => \A s \in Slot \ Going : ims[s] = cms => Nil(s) \/ ptr[s] \in Safe
(* A root, or the field of a marked object, has been stamped or is owed a  *)
(* visit; and a visit owed to an unstamped GCPtr knows what it refers to.  *)
PendingInv == Marking =>
    /\ \A s \in Slot : s \in Marked \/ (Visiting /\ s \in Root) =>
           Nil(s) \/ ims[s] = cms \/ s \in greySlot \/ <<s, ptr[s]>> \in greyInfo
    /\ \A e \in greyInfo : ims[e[1]] = cms \/ ptr[e[1]] \in {e[2], Null}
    /\ gcpc # "roots" => greySlot \cap Root = {} /\ \A e \in greyInfo : e[1] \notin Root
(* Nothing but doomed objects leads to a doomed object. *)
DoomedInv ==
    /\ ~Marking /\ gcpc # "sweep" => doomed = {}
    /\ doomed \subseteq Alloc \ Marked
    /\ \A m \in Mutator : fresh[m] \notin doomed
    /\ doomed \cap (Pushed \cup greyObj \cup greySlot) = {}
    /\ \A e \in greyInfo : e[2] \notin doomed
    /\ \A s \in Slot \ doomed : ptr[s] \notin doomed

Thread(m) == Owns(m) /\ Builds(m) /\ New(m) /\ Coloured(m) /\ Barriered(m)
                /\ Stamped(m) /\ Early(m)
Threads == \A m \in Mutator : Thread(m)
(* The parts that do not tell where the GC thread is, and all of them. *)
Standing == Disjoint /\ Threads /\ RootInv /\ HeapInv /\ ColourInv /\ SafeInv /\ DoomedInv
MarkInv == TypeInv /\ DrainIndex /\ PhaseInv /\ PendingInv /\ Standing
=============================================================================
