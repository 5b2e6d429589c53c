---------------------------- MODULE GCMarkProofs ----------------------------
(***************************************************************************)
(* GCMark proved for any number of threads, roots, objects and SATB        *)
(* queues: its types first, then the inductive invariant MarkInv of        *)
(* GCMarkInvariant and the properties of marking and sweeping it implies.  *)
(*                                                                         *)
(* TypeOK is not inductive alone: a step that reads ptr[op[m].src] needs   *)
(* to know that its kind of operation has a source (Operands).  MarkInv    *)
(* needs the assumptions on timing and use that Covered names.             *)
(*                                                                         *)
(* The steps of the user threads are dealt with in two stages.  Effect(m)  *)
(* says once what any of them may do to the heap; the parts of MarkInv     *)
(* about other threads and about the heap are proved from it, and only     *)
(* what thread m owes to itself is proved for the start, the next step and *)
(* the end of an operation separately.                                     *)
(***************************************************************************)
EXTENDS GCMarkInvariant, TLAPS

(* One thread's operation record may change to any coherent record. *)
LEMMA SetOp ==
    ASSUME op \in [Mutator -> OpRecord], Operands, NEW m \in Mutator,
           NEW r \in OpRecord, Coherent(r), op' = [op EXCEPT ![m] = r]
    PROVE  op' \in [Mutator -> OpRecord] /\ Operands'
<1>1. op' \in [Mutator -> OpRecord] OBVIOUS
<1>2. ASSUME NEW k \in Mutator PROVE Coherent(op'[k])
    <2>1. CASE k = m BY <2>1
    <2>2. CASE k # m BY <2>2, op'[k] = op[k] DEF Operands
    <2>3. QED BY <2>1, <2>2
<1>3. Operands' BY <1>2 DEF Operands, Coherent
<1>4. QED BY <1>1, <1>3

LEMMA NoOpRecord == NoOp \in OpRecord /\ Coherent(NoOp)
BY DEF NoOp, OpRecord, Coherent, Step, MarkState

(* The slots an expression names are slots, reached through roots. *)
LEMMA NamedType == ASSUME TypeOK, NEW d \in Named
                   PROVE d[1] \in Slot /\ d[2] \in SUBSET Root
<1>1. PICK r \in rootset : d \in Path(r) BY DEF Named
<1>2. r \in Root BY <1>1 DEF TypeOK
<1>3. CASE d = <<r, {}>> BY <1>2, <1>3 DEF Slot
<1>4. CASE \E o \in {ptr[r]} \ {Null} : d = <<o, {r}>>
    <2>1. ptr[r] \in Obj \cup {Null} BY <1>2 DEF TypeOK, Slot
    <2>2. QED BY <1>2, <1>4, <2>1 DEF Slot
<1>5. QED BY <1>1, <1>3, <1>4 DEF Path

LEMMA InitType == Init => TypeInv /\ DrainIndex
<1> SUFFICES ASSUME Init PROVE TypeInv /\ DrainIndex OBVIOUS
<1>1. op \in [Mutator -> OpRecord] /\ Operands
    BY NoOpRecord DEF Init, Operands
<1>2. TypeOK
    BY <1>1, PoolAssumption
    DEF Init, TypeOK, Phase, MarkState, MarkStateBit, Slot, OpRecord
<1>3. DrainIndex BY DEF Init, DrainIndex
<1>4. QED BY <1>1, <1>2, <1>3 DEF TypeInv

-----------------------------------------------------------------------------
(* Every step of Begin, Goto and Return keeps the records coherent. *)
LEMMA BeginType ==
    ASSUME TypeInv, NEW m \in Mutator, NEW kind, NEW step \in Step,
           NEW dst \in Slot \cup {Null}, NEW src \in Slot \cup {Null},
           NEW via \in SUBSET Root, NEW heal \in MarkState \cup {"none"},
           Coherent([kind |-> kind, pc |-> step, dst |-> dst, src |-> src,
                     via |-> via, heal |-> heal]),
           Begin(m, kind, step, dst, src, via, heal)
    PROVE  op' \in [Mutator -> OpRecord] /\ Operands'
<1> DEFINE r == [kind |-> kind, pc |-> step, dst |-> dst, src |-> src,
                 via |-> via, heal |-> heal]
<1>1. r \in OpRecord BY DEF Begin, OpRecord
<1>2. op \in [Mutator -> OpRecord] /\ Operands BY DEF TypeInv, TypeOK, OpRecord
<1>3. op' = [op EXCEPT ![m] = r] BY DEF Begin
<1>4. Coherent(r) OBVIOUS
<1> HIDE DEF r
<1>5. QED BY <1>1, <1>2, <1>3, <1>4, SetOp

LEMMA GotoType ==
    ASSUME TypeInv, NEW m \in Mutator, NEW step \in Step, Goto(m, step),
           Coherent([op[m] EXCEPT !.pc = step, !.heal = "none"])
    PROVE  op' \in [Mutator -> OpRecord] /\ Operands'
<1> DEFINE r == [op[m] EXCEPT !.pc = step, !.heal = "none"]
<1>1. op \in [Mutator -> OpRecord] /\ Operands BY DEF TypeInv, TypeOK, OpRecord
<1>2. r \in OpRecord BY <1>1 DEF OpRecord
<1>3. op' = [op EXCEPT ![m] = r] BY DEF Goto
<1>4. Coherent(r) OBVIOUS
<1> HIDE DEF r
<1>5. QED BY <1>1, <1>2, <1>3, <1>4, SetOp

LEMMA ReturnType ==
    ASSUME TypeInv, NEW m \in Mutator, Return(m)
    PROVE  op' \in [Mutator -> OpRecord] /\ Operands'
<1>1. op \in [Mutator -> OpRecord] /\ Operands BY DEF TypeInv, TypeOK, OpRecord
<1>2. op' = [op EXCEPT ![m] = NoOp] BY DEF Return
<1>3. QED BY <1>1, <1>2, NoOpRecord, SetOp

(* What a heal leaves in a slot is a mark state. *)
LEMMA HealedType ==
    ASSUME TypeOK, NEW m \in Mutator
    PROVE  Healed(m) \in [Slot -> MarkState]
BY DEF TypeOK, Healed, MarkState

LEMMA MarkStates ==
    ASSUME TypeOK
    PROVE  /\ freshState \in MarkState /\ freshState \in MarkStateBit
           /\ \A s \in Slot : copiedState(s) \in MarkState
           /\ switchState[cms] \in {M0, M1} /\ switchState[cms] # "DE_ALLOCATED"
BY StateAssumption DEF TypeOK, freshState, copiedState, switchState, MarkState, MarkStateBit

-----------------------------------------------------------------------------
LEMMA StartType ==
    ASSUME TypeInv, NEW m \in Mutator, StartOp(m)
    PROVE  TypeInv'
<1> USE DEF TypeInv
<1>1. CASE StartAssign(m)
    <2>1. PICK d, s \in Named :
              /\ Begin(m, "assign",
                       IF Barrier(d[1]) /\ ptr[d[1]] # ptr[s[1]] THEN "push" ELSE "inline",
                       d[1], s[1], d[2] \cup s[2], "none")
              /\ UNCHANGED <<heapVars, fresh>>
        BY <1>1 DEF StartAssign
    <2> DEFINE step == IF Barrier(d[1]) /\ ptr[d[1]] # ptr[s[1]] THEN "push" ELSE "inline"
    <2>2. /\ d[1] \in Slot /\ s[1] \in Slot /\ d[2] \cup s[2] \in SUBSET Root
          /\ step \in {"push", "inline"}
        BY NamedType
    <2> HIDE DEF step
    <2>3. Coherent([kind |-> "assign", pc |-> step, dst |-> d[1], src |-> s[1],
                    via |-> d[2] \cup s[2], heal |-> "none"])
        BY <2>2 DEF Coherent
    <2>4. op' \in [Mutator -> OpRecord] /\ Operands'
        BY <2>1, <2>2, <2>3, BeginType DEF Step, step
    <2>5. QED BY <2>1, <2>4 DEF TypeOK, OpRecord, Begin, heapVars, gcVars
<1>2. CASE StartNull(m)
    <2>1. PICK d \in Named :
              /\ Begin(m, "null", IF Barrier(d[1]) THEN "push" ELSE "clear", d[1], Null,
                       d[2], "none")
              /\ UNCHANGED <<heapVars, fresh>>
        BY <1>2 DEF StartNull
    <2> DEFINE step == IF Barrier(d[1]) THEN "push" ELSE "clear"
    <2>2. d[1] \in Slot /\ d[2] \in SUBSET Root /\ step \in {"push", "clear"}
        BY NamedType
    <2> HIDE DEF step
    <2>3. Coherent([kind |-> "null", pc |-> step, dst |-> d[1], src |-> Null,
                    via |-> d[2], heal |-> "none"])
        BY <2>2 DEF Coherent
    <2>4. op' \in [Mutator -> OpRecord] /\ Operands'
        BY <2>1, <2>2, <2>3, BeginType DEF Step, step
    <2>5. QED BY <2>1, <2>4 DEF TypeOK, OpRecord, Begin, heapVars, gcVars
<1>3. CASE StartRead(m)
    <2>1. PICK s \in Named : /\ Begin(m, "read", "read", Null, s[1], s[2], ims[s[1]])
                             /\ UNCHANGED <<heapVars, fresh>>
        BY <1>3 DEF StartRead
    <2>2. s[1] \in Slot /\ s[2] \in SUBSET Root /\ ims[s[1]] \in MarkState
        BY NamedType DEF TypeOK
    <2>3. Coherent([kind |-> "read", pc |-> "read", dst |-> Null, src |-> s[1],
                    via |-> s[2], heal |-> ims[s[1]]])
        BY <2>2 DEF Coherent
    <2>4. op' \in [Mutator -> OpRecord] /\ Operands'
        BY <2>1, <2>2, <2>3, BeginType DEF Step
    <2>5. QED BY <2>1, <2>4 DEF TypeOK, OpRecord, Begin, heapVars, gcVars
<1>4. CASE StartDestroy(m)
    <2>1. PICK r \in rootset :
              /\ Begin(m, "destroy", IF Barrier(r) THEN "push" ELSE "remove", r, Null, {},
                       "none")
              /\ UNCHANGED <<heapVars, fresh>>
        BY <1>4 DEF StartDestroy
    <2> DEFINE step == IF Barrier(r) THEN "push" ELSE "remove"
    <2>2. r \in Root /\ r \in Slot /\ step \in {"push", "remove"} BY DEF TypeOK, Slot
    <2> HIDE DEF step
    <2>3. Coherent([kind |-> "destroy", pc |-> step, dst |-> r, src |-> Null,
                    via |-> {}, heal |-> "none"])
        BY <2>2 DEF Coherent
    <2>4. op' \in [Mutator -> OpRecord] /\ Operands'
        BY <2>1, <2>2, <2>3, BeginType DEF Step, step
    <2>5. QED BY <2>1, <2>4 DEF TypeOK, OpRecord, Begin, heapVars, gcVars
<1>5. CASE StartCopy(m)
    <2>1. PICK r \in Unbuilt, s \in Named, kind \in {"copy", "convert"} :
              /\ Begin(m, kind, "write", r, s[1], s[2], "none")
              /\ ims' = [ims EXCEPT ![r] = copiedState(s[1])]
              /\ UNCHANGED <<ptr, bit, rootset, satb, fresh>>
        BY <1>5 DEF StartCopy
    <2>2. r \in Root /\ r \in Slot /\ s[1] \in Slot /\ s[2] \in SUBSET Root
        BY NamedType DEF Unbuilt, Slot
    <2>3. Coherent([kind |-> kind, pc |-> "write", dst |-> r, src |-> s[1],
                    via |-> s[2], heal |-> "none"])
        BY <2>2 DEF Coherent
    <2>4. op' \in [Mutator -> OpRecord] /\ Operands'
        BY <2>1, <2>2, <2>3, BeginType DEF Step
    <2>5. copiedState(s[1]) \in MarkState BY <2>2, MarkStates
    <2>6. QED BY <2>1, <2>4, <2>5 DEF TypeOK, OpRecord, Begin, gcVars
<1>6. CASE StartMake(m)
    <2>1. PICK r \in Unbuilt :
              /\ \/ Begin(m, "make", "addRoot", r, Null, {}, "none")
                 \/ \E s \in Named : Begin(m, "build", "addRoot", r, s[1], s[2], "none")
              /\ ims' = [ims EXCEPT ![r] = freshState]
              /\ UNCHANGED <<ptr, bit, rootset, satb, fresh>>
        BY <1>6 DEF StartMake
    <2>2. r \in Root /\ r \in Slot BY DEF Unbuilt, Slot
    <2>3. op' \in [Mutator -> OpRecord] /\ Operands' /\ UNCHANGED <<early, gcVars, doomed>>
        <3>1. CASE Begin(m, "make", "addRoot", r, Null, {}, "none")
            <4>1. Coherent([kind |-> "make", pc |-> "addRoot", dst |-> r, src |-> Null,
                            via |-> {}, heal |-> "none"])
                BY <2>2 DEF Coherent
            <4>2. QED BY <2>2, <3>1, <4>1, BeginType DEF Step, Begin
        <3>2. ASSUME NEW s \in Named, Begin(m, "build", "addRoot", r, s[1], s[2], "none")
              PROVE  op' \in [Mutator -> OpRecord] /\ Operands'
                     /\ UNCHANGED <<early, gcVars, doomed>>
            <4>1. s[1] \in Slot /\ s[2] \in SUBSET Root BY NamedType
            <4>2. Coherent([kind |-> "build", pc |-> "addRoot", dst |-> r, src |-> s[1],
                            via |-> s[2], heal |-> "none"])
                BY <2>2 DEF Coherent
            <4>3. QED BY <2>2, <3>2, <4>1, <4>2, BeginType DEF Step, Begin
        <3>3. QED BY <2>1, <3>1, <3>2
    <2>4. QED BY <2>1, <2>3, MarkStates DEF TypeOK, OpRecord, gcVars
<1>7. QED BY <1>1, <1>2, <1>3, <1>4, <1>5, <1>6 DEF StartOp

LEMMA MutatorType ==
    ASSUME TypeInv, NEW m \in Mutator, MutatorStep(m)
    PROVE  TypeInv'
<1> USE DEF TypeInv
<1>a. op[m] \in OpRecord /\ Coherent(op[m]) BY DEF TypeOK, OpRecord, Operands
<1> DEFINE goto(step) == [op[m] EXCEPT !.pc = step, !.heal = "none"]
<1>1. CASE StartHeal(m)
    <2> DEFINE r == [op[m] EXCEPT !.heal = ims[Operand(m)]]
    <2>1. Operand(m) \in Slot
        BY <1>1, <1>a DEF StartHeal, Operand, Coherent, At, OpRecord, Slot
    <2>2. r \in OpRecord BY <1>a, <2>1 DEF OpRecord, TypeOK
    <2>3. Coherent(r) BY <1>a DEF Coherent, OpRecord
    <2>4. op' = [op EXCEPT ![m] = r] BY <1>1 DEF StartHeal
    <2>5. op \in [Mutator -> OpRecord] BY DEF TypeOK, OpRecord
    <2> HIDE DEF r
    <2>6. op' \in [Mutator -> OpRecord] /\ Operands' BY <2>2, <2>3, <2>4, <2>5, SetOp
    <2>7. QED BY <1>1, <2>6 DEF StartHeal, TypeOK, OpRecord, heapVars, gcVars
<1>2. CASE Read(m)
    <2>1. op' \in [Mutator -> OpRecord] /\ Operands' BY <1>2, ReturnType DEF Read
    <2>2. QED BY <1>2, <2>1, HealedType DEF Read, Return, TypeOK, OpRecord, gcVars
<1>3. CASE addSATB(m)
    <2> DEFINE step == CASE op[m].kind = "assign" -> "inline"
                         [] op[m].kind = "null" -> "clear"
                         [] OTHER -> "remove"
    <2>1. /\ op[m].kind \in {"assign", "null", "destroy"} /\ op[m].dst \in Slot
          BY <1>3, <1>a DEF addSATB, At, Coherent, Slot
    <2>2. \/ op[m].kind = "assign" /\ step = "inline"
          \/ op[m].kind = "null" /\ step = "clear"
          \/ op[m].kind = "destroy" /\ step = "remove"
        BY <2>1
    <2>3. Goto(m, step) BY <1>3 DEF addSATB
    <2> HIDE DEF step
    <2>4. Coherent(goto(step)) BY <1>a, <2>2 DEF Coherent, OpRecord
    <2>5. step \in Step BY <2>2 DEF Step
    <2>6. op' \in [Mutator -> OpRecord] /\ Operands' BY <2>3, <2>4, <2>5, GotoType
    <2>7. ptr[op[m].dst] \in Obj \cup {Null} BY <2>1 DEF TypeOK
    <2>8. satb' \in [1..PoolCount -> SUBSET Obj]
        BY <1>3, <2>7 DEF addSATB, TypeOK
    <2>9. QED BY <1>3, <2>3, <2>6, <2>8, HealedType DEF addSATB, Goto, TypeOK, OpRecord, gcVars
<1>4. CASE SetInline(m)
    <2>1. Coherent(goto("write")) BY <1>4, <1>a DEF SetInline, At, Coherent, OpRecord
    <2>2. op' \in [Mutator -> OpRecord] /\ Operands'
        BY <1>4, <2>1, GotoType DEF SetInline, Step
    <2>3. copiedState(op[m].src) \in MarkState
        BY <1>4, <1>a, MarkStates DEF SetInline, At, Coherent
    <2>4. QED BY <1>4, <2>2, <2>3 DEF SetInline, Goto, TypeOK, OpRecord, gcVars
<1>5. CASE Write(m)
    <2>1. /\ op[m].kind \in {"assign", "copy", "convert"} /\ op[m].src \in Slot
          BY <1>5, <1>a DEF Write, At, Coherent
    <2>2. op' \in [Mutator -> OpRecord] /\ Operands' /\ UNCHANGED <<gcVars, doomed>>
          /\ early' \subseteq Mutator
        <3>1. CASE op[m].kind = "assign"
            BY <1>5, <3>1, ReturnType DEF Write, Return, TypeOK
        <3>2. CASE op[m].kind # "assign"
            <4>1. Coherent(goto("addRoot")) BY <1>a, <2>1, <3>2 DEF Coherent, OpRecord
            <4>2. QED BY <1>5, <3>2, <4>1, GotoType DEF Write, Goto, TypeOK, Step
        <3>3. QED BY <3>1, <3>2
    <2>3. ptr' \in [Slot -> Obj \cup {Null}] BY <1>5, <2>1 DEF Write, TypeOK
    <2>4. ims' \in [Slot -> MarkState] BY <1>5, HealedType DEF Write
    <2>5. QED BY <1>5, <2>2, <2>3, <2>4 DEF Write, TypeOK, OpRecord, gcVars
<1>6. CASE Clear(m)
    <2>1. op' \in [Mutator -> OpRecord] /\ Operands' BY <1>6, ReturnType DEF Clear
    <2>2. QED BY <1>6, <2>1 DEF Clear, Return, TypeOK, OpRecord, gcVars
<1>7. CASE addRoot(m)
    <2>1. op[m].kind \in {"copy", "convert", "make", "build"} /\ op[m].dst \in Root
        BY <1>7, <1>a DEF addRoot, At, Coherent
    <2>2. op' \in [Mutator -> OpRecord] /\ Operands' /\ UNCHANGED <<gcVars, doomed>>
          /\ early' \subseteq Mutator
        <3>1. CASE op[m].kind \in {"make", "build"}
            <4>1. Coherent(goto("allocate")) BY <1>a, <3>1 DEF Coherent, OpRecord
            <4>2. QED BY <1>7, <3>1, <4>1, GotoType DEF addRoot, Goto, TypeOK, Step
        <3>2. CASE op[m].kind \notin {"make", "build"}
            BY <1>7, <3>2, ReturnType DEF addRoot, Return, TypeOK
        <3>3. QED BY <3>1, <3>2
    <2>3. rootset' \subseteq Root BY <1>7, <2>1 DEF addRoot, TypeOK
    <2>4. QED BY <1>7, <2>2, <2>3 DEF addRoot, TypeOK, OpRecord, gcVars
<1>8. CASE removeRoot(m)
    <2>1. op' \in [Mutator -> OpRecord] /\ Operands' BY <1>8, ReturnType DEF removeRoot
    <2>2. QED BY <1>8, <2>1 DEF removeRoot, Return, TypeOK, OpRecord, MarkState, gcVars
<1>9. CASE Allocate(m)
    <2>1. Coherent(goto("fields")) BY <1>9, <1>a DEF Allocate, At, Coherent, OpRecord
    <2>2. op' \in [Mutator -> OpRecord] /\ Operands'
        BY <1>9, <2>1, GotoType DEF Allocate, Step
    <2>3. PICK o \in Unused : /\ fresh' = [fresh EXCEPT ![m] = o]
                              /\ bit' = [bit EXCEPT ![o] = freshState]
        BY <1>9 DEF Allocate
    <2>4. o \in Obj BY DEF Unused
    <2>5. fresh' \in [Mutator -> Obj \cup {Null}] /\ bit' \in [Obj -> MarkStateBit]
        BY <2>3, <2>4, MarkStates DEF TypeOK
    <2>6. QED BY <1>9, <2>2, <2>5 DEF Allocate, Goto, TypeOK, OpRecord, gcVars
<1>10. CASE BuildFields(m)
    <2>1. Coherent(goto("set")) BY <1>10, <1>a DEF BuildFields, At, Coherent, OpRecord
    <2>2. op' \in [Mutator -> OpRecord] /\ Operands'
        BY <1>10, <2>1, GotoType DEF BuildFields, Step
    <2>3. ims' \in [Slot -> MarkState] /\ ptr' \in [Slot -> Obj \cup {Null}]
        <3>1. CASE op[m].src = Null BY <1>10, <3>1, MarkStates DEF BuildFields, TypeOK
        <3>2. CASE op[m].src # Null
            <4>1. op[m].src \in Slot BY <1>a, <3>2 DEF OpRecord
            <4>2. copiedState(op[m].src) \in MarkState BY <4>1, MarkStates
            <4>3. ptr[op[m].src] \in Obj \cup {Null} BY <4>1 DEF TypeOK
            <4>4. ptr' \in [Slot -> Obj \cup {Null}] BY <1>10, <3>2, <4>3 DEF BuildFields, TypeOK
            <4> DEFINE h == Healed(m)
            <4>5. ims' = [h EXCEPT ![fresh[m]] = copiedState(op[m].src)]
                BY <1>10, <3>2 DEF BuildFields
            <4>6. h \in [Slot -> MarkState] BY HealedType
            <4> HIDE DEF h
            <4>7. QED BY <4>2, <4>4, <4>5, <4>6
        <3>3. QED BY <3>1, <3>2
    <2>4. QED BY <1>10, <2>2, <2>3 DEF BuildFields, Goto, TypeOK, OpRecord, gcVars
<1>11. CASE Set(m)
    <2>1. op' \in [Mutator -> OpRecord] /\ Operands' BY <1>11, ReturnType DEF Set
    <2>2. QED BY <1>11, <2>1 DEF Set, Return, TypeOK, OpRecord, gcVars
<1>12. QED BY <1>1, <1>2, <1>3, <1>4, <1>5, <1>6, <1>7, <1>8, <1>9, <1>10, <1>11
           DEF MutatorStep

-----------------------------------------------------------------------------
LEMMA GCType ==
    ASSUME TypeInv, DrainIndex, GCThread
    PROVE  TypeInv' /\ DrainIndex'
<1>1. TypeOK /\ Operands BY DEF TypeInv
<1>2. UNCHANGED opVars
    BY DEF GCThread, GCStep, SwitchPhase, SwitchMarkState, BeginMark, EndRoots, VisitSlot,
           MarkSlot, MarkObject, StopTheWorld, DrainPool, ClearPool, selectRelocationSet,
           ResumeTheWorld, Sweep, endGC
<1>3. Operands' BY <1>1, <1>2 DEF opVars, Operands
<1> USE <1>1, <1>2 DEF TypeOK, opVars, heapVars, gcVars, Phase, MarkState, MarkStateBit
<1>4. TypeOK'
    <2>1. CASE SwitchPhase BY <2>1 DEF SwitchPhase
    <2>2. CASE SwitchMarkState
        <3>1. early' \subseteq Mutator /\ doomed' \subseteq Obj BY <2>2 DEF SwitchMarkState
        <3>2. QED BY <2>2, <3>1, MarkStates DEF SwitchMarkState
    <2>3. CASE BeginMark BY <2>3 DEF BeginMark, Slot
    <2>4. CASE EndRoots BY <2>4 DEF EndRoots
    <2>5. CASE \E s \in Slot : VisitSlot(s)
        <3>1. PICK s \in Slot : VisitSlot(s) BY <2>5
        <3>2. greyInfo' \subseteq Slot \X Obj BY <3>1 DEF VisitSlot
        <3>3. ims' \in [Slot -> MarkState] BY <3>1 DEF VisitSlot
        <3>4. QED BY <3>1, <3>2, <3>3 DEF VisitSlot
    <2>6. CASE \E s \in Slot, o \in Obj : MarkSlot(s, o)
        <3>1. PICK s \in Slot, o \in Obj : MarkSlot(s, o) BY <2>6
        <3>2. ims' \in [Slot -> MarkState] BY <3>1 DEF MarkSlot
        <3>3. QED BY <3>1, <3>2 DEF MarkSlot
    <2>7. CASE \E o \in Obj : MarkObject(o)
        <3>1. PICK o \in Obj : MarkObject(o) BY <2>7
        <3>2. bit' \in [Obj -> MarkStateBit] BY <3>1 DEF MarkObject
        <3>3. QED BY <3>1, <3>2 DEF MarkObject, Slot
    <2>8. CASE StopTheWorld BY <2>8, PoolAssumption DEF StopTheWorld
    <2>9. CASE DrainPool
        <3>1. PICK i \in NonEmpty : pool' = i /\ gcpc' = "drain" /\ greyObj' = satb[i]
            BY <2>9 DEF DrainPool
        <3>2. i \in 1..PoolCount BY <2>9, <3>1, PoolAssumption DEF NonEmpty, DrainIndex, DrainPool
        <3>3. QED BY <2>9, <3>1, <3>2, PoolAssumption DEF DrainPool
    <2>10. CASE ClearPool BY <2>10, PoolAssumption DEF ClearPool, DrainIndex
    <2>11. CASE selectRelocationSet BY <2>11, PoolAssumption DEF selectRelocationSet
    <2>12. CASE ResumeTheWorld BY <2>12 DEF ResumeTheWorld
    <2>13. CASE \E o \in Obj : Sweep(o) BY <2>13 DEF Sweep, Slot
    <2>14. CASE endGC BY <2>14 DEF endGC
    <2>15. QED BY <2>1, <2>2, <2>3, <2>4, <2>5, <2>6, <2>7, <2>8, <2>9, <2>10, <2>11, <2>12,
                  <2>13, <2>14 DEF GCThread
<1>5. DrainIndex'
    <2>1. CASE DrainPool
        <3>1. PICK i \in NonEmpty : pool' = i BY <2>1 DEF DrainPool
        <3>2. QED BY <2>1, <3>1, PoolAssumption DEF DrainPool, NonEmpty, DrainIndex
    <2>2. CASE StopTheWorld BY <2>2, PoolAssumption DEF StopTheWorld, DrainIndex
    <2>3. CASE ClearPool BY <2>3, PoolAssumption DEF ClearPool, DrainIndex
    <2>4. CASE (\E s \in Slot : VisitSlot(s)) \/ (\E s \in Slot, o \in Obj : MarkSlot(s, o))
               \/ (\E o \in Obj : MarkObject(o))
        BY <2>4 DEF VisitSlot, MarkSlot, MarkObject, DrainIndex
    <2>5. CASE (\E o \in Obj : Sweep(o)) \/ SwitchPhase \/ SwitchMarkState \/ BeginMark
               \/ EndRoots \/ selectRelocationSet \/ ResumeTheWorld \/ endGC
        BY <2>5 DEF Sweep, SwitchPhase, SwitchMarkState, BeginMark, EndRoots,
                    selectRelocationSet, ResumeTheWorld, endGC, DrainIndex
    <2>6. QED BY <2>1, <2>2, <2>3, <2>4, <2>5 DEF GCThread
<1>6. QED BY <1>3, <1>4, <1>5 DEF TypeInv

(* No user operation moves the GC thread. *)
LEMMA UserStepGC ==
    ASSUME NEW m \in Mutator, StartOp(m) \/ MutatorStep(m)
    PROVE  UNCHANGED gcVars
BY DEF StartOp, StartAssign, StartNull, StartRead, StartDestroy, StartCopy, StartMake,
       MutatorStep, StartHeal, Read, addSATB, SetInline, Write, Clear, addRoot, removeRoot,
       Allocate, BuildFields, Set, Begin, Goto, Return

LEMMA StutterType ==
    ASSUME TypeInv, DrainIndex, UNCHANGED vars
    PROVE  TypeInv' /\ DrainIndex'
<1>1. Operands' BY DEF TypeInv, Operands, vars, opVars
<1>2. TypeOK' BY DEF TypeInv, TypeOK, vars, opVars, gcVars, heapVars
<1>3. DrainIndex' BY DEF DrainIndex, vars, gcVars
<1>4. QED BY <1>1, <1>2, <1>3 DEF TypeInv

LEMMA NextType == TypeInv /\ DrainIndex /\ [Next]_vars => TypeInv' /\ DrainIndex'
<1> SUFFICES ASSUME TypeInv, DrainIndex, [Next]_vars PROVE TypeInv' /\ DrainIndex' OBVIOUS
<1>1. CASE GCThread BY <1>1, GCType
<1>2. ASSUME NEW m \in Mutator, StartOp(m) \/ MutatorStep(m)
      PROVE  TypeInv' /\ DrainIndex'
    <2>1. TypeInv' BY <1>2, StartType, MutatorType
    <2>2. DrainIndex' BY <1>2, UserStepGC DEF DrainIndex, gcVars
    <2>3. QED BY <2>1, <2>2
<1>3. CASE UNCHANGED vars BY <1>3, StutterType
<1>4. QED BY <1>1, <1>2, <1>3 DEF Next

(* In every reachable state every variable of GCMark keeps to its type:    *)
(* no step applies ptr, ims or satb outside their domain.                  *)
THEOREM MarkTypeCorrect == Spec => []TypeOK
<1>1. Init => TypeInv /\ DrainIndex BY InitType
<1>2. TypeInv /\ DrainIndex /\ [Next]_vars => TypeInv' /\ DrainIndex' BY NextType
<1>3. TypeInv => TypeOK BY DEF TypeInv
<1>4. QED BY <1>1, <1>2, <1>3, PTL DEF Spec

-----------------------------------------------------------------------------
(* Safe, and the objects that stay. *)
(* What TypeInv says, variable by variable.                                *)
LEMMA Types ==
    ASSUME TypeInv
    PROVE  /\ \A s \in Slot : ptr[s] \in Obj \cup {Null} /\ ims[s] \in MarkState
           /\ \A o \in Obj : bit[o] \in MarkStateBit
           /\ Pushed \in SUBSET Obj /\ Marked \in SUBSET Obj /\ Alloc \in SUBSET Obj
           /\ Null \notin Slot /\ Root \subseteq Slot /\ Obj \subseteq Slot
           /\ \A m \in Mutator : op[m] \in OpRecord /\ Coherent(op[m])
           /\ \A m \in Mutator : fresh[m] \in Obj \cup {Null}
BY NullAssumption DEF TypeInv, TypeOK, Operands, OpRecord, Pushed, Marked, Alloc, Slot

(* The base of Safe is in it, and the GCPtrs that count do not lead out of it. *)
LEMMA SafeKeeps ==
    ASSUME TypeInv
    PROVE  Safe \subseteq Obj /\ Keeps(Safe)
<1>1. Base \in SUBSET Obj
    BY Types DEF Base, Targets, White, TypeInv, TypeOK
<1>2. Base \subseteq Safe BY <1>1 DEF Safe, Keeps
<1>3. ASSUME NEW s \in Safe \cap White, ptr[s] # Null PROVE ptr[s] \in Safe
    <2>1. s \in Slot /\ ptr[s] \in Obj BY <1>3, Types DEF White
    <2>2. ASSUME NEW C \in SUBSET Obj, Keeps(C) PROVE ptr[s] \in C
        BY <1>3, <2>2 DEF Safe, Keeps, Targets
    <2>3. QED BY <2>1, <2>2 DEF Safe
<1>4. QED BY <1>2, <1>3 DEF Safe, Keeps, Targets

(* The two facts about Safe, as one formula that has a primed form.        *)
SafeClosed ==
    /\ Marked \cup greyObj \cup Pushed \subseteq Safe /\ Safe \subseteq Obj
    /\ \A s \in (Root \cup Safe) \cap White : Nil(s) \/ ptr[s] \in Safe
LEMMA SafeFacts == TypeInv => SafeClosed
<1>1. ASSUME TypeInv PROVE Base \subseteq Safe /\ Targets(Safe \cap White) \subseteq Safe
    BY <1>1, SafeKeeps DEF Keeps
<1>2. QED BY <1>1, SafeKeeps DEF Base, Targets, Nil, SafeClosed
LEMMA SafeFactsPrime == TypeInv' => SafeClosed'
BY SafeFacts, PTL

(* And it is the least such set.                                           *)
LEMMA SafeLeast ==
    ASSUME NEW C \in SUBSET Obj, Keeps(C)
    PROVE  Safe \subseteq C
BY DEF Safe

(* A GCPtr the marking may still have to follow keeps its target, or that  *)
(* target is safe by other means: then nothing safe is lost.               *)
LEMMA SafeGrows ==
    ASSUME TypeInv, TypeInv', Marked \cup greyObj \cup Pushed \subseteq Safe',
           \A s \in White : Nil(s) \/ ptr[s] \in Safe' \/ (s \in White' /\ ptr'[s] = ptr[s])
    PROVE  Safe \subseteq Safe'
<1>1. Safe' \in SUBSET Obj /\ SafeClosed' BY SafeFactsPrime DEF SafeClosed
<1>2. ASSUME NEW s \in (Root \cup Safe') \cap White, ptr[s] # Null PROVE ptr[s] \in Safe'
    <2>1. CASE ptr[s] \in Safe' BY <2>1
    <2>2. CASE s \in White' /\ ptr'[s] = ptr[s] BY <1>1, <1>2, <2>2 DEF SafeClosed, Nil
    <2>3. QED BY <1>2, <2>1, <2>2 DEF Nil
<1>3. Keeps(Safe')
    <2>1. Targets(Root \cap White) \subseteq Safe' BY <1>2 DEF Targets
    <2>2. Targets(Safe' \cap White) \subseteq Safe' BY <1>2 DEF Targets
    <2>3. QED BY <2>1, <2>2 DEF Keeps, Base
<1>4. QED BY <1>1, <1>3, SafeLeast

(* The marked objects stay, and what stays is allocated.                   *)
KeptRange ==
    /\ Marked \subseteq Kept /\ Kept \subseteq Alloc /\ Alloc \subseteq Obj
    /\ cms # "NOT_ALLOCATED" /\ cms # "DE_ALLOCATED"
LEMMA KeptFacts == TypeInv => KeptRange
BY StateAssumption DEF Marked, Kept, Alloc, TypeInv, TypeOK, MarkState, KeptRange
LEMMA KeptFactsPrime == TypeInv' => KeptRange'
BY KeptFacts, PTL

(* The slots an operation works on are roots or fields of objects that stay. *)
LEMMA OperandKept ==
    ASSUME MarkInv, NEW m \in Mutator
    PROVE  /\ op[m].src # Null => op[m].src \in Root \cup Kept
           /\ op[m].dst # Null => op[m].dst \in Root \cup Kept
           /\ op[m].src # Null /\ ~Nil(op[m].src) => ptr[op[m].src] \in Kept
           /\ op[m].dst # Null /\ ~Nil(op[m].dst) => ptr[op[m].dst] \in Kept
           /\ op[m].via \subseteq Root
           /\ \A k \in Mutator : fresh[k] # Null =>
                  fresh[k] # op[m].src /\ fresh[k] # op[m].dst /\ fresh[k] \notin op[m].via
<1>1. TypeInv /\ Owns(m) /\ HeapInv BY DEF MarkInv, Standing, Threads, Thread
<1>2. /\ op[m].src \in Slot \cup {Null} /\ op[m].dst \in Slot \cup {Null} /\ op[m].via \subseteq Root
    BY <1>1, Types DEF OpRecord
<1>3. ASSUME NEW s \in Obj, NEW r \in op[m].via, ptr[r] = s PROVE s \in Kept
    BY <1>1, <1>2, <1>3, NullAssumption DEF HeapInv, Nil
<1>4. /\ op[m].src # Null => op[m].src \in Root \cup Kept
      /\ op[m].dst # Null => op[m].dst \in Root \cup Kept
    BY <1>1, <1>2, <1>3 DEF Owns, Slot
<1>5. ASSUME NEW k \in Mutator, fresh[k] # Null
      PROVE  fresh[k] # op[m].src /\ fresh[k] # op[m].dst /\ fresh[k] \notin op[m].via
    <2>1. \A s \in Root \cup Kept : ptr[s] # fresh[k] BY <1>5 DEF MarkInv, Standing, Threads,
        Thread, New
    <2>2. fresh[k] \in Obj /\ fresh[k] \notin Root BY <1>1, <1>5, Types, SlotAssumption
    <2>3. QED BY <1>1, <1>2, <2>1, <2>2 DEF Owns
<1>6. QED BY <1>1, <1>2, <1>4, <1>5 DEF HeapInv

(* While the cycle marks, a slot that is a root or safe leads to safety.   *)
LEMMA FollowSafe ==
    ASSUME MarkInv, Marking, NEW s \in (Root \cup Safe) \ Going
    PROVE  Nil(s) \/ ptr[s] \in Safe
<1>1. SafeClosed /\ SafeInv /\ TypeInv BY SafeFacts DEF MarkInv, Standing
<1>2. s \in Slot BY <1>1, Types DEF SafeClosed
<1>3. QED BY <1>1, <1>2 DEF SafeClosed, SafeInv, White

(* So does the slot an operation reads.                                    *)
LEMMA SourceSafe ==
    ASSUME MarkInv, Marking, NEW m \in Mutator, op[m].src # Null,
           m \notin early \/ op[m].pc \notin {"clear", "remove", "write"}
    PROVE  Nil(op[m].src) \/ ptr[op[m].src] \in Safe
<1>1. TypeInv /\ Owns(m) /\ Disjoint BY DEF MarkInv, Standing, Threads, Thread
<1>2. op[m].src \in Slot /\ op[m].via \subseteq Root
      /\ op[m].src \notin Going /\ op[m].via \cap Going = {}
    <2>1. op[m].src \in Slot /\ op[m].via \subseteq Root BY <1>1, Types DEF OpRecord
    <2>2. ASSUME NEW k \in early, op[k].pc \in {"clear", "remove", "write"}
          PROVE  op[k].dst # op[m].src /\ op[k].dst \notin op[m].via
        <3>1. k \in Mutator /\ k # m BY <1>1, <2>2 DEF TypeInv, TypeOK
        <3>2. QED BY <1>1, <2>1, <3>1, Types DEF Disjoint
    <2>3. QED BY <2>1, <2>2 DEF Going
<1>3. op[m].src \in Root \cup Safe
    <2>1. CASE op[m].src \in Root BY <2>1
    <2>2. CASE op[m].src \in Obj
        <3>1. PICK r \in op[m].via : ptr[r] = op[m].src BY <1>1, <2>2 DEF Owns
        <3>2. r \in (Root \cup Safe) \ Going BY <1>2
        <3>3. QED BY <2>2, <3>1, <3>2, FollowSafe, NullAssumption DEF Nil
    <2>3. QED BY <1>2, <2>1, <2>2 DEF Slot
<1>4. QED BY <1>2, <1>3, FollowSafe

-----------------------------------------------------------------------------
(* What a step of a user thread does. *)
(* What a step of thread m does to the GCPtrs, whichever step it is. *)
PtrEffect(m) == \A s \in Slot :
    \/ ptr'[s] = ptr[s]
    \/ op[m].pc \in {"clear", "remove"} /\ s = op[m].dst /\ ptr'[s] = Null
    \/ At(m, "write") /\ s = op[m].dst /\ op[m].src \in Slot /\ ptr'[s] = ptr[op[m].src]
    \/ At(m, "set") /\ s = op[m].dst /\ ptr'[s] = fresh[m]
    \/ At(m, "fields") /\ s = fresh[m] /\ op[m].src # Null /\ ptr'[s] = ptr[op[m].src]
(* The writes that are certain, not only possible.                         *)
PtrWritten(m) ==
    /\ op[m].pc \in {"clear", "remove"} => ptr'[op[m].dst] = Null
    /\ At(m, "write") /\ op'[m].pc # "write" => ptr'[op[m].dst] = ptr[op[m].src]
(* What the step does to the inline mark states; which heal may do so with *)
(* the world stopped.                                                      *)
ImsEffect(m) == \A s \in Slot :
    \/ ims'[s] = ims[s]
    \/ At(m, "idle") /\ s = op'[m].dst /\ s \in Unbuilt
       /\ \/ op'[m].kind \in Copies /\ ims'[s] = copiedState(op'[m].src)
          \/ op'[m].kind \in Makes /\ ims'[s] = freshState
    \/ At(m, "inline") /\ s = op[m].dst /\ ims'[s] = copiedState(op[m].src)
    \/ At(m, "remove") /\ s = op[m].dst /\ ims'[s] = "DE_ALLOCATED"
    \/ At(m, "fields") /\ s = fresh[m] /\ ims'[s] = IF op[m].src = Null THEN freshState
                                                    ELSE copiedState(op[m].src)
    \/ op[m].heal # "none" /\ op[m].pc \in {"push", "write", "fields", "read"}
       /\ s = Operand(m) /\ ims[s] = op[m].heal /\ ims'[s] = "REMAPPED"
       /\ (StwHeld => phase = "REMARK" \/ At(m, "fields"))
(* What it does to the rest of the state.                                  *)
OtherEffect(m) ==
    /\ Running(m) /\ UNCHANGED <<gcVars, doomed>>
    /\ \A k \in Mutator \ {m} : op'[k] = op[k] /\ fresh'[k] = fresh[k]
    /\ PtrWritten(m)
    /\ early' = early \/ (early' = early \ {m} /\ op'[m] = NoOp)
    /\ rootset' = IF At(m, "addRoot") THEN rootset \cup {op[m].dst}
                  ELSE IF At(m, "remove") THEN rootset \ {op[m].dst} ELSE rootset
    /\ \/ satb' = satb /\ (At(m, "push") => op'[m].pc = "push")
       \/ At(m, "push") /\ op'[m].pc # "push" /\ (StwHeld => op[m].kind = "assign")
          /\ satb' = [satb EXCEPT ![PoolOf[m]] = @ \cup ({ptr[op[m].dst]} \ {Null})]
    /\ \/ ~At(m, "allocate") /\ bit' = bit /\ fresh' = IF At(m, "set") THEN [fresh EXCEPT ![m] = Null] ELSE fresh
       \/ At(m, "allocate") /\ ~StwHeld
          /\ \E o \in Unused : /\ bit' = [bit EXCEPT ![o] = freshState]
                               /\ fresh' = [fresh EXCEPT ![m] = o]
(* The steps of one operation, in order.                                   *)
Follows == {<<"push", "inline">>, <<"push", "clear">>, <<"push", "remove">>, <<"inline", "write">>,
            <<"write", "addRoot">>, <<"addRoot", "allocate">>, <<"allocate", "fields">>,
            <<"fields", "set">>}
(* The operation of thread m goes on to its next step, or reads what it    *)
(* will heal.                                                              *)
Continues(m) ==
    /\ op'[m].kind = op[m].kind /\ op'[m].dst = op[m].dst /\ op'[m].src = op[m].src
    /\ op'[m].via = op[m].via
    /\ \/ <<op[m].pc, op'[m].pc>> \in Follows /\ op'[m].heal = "none"
          /\ (At(m, "write") => op[m].kind \in Copies) /\ (At(m, "addRoot") => op[m].kind \in Makes)
          /\ (At(m, "fields") =>
                  ims' = [IF op[m].src = Null THEN ims ELSE Healed(m) EXCEPT ![fresh[m]] =
                             IF op[m].src = Null THEN freshState ELSE copiedState(op[m].src)])
          /\ (At(m, "inline") => ims' = [ims EXCEPT ![op[m].dst] = copiedState(op[m].src)])
       \/ op'[m].pc = op[m].pc /\ op[m].pc \in {"push", "write", "fields"} /\ ims' = ims
          /\ ptr' = ptr /\ satb' = satb
          /\ op'[m].heal = ims[Operand(m)] /\ needHeal(Operand(m)) /\ (At(m, "fields") => op[m].src # Null)
(* The operation of thread m returns.                                      *)
Ends(m) ==
    /\ op'[m] = NoOp /\ early' = early \ {m}
    /\ op[m].pc \in {"read", "write", "clear", "addRoot", "remove", "set"}
    /\ (At(m, "write") => op[m].kind \notin Copies) /\ (At(m, "addRoot") => op[m].kind \notin Makes)
(* A thread starts, ends or continues an operation.                        *)
OpEffect(m) == (At(m, "idle") /\ StartOp(m)) \/ Ends(m) \/ Continues(m)
(* Every step of a user thread has all these effects.                      *)
Effect(m) == PtrEffect(m) /\ ImsEffect(m) /\ OtherEffect(m) /\ OpEffect(m)

StartedOn(m, dst, src, via) ==
    /\ op'[m].dst = dst /\ op'[m].src = src /\ op'[m].via = via
    /\ Exclusive(m, {dst} \ {Null}, ({src} \ {Null}) \cup via)

(* A thread that starts an operation names slots that are in use.          *)
LEMMA StartEffect ==
    ASSUME TypeInv, NEW m \in Mutator, StartOp(m)
    PROVE  /\ At(m, "idle") /\ Effect(m)
           /\ UNCHANGED <<gcVars, doomed, early, ptr, bit, rootset, satb, fresh>>
           /\ StartedOn(m, op'[m].dst, op'[m].src, op'[m].via)
           /\ op'[m].kind \notin Copies \cup Makes => ims' = ims
           /\ op'[m].kind \in Copies \cup Makes => op'[m].dst \in Unbuilt
           /\ op'[m].src = Null \/ \E s \in Named : op'[m].src = s[1] /\ s[2] \subseteq op'[m].via
           /\ \/ op'[m].dst = Null
              \/ op'[m].dst \in Unbuilt /\ op'[m].kind \in Copies \cup Makes
              \/ \E d \in Named : op'[m].dst = d[1] /\ d[2] \subseteq op'[m].via
           /\ op'[m].via \subseteq rootset
<1>1. \A d \in Named : d[1] \in Slot /\ d[2] \subseteq rootset
    <2>1. ASSUME NEW d \in Named PROVE d[2] \subseteq rootset BY DEF Named, Path
    <2>2. QED BY <2>1, NamedType DEF TypeInv
<1>2. \A r \in rootset : <<r, {}>> \in Named BY DEF Named, Path
<1>t. op \in [Mutator -> OpRecord] /\ ims \in [Slot -> MarkState] /\ Null \notin Slot /\ Root \subseteq Slot
      /\ rootset \subseteq Root
    BY Types DEF TypeInv, TypeOK, OpRecord
<1> DEFINE Quiet == UNCHANGED <<gcVars, doomed, early, ptr, bit, rootset, satb, fresh>>
           On(kind, dst, src, via) ==
               /\ At(m, "idle") /\ Running(m) /\ Quiet
               /\ \A k \in Mutator \ {m} : op'[k] = op[k]
               /\ op'[m].kind = kind /\ StartedOn(m, dst, src, via)
<1>3. ASSUME NEW kind, NEW step, NEW dst, NEW src, NEW via, NEW heal,
             Begin(m, kind, step, dst, src, via, heal),
             UNCHANGED <<ptr, bit, rootset, satb, fresh>>
      PROVE  On(kind, dst, src, via)
    BY <1>3, <1>t DEF Begin, gcVars, StartedOn
<1>4. \/ \E d, s \in Named : On("assign", d[1], s[1], d[2] \cup s[2]) /\ ims' = ims
      \/ \E d \in Named : On("null", d[1], Null, d[2]) /\ ims' = ims
      \/ \E s \in Named : On("read", Null, s[1], s[2]) /\ ims' = ims
      \/ \E r \in rootset : On("destroy", r, Null, {}) /\ ims' = ims
      \/ \E r \in Unbuilt, s \in Named, kind \in Copies :
             On(kind, r, s[1], s[2]) /\ ims' = [ims EXCEPT ![r] = copiedState(s[1])]
      \/ \E r \in Unbuilt :
             /\ On("make", r, Null, {}) \/ \E s \in Named : On("build", r, s[1], s[2])
             /\ ims' = [ims EXCEPT ![r] = freshState]
    <2> HIDE DEF On
    <2>1. StartAssign(m) => \E d, s \in Named : On("assign", d[1], s[1], d[2] \cup s[2]) /\ ims' = ims
        BY <1>3 DEF StartAssign, heapVars
    <2>2. StartNull(m) => \E d \in Named : On("null", d[1], Null, d[2]) /\ ims' = ims
        BY <1>3 DEF StartNull, heapVars
    <2>3. StartRead(m) => \E s \in Named : On("read", Null, s[1], s[2]) /\ ims' = ims
        BY <1>3 DEF StartRead, heapVars
    <2>4. StartDestroy(m) => \E r \in rootset : On("destroy", r, Null, {}) /\ ims' = ims
        BY <1>3 DEF StartDestroy, heapVars
    <2>5. StartCopy(m) => \E r \in Unbuilt, s \in Named, kind \in Copies :
             On(kind, r, s[1], s[2]) /\ ims' = [ims EXCEPT ![r] = copiedState(s[1])]
        BY <1>3 DEF StartCopy, Copies
    <2>6. StartMake(m) => \E r \in Unbuilt :
             /\ On("make", r, Null, {}) \/ \E s \in Named : On("build", r, s[1], s[2])
             /\ ims' = [ims EXCEPT ![r] = freshState]
        BY <1>3 DEF StartMake
    <2>7. QED BY <2>1, <2>2, <2>3, <2>4, <2>5, <2>6 DEF StartOp
<1>5. At(m, "idle") /\ Running(m) /\ Quiet /\ \A k \in Mutator \ {m} : op'[k] = op[k]
    BY <1>4
<1>6. StartedOn(m, op'[m].dst, op'[m].src, op'[m].via) BY <1>4 DEF StartedOn
<1>7. /\ op'[m].src = Null \/ \E s \in Named : op'[m].src = s[1] /\ s[2] \subseteq op'[m].via
      /\ \/ op'[m].dst = Null
         \/ op'[m].dst \in Unbuilt /\ op'[m].kind \in Copies \cup Makes
         \/ \E d \in Named : op'[m].dst = d[1] /\ d[2] \subseteq op'[m].via
      /\ op'[m].via \subseteq rootset
    BY <1>1, <1>2, <1>4 DEF StartedOn, Copies, Makes
<1>8. /\ op'[m].kind \notin Copies \cup Makes => ims' = ims
      /\ op'[m].kind \in Copies \cup Makes => op'[m].dst \in Unbuilt
      /\ \/ ims' = ims
         \/ op'[m].kind \in Copies /\ ims' = [ims EXCEPT ![op'[m].dst] = copiedState(op'[m].src)]
         \/ op'[m].kind \in Makes /\ ims' = [ims EXCEPT ![op'[m].dst] = freshState]
    BY <1>4 DEF StartedOn, Copies, Makes
<1>9. ImsEffect(m)
    BY <1>5, <1>8, <1>t DEF ImsEffect, Copies, Makes
<1>10. Effect(m) BY <1>5, <1>9 DEF Effect, PtrEffect, PtrWritten, OtherEffect, OpEffect, At
<1>11. QED BY <1>5, <1>6, <1>7, <1>8, <1>10

(* The same for the later steps of an operation.                           *)
LEMMA MutatorEffect ==
    ASSUME TypeInv, NEW m \in Mutator, MutatorStep(m)
    PROVE  ~At(m, "idle") /\ Effect(m)
<1>t. /\ op \in [Mutator -> OpRecord] /\ ims \in [Slot -> MarkState] /\ Null \notin Slot
      /\ ptr \in [Slot -> Obj \cup {Null}] /\ op[m] \in OpRecord /\ Coherent(op[m])
    BY Types DEF TypeInv, TypeOK, OpRecord
<1>o. ASSUME StwOpen(m), op[m].heal # "none", StwHeld PROVE phase = "REMARK"
    BY <1>o DEF StwOpen
<1>h. \A s \in Slot :
         \/ Healed(m)[s] = ims[s]
         \/ op[m].heal # "none" /\ s = Operand(m) /\ ims[s] = op[m].heal /\ Healed(m)[s] = "REMAPPED"
    BY <1>t DEF Healed
<1>1. ~At(m, "idle")
    BY DEF MutatorStep, StartHeal, Read, addSATB, SetInline, Write, Clear, addRoot, removeRoot,
           Allocate, BuildFields, Set, At
<1>2. PtrEffect(m)
    BY <1>t DEF MutatorStep, StartHeal, Read, addSATB, SetInline, Write, Clear, addRoot, removeRoot,
           Allocate, BuildFields, Set, PtrEffect, At, heapVars, Coherent
<1>3. ImsEffect(m)
    <2>1. CASE BuildFields(m)
        <3> DEFINE h == Healed(m)
        <3>1. h \in [Slot -> MarkState] BY HealedType DEF TypeInv
        <3>2. op[m].src # Null => ims' = [h EXCEPT ![fresh[m]] = copiedState(op[m].src)]
            BY <2>1 DEF BuildFields
        <3>h. \A s \in Slot :
             \/ h[s] = ims[s]
             \/ op[m].heal # "none" /\ s = Operand(m) /\ ims[s] = op[m].heal /\ h[s] = "REMAPPED"
            BY <1>h
        <3> HIDE DEF h
        <3>3. QED BY <1>t, <3>1, <3>2, <3>h, <2>1 DEF BuildFields, ImsEffect, At
    <2>2. CASE ~BuildFields(m)
        BY <2>2, <1>t, <1>h, <1>o DEF MutatorStep, StartHeal, Read, addSATB, SetInline, Write,
            Clear, addRoot, removeRoot,
            Allocate, Set, ImsEffect, At, heapVars
    <2>3. QED BY <2>1, <2>2
<1>u. TypeOK BY DEF TypeInv
<1> DEFINE same == /\ op'[m].kind = op[m].kind /\ op'[m].dst = op[m].dst
                   /\ op'[m].src = op[m].src /\ op'[m].via = op[m].via
<1>g. ASSUME NEW step \in Step, Goto(m, step)
      PROVE  same /\ op'[m].pc = step /\ op'[m].heal = "none" /\ early' = early
             /\ UNCHANGED <<gcVars, doomed>> /\ Running(m)
    BY <1>g, <1>t DEF Goto, OpRecord
<1>r. ASSUME Return(m)
      PROVE  op'[m] = NoOp /\ early' = early \ {m} /\ UNCHANGED <<gcVars, doomed>> /\ Running(m)
    BY <1>r, <1>t DEF Return
<1>s. StartHeal(m) => /\ Continues(m) /\ At(m, op'[m].pc) /\ early' = early
                      /\ UNCHANGED <<gcVars, doomed>> /\ Running(m)
    BY <1>t DEF StartHeal, OpRecord, Continues, At, heapVars
<1> HIDE DEF same
<1>5. OpEffect(m)
    <2>1. Read(m) \/ Clear(m) \/ removeRoot(m) \/ Set(m) => Ends(m)
        BY <1>r DEF Read, Clear, removeRoot, Set, Ends, At
    <2>2. addSATB(m) => Continues(m)
        <3>1. ASSUME addSATB(m), NEW step \in {"inline", "clear", "remove"}, Goto(m, step) PROVE Continues(m)
            BY <3>1, <1>g DEF addSATB, At, Continues, Follows, Step, same
        <3>2. addSATB(m) => \E step \in {"inline", "clear", "remove"} : Goto(m, step)
            BY DEF addSATB
        <3>3. QED BY <3>1, <3>2
    <2>3. SetInline(m) => Continues(m)
        BY <1>g DEF SetInline, Continues, Follows, Step, same, At
    <2>4. Allocate(m) => Continues(m)
        BY <1>g DEF Allocate, Continues, Follows, Step, same, At
    <2>5. BuildFields(m) => Continues(m)
        BY <1>g DEF BuildFields, Continues, Follows, Step, same, At
    <2>6. Write(m) => Ends(m) \/ Continues(m)
        BY <1>g, <1>r, <1>t DEF Write, Continues, Ends, Follows, Step, same, At, Coherent, Copies
    <2>7. addRoot(m) => Ends(m) \/ Continues(m)
        BY <1>g, <1>r, <1>t DEF addRoot, Continues, Ends, Follows, Step, same, At, Coherent, Makes
    <2>8. QED BY <1>s, <2>1, <2>2, <2>3, <2>4, <2>5, <2>6, <2>7 DEF MutatorStep, OpEffect
<1>4. OtherEffect(m)
    <2>1. Running(m) /\ UNCHANGED <<gcVars, doomed>>
        BY DEF MutatorStep, StartHeal, Read, addSATB, SetInline, Write, Clear, addRoot, removeRoot,
           Allocate, BuildFields, Set, Goto, Return
    <2>a. \A k \in Mutator \ {m} : op'[k] = op[k]
        BY <1>t DEF MutatorStep, StartHeal, Read, addSATB, SetInline, Write, Clear, addRoot,
            removeRoot,
           Allocate, BuildFields, Set, Goto, Return
    <2>b. early' = early \/ (early' = early \ {m} /\ op'[m] = NoOp)
        BY <1>r DEF MutatorStep, StartHeal, Read, addSATB, SetInline, Write, Clear, addRoot,
            removeRoot,
           Allocate, BuildFields, Set, Goto
    <2>2. rootset' = IF At(m, "addRoot") THEN rootset \cup {op[m].dst}
                     ELSE IF At(m, "remove") THEN rootset \ {op[m].dst} ELSE rootset
        BY DEF MutatorStep, StartHeal, Read, addSATB, SetInline, Write, Clear, addRoot, removeRoot,
           Allocate, BuildFields, Set, At, heapVars
    <2>w. PtrWritten(m)
        <3>1. op[m].pc \in {"clear", "remove"} => op[m].dst \in Slot /\ ptr' = [ptr EXCEPT ![op[m].dst] = Null]
            BY <1>t DEF MutatorStep, StartHeal, Read, addSATB, SetInline, Write, Clear, addRoot,
                removeRoot,
               Allocate, BuildFields, Set, At, Coherent, Slot
        <3>2. At(m, "write") => \/ StartHeal(m)
                                \/ op[m].dst \in Slot /\ ptr' = [ptr EXCEPT ![op[m].dst] = ptr[op[m].src]]
            BY <1>t DEF MutatorStep, Read, addSATB, SetInline, Write, Clear, addRoot, removeRoot,
               Allocate, BuildFields, Set, At, Coherent, Slot
        <3>3. QED BY <1>s, <1>t, <3>1, <3>2 DEF PtrWritten, At
    <2>3. \/ satb' = satb /\ (At(m, "push") => op'[m].pc = "push")
          \/ At(m, "push") /\ op'[m].pc # "push" /\ (StwHeld => op[m].kind = "assign")
             /\ satb' = [satb EXCEPT ![PoolOf[m]] = @ \cup ({ptr[op[m].dst]} \ {Null})]
        <3>1. CASE addSATB(m)
            <4>1. ASSUME NEW step \in {"inline", "clear", "remove"}, Goto(m, step)
                  PROVE op'[m].pc # "push"
                BY <4>1, <1>g DEF Step
            <4>2. \E step \in {"inline", "clear", "remove"} : Goto(m, step)
                BY <3>1 DEF addSATB
            <4>3. StwHeld => op[m].kind = "assign"
                BY <3>1, <1>t DEF addSATB, StwOpen, TakesLock, At, Coherent
            <4>4. QED BY <3>1, <4>1, <4>2, <4>3 DEF addSATB
        <3>2. CASE StartHeal(m)
            BY <1>s, <3>2 DEF StartHeal, heapVars, At
        <3>3. CASE ~addSATB(m) /\ ~StartHeal(m)
            BY <3>3 DEF MutatorStep, Read, SetInline, Write, Clear, addRoot, removeRoot,
               Allocate, BuildFields, Set, heapVars, At
        <3>4. QED BY <3>1, <3>2, <3>3
    <2>4. \/ ~At(m, "allocate") /\ bit' = bit /\ fresh' = IF At(m, "set") THEN [fresh EXCEPT ![m] = Null] ELSE fresh
          \/ At(m, "allocate") /\ ~StwHeld
             /\ \E o \in Unused : /\ bit' = [bit EXCEPT ![o] = freshState]
                                  /\ fresh' = [fresh EXCEPT ![m] = o]
        BY DEF MutatorStep, StartHeal, Read, addSATB, SetInline, Write, Clear, addRoot, removeRoot,
           Allocate, BuildFields, Set, At, heapVars
    <2>5. QED BY <1>u, <2>1, <2>a, <2>b, <2>2, <2>w, <2>3, <2>4 DEF OtherEffect, TypeOK
<1>6. QED BY <1>1, <1>2, <1>3, <1>4, <1>5 DEF Effect

-----------------------------------------------------------------------------
(* What it leaves alone of the other threads. *)
(* What a step of one thread leaves alone of what another one works on. *)
LEMMA OthersKeep ==
    ASSUME MarkInv, NEW m \in Mutator, Effect(m), NEW k \in Mutator, k # m
    PROVE  /\ op'[k] = op[k] /\ fresh'[k] = fresh[k]
           /\ op[k].dst # Null => ptr'[op[k].dst] = ptr[op[k].dst] /\ ims'[op[k].dst] = ims[op[k].dst]
                                  /\ (op[k].dst \in rootset' <=> op[k].dst \in rootset)
           /\ op[k].src # Null => ptr'[op[k].src] = ptr[op[k].src]
                                  /\ (op[k].src \in rootset => op[k].src \in rootset')
           /\ \A r \in op[k].via : ptr'[r] = ptr[r] /\ (r \in rootset => r \in rootset')
           /\ fresh[k] # Null => ptr'[fresh[k]] = ptr[fresh[k]]
           /\ m \in early \/ k \in early => (k \in early' <=> k \in early)
<1>1. TypeInv /\ Disjoint /\ New(m) /\ New(k) /\ Owns(m) /\ Owns(k) /\ Builds(k)
    BY DEF MarkInv, Standing, Threads, Thread
<1>2. /\ op[k].src \in Slot \cup {Null} /\ op[k].dst \in Slot \cup {Null} /\ op[k].via \subseteq Root
      /\ op[m].src \in Slot \cup {Null} /\ op[m].dst \in Slot \cup {Null} /\ op[m].via \subseteq Root
      /\ Null \notin Slot /\ Root \subseteq Slot /\ Obj \subseteq Slot
      /\ fresh[k] \in Obj \cup {Null} /\ fresh[m] \in Obj \cup {Null}
      /\ Coherent(op[m]) /\ op[k] \in OpRecord
    BY <1>1, Types DEF OpRecord
<1>3. /\ op[m].dst # Null => op[m].dst \notin {op[k].dst, op[k].src} \cup op[k].via
      /\ op[k].dst # Null => op[k].dst \notin {op[m].dst, op[m].src} \cup op[m].via
    BY <1>1 DEF Disjoint
<1>4. /\ fresh[m] # Null => fresh[m] \notin {op[k].dst, op[k].src, fresh[k]} \cup op[k].via
      /\ fresh[k] # Null => fresh[k] \notin {op[m].dst, op[m].src}
    BY <1>1, OperandKept DEF New
<1>5. At(m, "fields") => fresh[m] # Null BY <1>1 DEF New, At
<1>6. /\ op[m].pc \in {"clear", "remove", "write", "set", "inline", "push", "addRoot"} => op[m].dst \in Slot
      /\ op[m].pc \in {"write", "read"} => op[m].src \in Slot
    BY <1>2, SlotAssumption DEF Coherent, Slot
<1>7. op'[k] = op[k] /\ fresh'[k] = fresh[k] /\ (m \in early \/ k \in early => (k \in early' <=> k \in early))
    BY DEF Effect, OtherEffect
<1>8. \A s \in {op[k].dst, op[k].src, fresh[k]} \cup op[k].via : s \in Slot => ptr'[s] = ptr[s]
    BY <1>2, <1>3, <1>4, <1>5, <1>6 DEF Effect, PtrEffect, At
<1>9. op[k].dst # Null => ims'[op[k].dst] = ims[op[k].dst]
    <2>1. op[k].dst # Null => op[k].dst \notin Unbuilt BY DEF Unbuilt, Writes
    <2>2. Operand(m) \in {op[m].dst, op[m].src} BY DEF Operand
    <2>3. QED BY <1>2, <1>3, <1>4, <1>5, <1>6, <2>1, <2>2 DEF Effect, ImsEffect, At
<1>10. \A r \in {op[k].dst, op[k].src} \cup op[k].via : r \in Slot =>
           (r \in rootset => r \in rootset')
    BY <1>2, <1>3, <1>6 DEF Effect, OtherEffect, At
<1>11. op[k].dst # Null => (op[k].dst \in rootset' <=> op[k].dst \in rootset)
    BY <1>2, <1>3, <1>6, <1>10 DEF Effect, OtherEffect, At
<1>12. QED BY <1>2, <1>7, <1>8, <1>9, <1>10, <1>11

(* User threads only add objects, marks and SATB entries; what they add is *)
(* the new object and what a barrier pushed.                               *)
LEMMA UserGrows ==
    ASSUME MarkInv, TypeInv', NEW m \in Mutator, Effect(m)
    PROVE  /\ Alloc \subseteq Alloc' /\ Marked \subseteq Marked' /\ Kept \subseteq Kept'
           /\ Pushed \subseteq Pushed'
           /\ ~At(m, "allocate") => Alloc' = Alloc /\ Marked' = Marked /\ Kept' = Kept
           /\ Kept' \subseteq Kept \cup ({fresh'[m]} \ {Null})
           /\ Marked' \subseteq Marked \cup ({fresh'[m]} \ {Null})
           /\ Alloc' \subseteq Alloc \cup ({fresh'[m]} \ {Null})
           /\ At(m, "allocate") => fresh'[m] \in Unused /\ fresh'[m] \in Kept'
                                   /\ bit'[fresh'[m]] = freshState
           /\ ~At(m, "push") => Pushed' = Pushed
           /\ Pushed' \subseteq Pushed \cup ({ptr[op[m].dst]} \ {Null})
           /\ At(m, "push") /\ op'[m].pc # "push" => Nil(op[m].dst) \/ ptr[op[m].dst] \in Pushed'
<1>1. TypeInv /\ PhaseInv BY DEF MarkInv, Standing
<1>2. /\ bit \in [Obj -> MarkStateBit] /\ fresh \in [Mutator -> Obj \cup {Null}]
      /\ satb \in [1..PoolCount -> SUBSET Obj] /\ cms # "NOT_ALLOCATED" /\ Null \notin Obj
      /\ freshState # "NOT_ALLOCATED"
    BY <1>1, NullAssumption, StateAssumption DEF TypeInv, TypeOK, freshState, MarkState
<1>3. UNCHANGED gcVars BY DEF Effect, OtherEffect
<1>4. /\ Pushed \subseteq Pushed' /\ (~At(m, "push") => Pushed' = Pushed)
      /\ Pushed' \subseteq Pushed \cup ({ptr[op[m].dst]} \ {Null})
      /\ At(m, "push") /\ op'[m].pc # "push" => Nil(op[m].dst) \/ ptr[op[m].dst] \in Pushed'
    <2>1. CASE satb' = satb /\ (At(m, "push") => op'[m].pc = "push") BY <2>1 DEF Pushed, At
    <2>2. CASE At(m, "push") /\ op'[m].pc # "push" /\ satb' = [satb EXCEPT ![PoolOf[m]] = @ \cup ({ptr[op[m].dst]} \ {Null})]
        <3>1. PoolOf[m] \in 1..PoolCount BY PoolAssumption
        <3>2. QED BY <1>2, <2>2, <3>1 DEF Pushed, Nil
    <2>3. QED BY <2>1, <2>2 DEF Effect, OtherEffect
<1>5. CASE At(m, "allocate")
    <2>1. PICK o \in Unused : bit' = [bit EXCEPT ![o] = freshState] /\ fresh' = [fresh EXCEPT ![m] = o]
        BY <1>5 DEF Effect, OtherEffect, At
    <2>2. o \in Obj /\ bit[o] = "NOT_ALLOCATED" /\ fresh'[m] = o BY <1>2, <2>1 DEF Unused
    <2>3. Alloc' = Alloc \cup {o} BY <1>2, <2>1, <2>2 DEF Alloc
    <2>4. Marked \subseteq Marked' /\ Marked' \subseteq Marked \cup {o}
        BY <1>2, <1>3, <2>1, <2>2 DEF Marked, gcVars
    <2>5. gcpc = "sweep" => o \in Marked'
        BY <1>1, <1>2, <1>3, <2>1, <2>2 DEF Marked, gcVars, freshState, duringGC, PhaseInv
    <2>6. QED BY <1>2, <1>3, <1>4, <1>5, <2>1, <2>2, <2>3, <2>4, <2>5 DEF Kept, gcVars
<1>6. CASE ~At(m, "allocate")
    BY <1>3, <1>4, <1>6 DEF Effect, OtherEffect, Alloc, Marked, Kept, gcVars
<1>7. QED BY <1>5, <1>6

(* Where a changed GCPtr now leads. *)
LEMMA NewTargets ==
    ASSUME MarkInv, NEW m \in Mutator, Effect(m), NEW s \in Slot, ptr'[s] # ptr[s]
    PROVE  /\ s \in Root \cup Kept
           /\ \/ ptr'[s] = Null
              \/ (\E t \in Root \cup Kept : ptr'[s] = ptr[t]) /\ ptr'[s] \in Kept
              \/ At(m, "set") /\ s = op[m].dst /\ ptr'[s] = fresh[m] /\ fresh[m] \in Kept
<1>1. TypeInv /\ New(m) /\ HeapInv BY DEF MarkInv, Standing, Threads, Thread
<1>2. /\ op[m].pc \in {"clear", "remove", "write", "set"} => op[m].dst # Null
      /\ At(m, "write") => op[m].src # Null
    BY <1>1, Types DEF Coherent, At, Slot
<1>3. At(m, "fields") \/ At(m, "set") => fresh[m] # Null /\ fresh[m] \in Kept BY <1>1 DEF New, At
<1>4. QED BY <1>2, <1>3, OperandKept DEF Effect, PtrEffect, At, Nil

(* A step of one thread leaves what another has established for its own    *)
(* operation: its operands, its new object, its barrier and mark states.   *)
LEMMA OthersOwn ==
    ASSUME MarkInv, TypeInv', NEW m \in Mutator, Effect(m), NEW k \in Mutator, k # m
    PROVE  Owns(k)' /\ Builds(k)'
<1>1. TypeInv /\ Owns(k) /\ Builds(k) BY DEF MarkInv, Standing, Threads, Thread
<1>2. /\ op[k].src \in Slot \cup {Null} /\ op[k].dst \in Slot \cup {Null} /\ op[k].via \subseteq Root
      /\ Null \notin Slot /\ Root \subseteq Slot /\ Obj \subseteq Slot
      /\ op[k].heal # "none" => Operand(k) \in {op[k].src, op[k].dst}
      /\ op[k].kind \in Copies \cup Makes => op[k].dst # Null
    BY <1>1, Types DEF OpRecord, Operand, Coherent, Copies, Makes, Slot
<1>3. Owns(k)'
    <2>2. op'[k].heal # "none" => ~Nil(Operand(k))'
        BY <1>1, <1>2, OthersKeep DEF Owns, Nil, Operand, At
    <2>3. op[k].src \in Root => op[k].src \in rootset' BY <1>1, <1>2, OthersKeep DEF Owns
    <2>4. op[k].via \subseteq rootset' BY <1>1, <1>2, OthersKeep DEF Owns
    <2>5. op[k].src \in Obj => \E r \in op[k].via : ptr'[r] = op[k].src BY <1>1, <1>2, OthersKeep
        DEF Owns
    <2>6. op[k].dst \in Obj => \E r \in op[k].via : ptr'[r] = op[k].dst BY <1>1, <1>2, OthersKeep
        DEF Owns
    <2>7. op[k].kind \in {"assign", "null", "destroy"} /\ op[k].dst \in Root => op[k].dst \in rootset'
        BY <1>1, <1>2, OthersKeep DEF Owns
    <2>8. op'[k] = op[k] BY OthersKeep
    <2>1. op'[k].heal # "none" => Operand(k)' # Null
        BY <1>1, <2>8 DEF Owns, Operand, At
    <2>9. QED BY <1>1, <2>1, <2>2, <2>3, <2>4, <2>5, <2>6, <2>7, <2>8 DEF Owns, At
<1>4. Builds(k)' BY <1>1, <1>2, OthersKeep DEF Builds, At, Nil
<1>5. QED BY <1>3, <1>4

LEMMA OthersNew ==
    ASSUME MarkInv, TypeInv', NEW m \in Mutator, Effect(m), NEW k \in Mutator, k # m
    PROVE  New(k)'
<1>1. /\ TypeInv /\ New(k) /\ New(m) /\ HeapInv /\ UNCHANGED gcVars /\ op'[k] = op[k] /\ fresh'[k] = fresh[k]
    BY DEF MarkInv, Standing, Threads, Thread, Effect, OtherEffect
<1>2. /\ fresh[k] \in Obj \cup {Null} /\ Null \notin Slot /\ Kept \subseteq Alloc /\ Alloc \subseteq Obj
      /\ Root \subseteq Slot /\ Obj \subseteq Slot
    BY <1>1, Types, KeptFacts DEF KeptRange
<1>3. ASSUME fresh[k] # Null
      PROVE  /\ fresh[k] \in Kept'
             /\ \A j \in Mutator \ {k} : fresh'[j] # fresh[k]
             /\ \A s \in Root \cup Kept' : ptr'[s] # fresh[k]
             /\ fresh[k] \notin Pushed'
    <2>1. fresh[k] \in Kept' BY <1>1, <1>3, UserGrows DEF New
    <2>2. fresh'[m] \in {fresh[m], Null} \cup Unused /\ (fresh'[m] \in Unused => fresh'[m] \notin Alloc)
        BY <1>1 DEF Effect, OtherEffect, Unused, Alloc, TypeInv, TypeOK
    <2>3. \A j \in Mutator \ {k} : fresh'[j] # fresh[k]
        <3>1. fresh'[m] # fresh[k] BY <1>1, <1>2, <1>3, <2>2, KeptFacts DEF KeptRange, New,
            Unused, Alloc
        <3>2. QED BY <1>1, <1>3, <3>1 DEF Effect, OtherEffect, New
    <2>4. ASSUME NEW s \in Root \cup Kept' PROVE ptr'[s] # fresh[k]
        <3>1. s \in Slot BY <1>2, KeptFactsPrime DEF KeptRange
        <3>2. CASE ptr'[s] # ptr[s] BY <1>1, <1>2, <1>3, <3>1, <3>2, NewTargets DEF New
        <3>3. CASE ptr'[s] = ptr[s] /\ s \in Root \cup Kept BY <1>1, <1>3, <3>3 DEF New
        <3>4. CASE ptr'[s] = ptr[s] /\ s \notin Root \cup Kept
            <4>1. s = fresh'[m] /\ s \in Unused BY <3>4, UserGrows
            <4>2. s \in Obj \ Alloc BY <4>1 DEF Unused, Alloc
            <4>3. QED BY <1>1, <1>3, <3>4, <4>2 DEF HeapInv, Nil
        <3>5. QED BY <3>2, <3>3, <3>4
    <2>5. fresh[k] \notin Pushed'
        <3>1. CASE ~At(m, "push") BY <1>1, <1>3, <3>1, UserGrows DEF New
        <3>2. CASE At(m, "push")
            <4>1. op[m].dst # Null BY <1>1, <3>2, Types DEF Coherent, At, Slot
            <4>2. op[m].dst \in Root \cup Kept BY <4>1, OperandKept
            <4>3. QED BY <1>1, <1>3, <4>2, UserGrows DEF New
        <3>3. QED BY <3>1, <3>2
    <2>6. QED BY <2>1, <2>3, <2>4, <2>5
<1>4. fresh[k] # Null => ptr'[fresh[k]] = ptr[fresh[k]] BY OthersKeep
<1>5. op[k].src # Null => ptr'[op[k].src] = ptr[op[k].src] BY OthersKeep
<1>6. QED BY <1>1, <1>3, <1>4, <1>5 DEF New, At, Nil, gcVars

-----------------------------------------------------------------------------
(* What it keeps safe. *)
(* With the world stopped, no thread overwrites a GCPtr: it is suspended,  *)
(* or the program has neither operator=.                                   *)
LEMMA StoppedOps ==
    ASSUME MarkInv, Covered, StwHeld, NEW m \in Mutator, Running(m)
    PROVE  op[m].kind \notin {"assign", "null"} /\ op[m].pc \notin {"inline", "clear"}
<1>1. op[m].kind \in Ops \cup {"none"} /\ Coherent(op[m]) BY Types DEF MarkInv, Standing, OpRecord
<1>2. Ops \cap {"assign", "null"} = {} BY DEF Covered, Running
<1>3. QED BY <1>1, <1>2 DEF Coherent

(* Nothing the marking was certain to reach is lost by a user operation.   *)
LEMMA UserSafe ==
    ASSUME MarkInv, Covered, TypeInv', NEW m \in Mutator, Effect(m), Marking
    PROVE  Safe \subseteq Safe'
<1>1. /\ TypeInv /\ PhaseInv /\ Thread(m) /\ RootInv /\ PendingInv /\ UNCHANGED gcVars /\ Running(m)
      /\ (early' = early \/ early' = early \ {m}) /\ OpEffect(m)
      /\ \A k \in Mutator \ {m} : op'[k] = op[k]
      /\ cms \in {M0, M1}
    BY DEF MarkInv, Standing, Threads, Thread, Effect, OtherEffect, PhaseInv
<1>2. /\ op[m].dst \in Slot \cup {Null} /\ fresh[m] \in Obj \cup {Null} /\ Coherent(op[m])
      /\ Null \notin Slot /\ Root \subseteq Slot /\ Obj \subseteq Slot
      /\ cms \notin {"REMAPPED", "DE_ALLOCATED"} /\ early \subseteq Mutator
    BY <1>1, Types, StateAssumption DEF OpRecord, TypeInv, TypeOK
<1>3. Pushed' \subseteq Safe' /\ Marked' \subseteq Safe' /\ greyObj' \subseteq Safe'
    BY SafeFactsPrime DEF SafeClosed
<1>4. Marked \cup greyObj \cup Pushed \subseteq Safe'
    BY <1>1, <1>3, UserGrows DEF gcVars
<1>5. ASSUME NEW s \in White, ~Nil(s)
      PROVE  ptr[s] \in Safe' \/ (s \in White' /\ ptr'[s] = ptr[s])
    <2>1. s \in Slot /\ ims[s] # cms /\ s \notin Going BY DEF White
    <2>2. CASE ptr'[s] # ptr[s]
        <3>1. CASE op[m].pc \in {"clear", "remove"} /\ s = op[m].dst
            <4>1. m \notin early BY <2>1, <3>1 DEF Going
            <4>2. CASE Barred BY <1>1, <1>3, <1>5, <3>1, <4>1, <4>2, UserGrows DEF Thread, Barriered
            <4>3. CASE ~Barred
                <5>1. StwHeld BY <4>3 DEF Barred, Marking, StwHeld
                <5>2. op[m].pc = "remove" /\ s \in Root
                    BY <1>1, <1>2, <3>1, <5>1, StoppedOps DEF Coherent
                <5>3. /\ gcpc # "drain" => greySlot = {} /\ greyInfo = {}
                      /\ s \notin greySlot /\ \A e \in greyInfo : e[1] # s
                    BY <1>1, <5>1, <5>2 DEF PhaseInv, StwHeld, PendingInv
                <5>4. QED BY <1>1, <1>5, <2>1, <5>1, <5>2, <5>3 DEF PendingInv, StwHeld, Visiting
            <4>4. QED BY <4>2, <4>3
        <3>2. CASE At(m, "write") /\ s = op[m].dst
            <4>1. m \notin early BY <2>1, <3>2 DEF Going, At
            <4>2. QED BY <1>1, <1>2, <1>5, <2>1, <3>2, <4>1
                      DEF Thread, Stamped, Builds, Coherent, At, Copies
        <3>3. CASE At(m, "set") /\ s = op[m].dst
            BY <1>1, <1>2, <1>5, <3>3 DEF Thread, Builds, Coherent, At, Makes
        <3>4. CASE At(m, "fields") /\ s = fresh[m]
            BY <1>1, <1>5, <3>4 DEF Thread, New, At
        <3>5. QED BY <2>1, <2>2, <3>1, <3>2, <3>3, <3>4 DEF Effect, PtrEffect
    <2>3. CASE ims'[s] = cms
        <3>1. CASE At(m, "inline") /\ s = op[m].dst
            <4>1. CASE Barred BY <1>1, <1>3, <1>5, <3>1, <4>1, UserGrows DEF Thread, Barriered
            <4>2. CASE ~Barred
                <5>1. StwHeld BY <4>2 DEF Barred, Marking, StwHeld
                <5>2. QED BY <1>1, <3>1, <5>1, StoppedOps DEF At
            <4>3. QED BY <4>1, <4>2
        <3>2. CASE At(m, "fields") /\ s = fresh[m]
            BY <1>1, <1>5, <3>2 DEF Thread, New, At
        <3>3. CASE s \in Unbuilt BY <1>1, <1>5, <3>3 DEF Unbuilt, RootInv
        <3>4. QED BY <1>2, <2>1, <2>3, <3>1, <3>2, <3>3 DEF Effect, ImsEffect
    <2>4. CASE s \in Going'
        <3>1. PICK k \in early' : op'[k].pc \in {"clear", "remove", "write"} /\ s = op'[k].dst
            BY <2>4 DEF Going
        <3>2. k \in early /\ k \in Mutator BY <1>1, <1>2, <3>1
        <3>3. k = m BY <1>1, <2>1, <3>1, <3>2 DEF Going
        <3>4. ~At(m, "idle") /\ Barred
            BY <1>1, <3>2, <3>3 DEF Thread, Early, PhaseInv, Barred
        <3>5. Continues(m) BY <1>1, <3>1, <3>3, <3>4 DEF OpEffect, Ends, NoOp
        <3>6. op[m].dst = s /\ op[m].pc \notin {"clear", "remove", "write"}
            BY <2>1, <3>1, <3>2, <3>3, <3>5 DEF Continues, Going
        <3>7. \/ At(m, "push") /\ op'[m].pc # "push"
              \/ At(m, "inline")
            BY <3>1, <3>3, <3>5, <3>6 DEF Continues, Follows, At
        <3>8. QED BY <1>1, <1>3, <1>5, <3>4, <3>6, <3>7, UserGrows DEF Thread, Barriered
    <2>5. QED BY <1>1, <2>1, <2>2, <2>3, <2>4 DEF White, gcVars
<1>6. QED BY <1>1, <1>4, <1>5, SafeGrows

LEMMA OthersRest ==
    ASSUME MarkInv, Covered, TypeInv', NEW m \in Mutator, Effect(m), NEW k \in Mutator, k # m
    PROVE  Coloured(k)' /\ Barriered(k)' /\ Stamped(k)' /\ Early(k)'
<1>1. /\ TypeInv /\ PhaseInv /\ RootInv /\ Thread(k) /\ Thread(m) /\ Disjoint
      /\ UNCHANGED gcVars /\ op'[k] = op[k] /\ fresh'[k] = fresh[k]
      /\ (early' = early \/ early' = early \ {m})
    BY DEF MarkInv, Standing, Threads, Thread, Effect, OtherEffect
<1>2. /\ op[k].src \in Slot \cup {Null} /\ op[k].dst \in Slot \cup {Null} /\ op[k].via \subseteq Root
      /\ Null \notin Slot /\ Root \subseteq Slot /\ Obj \subseteq Slot
      /\ Coherent(op[k]) /\ Coherent(op[m]) /\ fresh[m] \in Obj \cup {Null}
      /\ op[m].dst \in Slot \cup {Null} /\ op[m].src \in Slot \cup {Null}
      /\ op[k].heal # "none" => Operand(k) \in {op[k].src, op[k].dst}
    BY <1>1, Types DEF OpRecord, Operand, Coherent
<1>3. /\ op[k].dst # Null => ptr'[op[k].dst] = ptr[op[k].dst] /\ ims'[op[k].dst] = ims[op[k].dst]
      /\ op[k].src # Null => ptr'[op[k].src] = ptr[op[k].src]
      /\ k \in early' <=> k \in early
      /\ fresh[k] # Null => ptr'[fresh[k]] = ptr[fresh[k]]
    BY <1>1, OthersKeep
<1>4. /\ op[k].pc \in {"write", "inline", "clear", "remove"} => op[k].dst # Null
      /\ op[k].pc = "write" => op[k].src # Null
      /\ op[k].kind \in {"assign"} \cup Copies \cup Makes => op[k].dst # Null
    BY <1>2 DEF Coherent, Copies, Makes
<1>5. Coloured(k)' BY <1>1, <1>3, <1>4 DEF Thread, Coloured, At, Marking, gcVars, Nil, other,
    switchState
<1>6. Barriered(k)' BY <1>1, <1>3, <1>4, UserGrows DEF Thread, Barriered, At, Marking, Barred,
    gcVars, Nil
<1>7. Stamped(k)' BY <1>1, <1>3, <1>4, UserGrows DEF Thread, Stamped, At, Marking, gcVars, Nil
<1>8. ASSUME k \in early' PROVE Early(k)'
    <2>1. /\ Early(k) /\ k \in early /\ gcpc = "sleep" /\ Marking
        BY <1>1, <1>3, <1>8 DEF Thread, PhaseInv, Marking
    <2>2. op[k].dst \notin Marked'
        <3>1. CASE At(m, "allocate")
            <4>1. fresh'[m] \in Obj \ Alloc BY <3>1, UserGrows DEF Unused, Alloc
            <4>2. op[k].dst \in Root \cup Kept \cup {Null} BY OperandKept
            <4>3. op[k].dst # fresh'[m] BY <1>1, <1>2, <4>1, <4>2, KeptFacts, SlotAssumption
                DEF KeptRange
            <4>4. QED BY <2>1, <4>3, <1>8, UserGrows DEF Early
        <3>2. CASE ~At(m, "allocate") BY <2>1, <1>8, <3>2, UserGrows DEF Early
        <3>3. QED BY <3>1, <3>2
    <2>3. op[k].heal = cms => ims'[Operand(k)] # cms
        <3>1. SUFFICES ASSUME op[k].heal = cms PROVE ims'[Operand(k)] # cms OBVIOUS
        <3>2. /\ ims[Operand(k)] # cms /\ Operand(k) # Null /\ cms \notin {"none", "REMAPPED"}
              /\ Operand(k) \in {op[k].src, op[k].dst}
            BY <1>1, <1>2, <2>1, <3>1, StateAssumption DEF Early, Thread, Owns, PhaseInv, Marking
        <3>3. CASE Operand(k) = op[k].dst BY <1>3, <3>2, <3>3
        <3>4. CASE Operand(k) = op[k].src
            <4>1. op[k].src \notin Unbuilt
                BY <1>1, <1>2, SlotAssumption DEF Thread, Owns, RootInv, Unbuilt
            <4>2. op[m].dst # Null => op[m].dst # op[k].src BY <1>1 DEF Disjoint
            <4>3. fresh[m] # Null => fresh[m] # op[k].src BY OperandKept
            <4>4. At(m, "fields") => fresh[m] # Null BY <1>1 DEF Thread, New, At
            <4>5. QED BY <1>2, <3>2, <3>4, <4>1, <4>2, <4>3, <4>4 DEF Effect, ImsEffect, At,
                Coherent
        <3>5. QED BY <3>2, <3>3, <3>4
    <2>4. At(k, "write") /\ ims[op[k].dst] = cms => Nil(op[k].src) \/ ptr[op[k].src] \in Safe'
        BY <2>1, <1>8, UserSafe DEF Early
    <2>5. QED BY <1>1, <1>3, <1>4, <2>1, <1>8, <2>2, <2>3, <2>4 DEF Early, At, Nil, gcVars, Operand
<1>9. QED BY <1>5, <1>6, <1>7, <1>8 DEF Early

LEMMA OthersThread ==
    ASSUME MarkInv, Covered, TypeInv', NEW m \in Mutator, Effect(m), NEW k \in Mutator, k # m
    PROVE  Thread(k)'
BY OthersOwn, OthersNew, OthersRest DEF Thread

(* A thread between two operations has nothing to answer for. *)
LEMMA IdleThread ==
    ASSUME MarkInv, TypeInv', NEW m \in Mutator, Effect(m), Ends(m)
    PROVE  Thread(m)'
<1>1. op'[m] = NoOp /\ m \notin early' BY DEF Ends
<1>2. fresh'[m] = Null
    <2>1. New(m) /\ TypeInv BY DEF MarkInv, Standing, Threads, Thread
    <2>2. ~At(m, "allocate") /\ op[m].pc # "fields" /\ fresh \in [Mutator -> Obj \cup {Null}]
        BY <2>1 DEF Ends, At, TypeInv, TypeOK
    <2>3. fresh' = IF At(m, "set") THEN [fresh EXCEPT ![m] = Null] ELSE fresh
        BY <2>2 DEF Effect, OtherEffect
    <2>4. QED BY <2>1, <2>2, <2>3 DEF New, At
<1>3. cms' # "none" /\ Null \notin Root /\ Null \notin Obj
      /\ NoOp = [kind |-> "none", pc |-> "idle", dst |-> Null, src |-> Null, via |-> {}, heal |-> "none"]
    BY StateAssumption, NullAssumption DEF TypeInv, TypeOK, NoOp, MarkState
<1>4. QED BY <1>1, <1>2, <1>3 DEF Thread, Owns, Builds, New, Coloured, Barriered, Stamped, Early,
    At, Copies, Makes

-----------------------------------------------------------------------------
(* Starting an operation. *)
(* A slot an expression names: it is in use, and no thread is building it. *)
LEMMA NamedFacts ==
    ASSUME MarkInv, NEW s \in Named
    PROVE  /\ s[1] \in Root \cup Kept /\ s[1] \in Slot /\ s[2] \subseteq rootset
           /\ s[1] \in Root => s[1] \in rootset
           /\ s[1] \in Obj => \E r \in s[2] : ptr[r] = s[1]
           /\ ims[s[1]] # "DE_ALLOCATED"
           /\ Nil(s[1]) \/ ptr[s[1]] \in Kept
<1>1. TypeInv /\ HeapInv /\ RootInv /\ Threads BY DEF MarkInv, Standing
<1>2. PICK r \in rootset : s \in Path(r) BY DEF Named
<1>3. r \in Root /\ Null \notin Slot /\ Root \subseteq Slot /\ Obj \subseteq Slot
      /\ Kept \subseteq Alloc /\ Alloc \subseteq Obj /\ Root \cap Obj = {}
    BY <1>1, Types, KeptFacts, SlotAssumption DEF TypeInv, TypeOK, KeptRange
<1>4. CASE s = <<r, {}>> BY <1>1, <1>2, <1>3, <1>4 DEF HeapInv, RootInv
<1>5. CASE s = <<ptr[r], {r}>> /\ ptr[r] # Null
    <2>1. ptr[r] \in Kept BY <1>1, <1>3, <1>5 DEF HeapInv, Nil
    <2>2. ASSUME NEW k \in Mutator, At(k, "fields") PROVE fresh[k] # ptr[r]
        BY <1>1, <1>3, <2>2 DEF Threads, Thread, New, At
    <2>3. ims[ptr[r]] # "DE_ALLOCATED" BY <1>1, <1>3, <2>1, <2>2 DEF HeapInv
    <2>4. Nil(ptr[r]) \/ ptr[ptr[r]] \in Kept BY <1>1, <2>1 DEF HeapInv
    <2>5. QED BY <1>2, <1>3, <1>5, <2>1, <2>3, <2>4
<1>6. QED BY <1>2, <1>4, <1>5 DEF Path

(* The operations a thread can start, each with the step it begins with.   *)
Started(m) ==
    /\ op'[m].kind \in Copies \cup Makes => op'[m].dst \in Unbuilt
    /\ op'[m].kind \notin {"read"} => op'[m].heal = "none"
    /\ \/ /\ op'[m].kind = "assign" /\ op'[m].pc \in {"push", "inline"}
          /\ op'[m].dst # op'[m].src
          /\ AliasAssign \/ Nil(op'[m].dst) \/ ptr[op'[m].dst] # ptr[op'[m].src]
          /\ op'[m].pc = "inline" =>
                 phase # "CONCURRENT_MARK" \/ Nil(op'[m].dst) \/ ptr[op'[m].dst] = ptr[op'[m].src]
       \/ /\ op'[m].kind = "null" /\ op'[m].pc \in {"push", "clear"} /\ op'[m].src = Null
          /\ op'[m].pc = "clear" => phase # "CONCURRENT_MARK" \/ Nil(op'[m].dst)
       \/ /\ op'[m].kind = "destroy" /\ op'[m].pc \in {"push", "remove"} /\ op'[m].src = Null
          /\ op'[m].dst \in rootset /\ op'[m].via = {}
          /\ op'[m].pc = "remove" => phase # "CONCURRENT_MARK" \/ Nil(op'[m].dst)
       \/ /\ op'[m].kind = "read" /\ op'[m].pc = "read" /\ op'[m].dst = Null
          /\ op'[m].heal = ims[op'[m].src] /\ needHeal(op'[m].src)
          /\ \E s \in Named : op'[m].src = s[1]
       \/ /\ op'[m].kind \in Copies /\ op'[m].pc = "write"
          /\ ims' = [ims EXCEPT ![op'[m].dst] = copiedState(op'[m].src)]
          /\ \E s \in Named : op'[m].src = s[1]
       \/ /\ op'[m].kind \in Makes /\ op'[m].pc = "addRoot"
          /\ ims' = [ims EXCEPT ![op'[m].dst] = freshState]
LEMMA StartDetail ==
    ASSUME TypeInv, NEW m \in Mutator, StartOp(m)
    PROVE  Started(m)
<1>t. op \in [Mutator -> OpRecord] /\ Null \notin Slot
    BY Types DEF TypeInv, TypeOK, OpRecord
<1> DEFINE Is(kind, step, dst, src, via, heal) ==
               op'[m] = [kind |-> kind, pc |-> step, dst |-> dst, src |-> src, via |-> via, heal |-> heal]
<1>1. ASSUME NEW kind, NEW step, NEW dst, NEW src, NEW via, NEW heal,
             Begin(m, kind, step, dst, src, via, heal)
      PROVE  Is(kind, step, dst, src, via, heal)
    BY <1>1, <1>t DEF Begin
<1> HIDE DEF Is
<1>2. CASE StartAssign(m)
    <2>1. PICK d, s \in Named : 
             /\ d[1] # s[1] /\ (AliasAssign \/ ptr[d[1]] = Null \/ ptr[d[1]] # ptr[s[1]])
             /\ Is("assign", IF Barrier(d[1]) /\ ptr[d[1]] # ptr[s[1]] THEN "push" ELSE "inline",
                 d[1], s[1], d[2] \cup s[2], "none")
        BY <1>1, <1>2 DEF StartAssign
    <2>2. QED BY <2>1 DEF Is, Started, Barrier, Nil, Copies, Makes
<1>3. CASE StartNull(m)
    <2>1. PICK d \in Named : Is("null", IF Barrier(d[1]) THEN "push" ELSE "clear", d[1], Null, d[2], "none")
        BY <1>1, <1>3 DEF StartNull
    <2>2. QED BY <2>1 DEF Is, Started, Barrier, Nil, Copies, Makes
<1>4. CASE StartRead(m)
    <2>1. PICK s \in Named : needHeal(s[1]) /\ Is("read", "read", Null, s[1], s[2], ims[s[1]])
        BY <1>1, <1>4 DEF StartRead
    <2>2. QED BY <2>1 DEF Is, Started, Copies, Makes
<1>5. CASE StartDestroy(m)
    <2>1. PICK r \in rootset : Is("destroy", IF Barrier(r) THEN "push" ELSE "remove", r, Null, {}, "none")
        BY <1>1, <1>5 DEF StartDestroy
    <2>2. QED BY <2>1 DEF Is, Started, Barrier, Nil, Copies, Makes
<1>6. CASE StartCopy(m)
    <2>1. PICK r \in Unbuilt, s \in Named, kind \in Copies :
             Is(kind, "write", r, s[1], s[2], "none") /\ ims' = [ims EXCEPT ![r] = copiedState(s[1])]
        BY <1>1, <1>6 DEF StartCopy, Copies
    <2>2. QED BY <2>1 DEF Is, Started, Copies, Makes
<1>7. CASE StartMake(m)
    <2>1. PICK r \in Unbuilt : 
             /\ \/ Is("make", "addRoot", r, Null, {}, "none") 
                \/ \E s \in Named : Is("build", "addRoot", r, s[1], s[2], "none")
             /\ ims' = [ims EXCEPT ![r] = freshState]
        BY <1>1, <1>7 DEF StartMake
    <2>2. /\ op'[m].kind \in Makes /\ op'[m].pc = "addRoot" /\ op'[m].dst = r /\ op'[m].heal = "none"
          /\ op'[m].kind \notin {"read"}
        <3>1. CASE Is("make", "addRoot", r, Null, {}, "none") BY <3>1 DEF Is, Makes
        <3>2. ASSUME NEW s \in Named, Is("build", "addRoot", r, s[1], s[2], "none")
              PROVE  /\ op'[m].kind \in Makes /\ op'[m].pc = "addRoot" /\ op'[m].dst = r
                     /\ op'[m].heal = "none" /\ op'[m].kind \notin {"read"}
            BY <3>2 DEF Is, Makes
        <3>3. QED BY <2>1, <3>1, <3>2
    <2>3. QED BY <2>1, <2>2 DEF Started, Copies, Makes
<1>8. QED BY <1>2, <1>3, <1>4, <1>5, <1>6, <1>7 DEF StartOp

(* When the remark is over: the marked objects are exactly those reached,  *)
(* and every GCPtr in use carries the mark state of the cycle.             *)
LEMMA SelectedFacts ==
    ASSUME MarkInv, gcpc = "selected"
    PROVE  \A s \in Root \cup Marked : Nil(s) \/ (ims[s] = cms /\ ptr[s] \in Marked)
<1>1. /\ TypeInv /\ Pushed = {} /\ greyObj = {} /\ greySlot = {} /\ greyInfo = {} /\ Going = {}
      /\ Marking /\ Visiting
    BY DEF MarkInv, Standing, PhaseInv, Marking, Visiting, Going
<1>2. \A s \in Root \cup Marked : Nil(s) \/ ims[s] = cms
    BY <1>1, Types DEF MarkInv, Standing, PendingInv
<1>3. Safe \subseteq Marked
    <2>1. Marked \in SUBSET Obj BY <1>1, Types
    <2>2. Keeps(Marked) BY <1>1, <1>2 DEF Keeps, Base, Targets, White, Nil
    <2>3. QED BY <2>1, <2>2, SafeLeast
<1>4. \A s \in Root \cup Marked : Nil(s) \/ ptr[s] \in Safe
    BY <1>1, <1>2, Types DEF MarkInv, Standing, SafeInv
<1>5. QED BY <1>2, <1>3, <1>4

(* So does every slot an expression names then.                            *)
LEMMA NamedSelected ==
    ASSUME MarkInv, gcpc = "selected", NEW s \in Named
    PROVE  Nil(s[1]) \/ (ims[s[1]] = cms /\ ptr[s[1]] \in Marked)
<1>1. PICK r \in rootset : s \in Path(r) BY DEF Named
<1>2. r \in Root BY DEF MarkInv, Standing, TypeInv, TypeOK
<1>3. s[1] \in Root \cup Marked BY <1>1, <1>2, SelectedFacts DEF Path, Nil
<1>4. QED BY <1>3, SelectedFacts

(* A thread that starts an operation has established what its first step   *)
(* needs.                                                                  *)
LEMMA StartThread ==
    ASSUME MarkInv, Covered, TypeInv', NEW m \in Mutator, StartOp(m)
    PROVE  Thread(m)' /\ Disjoint'
<1>1. /\ TypeInv /\ PhaseInv /\ RootInv /\ Thread(m) /\ Disjoint /\ ColourInv /\ HeapInv
    BY DEF MarkInv, Standing, Threads, Thread
<1>2. /\ At(m, "idle") /\ Effect(m)
      /\ UNCHANGED <<gcVars, doomed, early, ptr, bit, rootset, satb, fresh>>
      /\ StartedOn(m, op'[m].dst, op'[m].src, op'[m].via)
      /\ op'[m].kind \notin Copies \cup Makes => ims' = ims
      /\ op'[m].kind \in Copies \cup Makes => op'[m].dst \in Unbuilt
      /\ op'[m].src = Null \/ \E s \in Named : op'[m].src = s[1] /\ s[2] \subseteq op'[m].via
      /\ \/ op'[m].dst = Null
         \/ op'[m].dst \in Unbuilt /\ op'[m].kind \in Copies \cup Makes
         \/ \E d \in Named : op'[m].dst = d[1] /\ d[2] \subseteq op'[m].via
      /\ op'[m].via \subseteq rootset
      /\ Started(m)
    BY <1>1, StartEffect, StartDetail
<1> DEFINE dst == op'[m].dst
           src == op'[m].src
           via == op'[m].via
<1>3. /\ op'[m] \in OpRecord /\ Coherent(op'[m]) /\ rootset \subseteq Root
      /\ Null \notin Slot /\ Root \subseteq Slot /\ Obj \subseteq Slot /\ Root \cap Obj = {}
      /\ ims \in [Slot -> MarkState]
    BY <1>1, Types, SlotAssumption DEF TypeInv, TypeOK, OpRecord, Operands
<1>4. /\ cms \notin {"DE_ALLOCATED", "none"} /\ freshState # "DE_ALLOCATED"
    BY <1>1, StateAssumption DEF TypeInv, TypeOK, MarkState, freshState
<1>5. /\ src # Null => ims[src] # "DE_ALLOCATED" /\ copiedState(src) # "DE_ALLOCATED"
                       /\ src \in Root \cup Kept /\ (src \in Root => src \in rootset)
                       /\ (src \in Obj => \E r \in via : ptr[r] = src)
    BY <1>2, <1>4, NamedFacts DEF copiedState
<1>6. \A r \in Unbuilt : /\ r \in Root /\ r \notin rootset /\ Nil(r) /\ ims[r] = "DE_ALLOCATED"
                         /\ \A k \in Mutator : op[k].dst # r
    <2>1. \A r \in Unbuilt : r # Null BY <1>3 DEF Unbuilt
    <2>2. QED BY <1>1, <2>1 DEF Unbuilt, RootInv, Writes
<1>7. Disjoint'
    <2>1. \A k \in Mutator \ {m} : op'[k] = op[k] BY <1>2 DEF Effect, OtherEffect
    <2>2. \A k \in Mutator \ {m} :
             /\ dst # Null => dst \notin {op[k].dst, op[k].src} \cup op[k].via
             /\ op[k].dst # Null => op[k].dst \notin {dst, src} \cup via
        BY <1>2, <1>3, Types DEF StartedOn, Exclusive, Writes, Reads
    <2>3. QED BY <1>1, <2>1, <2>2 DEF Disjoint
<1>8. dst # Null => dst # src
    BY <1>2, <1>3, <1>5, <1>6 DEF Started, Copies, Makes
<1>9. dst \in Obj => \E r \in via : ptr[r] = dst
    BY <1>2, <1>3, <1>6, NamedFacts
<1>10. Owns(m)'
    <2>1. /\ op'[m].pc # "idle"
          /\ op'[m].kind \in {"assign", "null", "destroy"} /\ dst \in Root => dst \in rootset
        BY <1>2, <1>3, <1>6, NamedFacts DEF Started, Copies, Makes
    <2>2. op'[m].heal # "none" => /\ Operand(m)' = src /\ src # Null /\ ~Nil(src) /\ op'[m].pc = "read"
        BY <1>2, <1>3 DEF Started, Operand, At, needHeal, Nil, Coherent
    <2>3. QED BY <1>2, <1>3, <1>5, <1>8, <1>9, <2>1, <2>2 DEF Owns, At, Nil
<1>11. Builds(m)'
    <2>1. CASE op'[m].kind \in Copies
        <3>1. /\ dst \in Unbuilt /\ op'[m].pc = "write" /\ ims'[dst] = copiedState(src) /\ src # Null
            BY <1>2, <1>3, <1>6, <2>1 DEF Started, Copies, Makes, Coherent
        <3>2. QED BY <1>2, <1>3, <1>5, <1>6, <2>1, <3>1 DEF Builds, Copies, Makes, At, Nil
    <2>2. CASE op'[m].kind \in Makes
        <3>1. /\ dst \in Unbuilt /\ op'[m].pc = "addRoot" /\ ims'[dst] = freshState
            BY <1>2, <1>3, <1>6, <2>2 DEF Started, Copies, Makes
        <3>2. QED BY <1>2, <1>3, <1>4, <1>6, <2>2, <3>1 DEF Builds, Copies, Makes, At, Nil
    <2>3. CASE op'[m].kind \notin Copies \cup Makes BY <2>3 DEF Builds
    <2>4. QED BY <2>1, <2>2, <2>3
<1>12. fresh'[m] = Null /\ op'[m].pc \notin {"idle", "fields", "set", "allocate"}
       /\ m \notin early'
    BY <1>1, <1>2 DEF Thread, New, At, Started, Early
<1>13. New(m)' BY <1>12 DEF New, At
<1>14. Coloured(m)'
    <2>1. SUFFICES ASSUME ~Marking PROVE /\ op'[m].pc = "write" => Nil(src) \/ ims'[dst] # other
                                         /\ op'[m].kind \in Makes => ims'[dst] # other
        BY <1>2 DEF Coloured, At, Nil, other, gcVars, switchState, Marking
    <2>2. freshState # other /\ cms # other
        BY <1>1, StateAssumption DEF freshState, other, switchState, TypeInv, TypeOK, MarkState
    <2>3. CASE op'[m].pc = "write"
        <3>1. /\ op'[m].kind \in Copies /\ ims'[dst] = copiedState(src) /\ src # Null
            BY <1>2, <1>3, <1>6, <2>3 DEF Started, Copies, Makes, Coherent
        <3>2. ~Overwriting(src) 
            BY <1>2, <1>3, <1>6, <3>1 DEF StartedOn, Exclusive, Writes, Overwriting, At, Copies
        <3>3. QED BY <1>1, <1>5, <2>1, <2>2, <3>1, <3>2 DEF ColourInv, copiedState, Makes, Copies
    <2>4. CASE op'[m].pc # "write"
        BY <1>2, <1>3, <1>6, <2>2, <2>4 DEF Started, Copies, Makes
    <2>5. QED BY <2>3, <2>4
<1>15. Barriered(m)'
    BY <1>1, <1>2 DEF Barriered, Started, At, Nil, PhaseInv, Covered, Barred, gcVars, Copies, Makes
<1>16. Stamped(m)'
    <2>1. SUFFICES ASSUME Marking
                   PROVE  /\ op'[m].kind = "assign" => op'[m].pc # "write"
                          /\ op'[m].kind \in Copies => op'[m].pc = "write" /\ (Nil(src) \/ ims'[dst] = cms)
                          /\ op'[m].kind \in Makes => ims'[dst] = cms
                          /\ gcpc # "selected" => op'[m].heal # cms
        BY <1>2, <1>12 DEF Stamped, At, Nil, gcVars, Marking
    <2>2. /\ duringGC /\ (gcpc # "selected" => duringMarking)
        BY <1>1, <2>1 DEF PhaseInv, Marking, Barred, duringGC, duringMarking
    <2>3. CASE op'[m].kind \in Copies
        <3>1. /\ ims'[dst] = copiedState(src) /\ op'[m].heal = "none" /\ op'[m].pc = "write"
              /\ \E s \in Named : src = s[1]
            BY <1>2, <1>3, <1>6, <2>3 DEF Started, Copies, Makes
        <3>2. gcpc = "selected" => Nil(src) \/ ims[src] = cms BY <3>1, NamedSelected
        <3>3. QED BY <1>4, <2>2, <2>3, <3>1, <3>2 DEF copiedState, Copies, Makes
    <2>4. CASE op'[m].kind \in Makes
        BY <1>2, <1>3, <1>4, <1>6, <2>2, <2>4 DEF Started, Copies, Makes, freshState
    <2>5. CASE op'[m].kind = "read"
        BY <1>2, <1>4, <2>2, <2>5 DEF Started, needHeal, Copies, Makes
    <2>6. CASE op'[m].kind \notin Copies \cup Makes \cup {"read"}
        BY <1>2, <1>4, <2>6 DEF Started
    <2>7. QED BY <2>3, <2>4, <2>5, <2>6
<1>17. Early(m)' BY <1>12 DEF Early
<1>18. QED BY <1>7, <1>10, <1>11, <1>13, <1>14, <1>15, <1>16, <1>17 DEF Thread

-----------------------------------------------------------------------------
(* Going on with it. *)
(* A thread that takes the next step of its operation has established what *)
(* the following one needs.                                                *)
LEMMA ContinuesThread ==
    ASSUME MarkInv, Covered, TypeInv', NEW m \in Mutator, Effect(m), Continues(m)
    PROVE  Thread(m)'
<1>1. /\ TypeInv /\ PhaseInv /\ RootInv /\ Thread(m) /\ Disjoint /\ ColourInv /\ HeapInv /\ Threads
      /\ UNCHANGED gcVars /\ Running(m)
    BY DEF MarkInv, Standing, Threads, Thread, Effect, OtherEffect
<1> DEFINE dst == op[m].dst
           src == op[m].src
           via == op[m].via
<1>2. /\ op[m] \in OpRecord /\ Coherent(op[m]) /\ op'[m] \in OpRecord /\ Coherent(op'[m])
      /\ dst \in Slot \cup {Null} /\ src \in Slot \cup {Null} /\ via \subseteq Root
      /\ Null \notin Slot /\ Root \subseteq Slot /\ Obj \subseteq Slot /\ Root \cap Obj = {}
      /\ fresh[m] \in Obj \cup {Null} /\ fresh'[m] \in Obj \cup {Null}
      /\ fresh \in [Mutator -> Obj \cup {Null}]
    BY <1>1, Types, SlotAssumption DEF OpRecord, TypeInv, TypeOK, Operands
<1>3. /\ op'[m].kind = op[m].kind /\ op'[m].dst = dst /\ op'[m].src = src /\ op'[m].via = via
      /\ op[m].pc \in {"push", "inline", "write", "addRoot", "allocate", "fields"}
      /\ op'[m].pc # "idle"
    BY DEF Continues, Follows, At
<1>4. /\ rootset' = IF At(m, "addRoot") THEN rootset \cup {dst} ELSE rootset
      /\ \/ (At(m, "write") => op[m].kind \in Copies) /\ (At(m, "addRoot") => op[m].kind \in Makes)
         \/ (op'[m].pc = op[m].pc /\ ptr' = ptr)
    BY <1>3 DEF Effect, OtherEffect, At, Continues
<1>5. \A s \in Slot :
          \/ ptr'[s] = ptr[s]
          \/ At(m, "write") /\ op[m].kind \in Copies /\ s = dst /\ ptr'[s] = ptr[src]
          \/ At(m, "fields") /\ s = fresh[m] /\ src # Null /\ ptr'[s] = ptr[src]
    BY <1>3, <1>4 DEF Effect, PtrEffect, At
<1>6. \A s \in Slot :
          \/ ims'[s] = ims[s]
          \/ At(m, "inline") /\ s = dst /\ ims'[s] = copiedState(src)
          \/ At(m, "fields") /\ s = fresh[m]
          \/ s = Operand(m) /\ op[m].pc \in {"push", "write", "fields"} /\ ims'[s] = "REMAPPED"
    BY <1>3 DEF Effect, ImsEffect, At
<1>7. /\ dst # Null => dst # src
      /\ op[m].kind \in Copies \cup Makes => dst \in Root /\ dst \notin via
      /\ fresh[m] # Null => fresh[m] # src /\ fresh[m] # dst /\ fresh[m] \notin via
      /\ At(m, "fields") => fresh[m] # Null
    BY <1>1, <1>2, OperandKept DEF Thread, Owns, Builds, New, At, Coherent, Copies, Makes
<1>8. /\ \A r \in via : ptr'[r] = ptr[r]
      /\ src # Null => ptr'[src] = ptr[src]
      /\ dst # Null /\ ~At(m, "write") => ptr'[dst] = ptr[dst]
    BY <1>2, <1>5, <1>7
<1>9. /\ op[m].kind \in Copies \cup Makes => ims'[dst] = ims[dst]
    BY <1>2, <1>6, <1>7 DEF Operand, At, Coherent, Copies, Makes
<1>10. Owns(m)'
    <2>1. op'[m].heal # "none" => /\ op'[m].pc = op[m].pc /\ ptr' = ptr /\ Operand(m) # Null
                                  /\ ~Nil(Operand(m)) /\ op[m].pc \in {"push", "write", "fields"}
        BY <1>2 DEF Continues, needHeal, Nil, Operand, Coherent, At
    <2>2. op'[m].heal # "none" => Operand(m)' # Null /\ ~Nil(Operand(m))'
        BY <1>3, <2>1 DEF Nil, Operand, At
    <2>3. rootset \subseteq rootset' BY <1>4
    <2>4. QED BY <1>1, <1>2, <1>3, <1>7, <1>8, <2>1, <2>2, <2>3 DEF Thread, Owns, At
<1>11. Builds(m)'
    <2>1. CASE op[m].kind \in Copies
        <3>1. op'[m].pc = "write" => At(m, "write") /\ ptr' = ptr
            BY <2>1, <1>2 DEF Continues, Follows, At, Coherent, Copies
        <3>2. rootset' = rootset
            BY <2>1, <1>3, <1>4 DEF Continues, Follows, At, Copies, Makes
        <3>3. QED BY <1>1, <1>3, <1>9, <2>1, <3>1, <3>2 DEF Thread, Builds, At, Nil, Copies, Makes
    <2>2. CASE op[m].kind \in Makes
        <3>1. dst # Null /\ ~At(m, "write") BY <2>2, <1>2 DEF Coherent, Makes, At
        <3>2. op'[m].pc # "addRoot" BY <2>2, <1>2 DEF Continues, Follows, At, Coherent, Makes
        <3>3. dst \in rootset' BY <1>1, <1>4, <2>2 DEF Thread, Builds
        <3>4. QED BY <1>1, <1>3, <1>8, <1>9, <2>2, <3>1, <3>2, <3>3 DEF Thread, Builds, At, Nil,
            Copies, Makes
    <2>3. CASE op[m].kind \notin Copies \cup Makes BY <1>3, <2>3 DEF Builds
    <2>4. QED BY <2>1, <2>2, <2>3
<1>12. New(m)'
    <2>1. CASE At(m, "allocate")
        <3>1. PICK o \in Unused : fresh' = [fresh EXCEPT ![m] = o]
            BY <2>1 DEF Effect, OtherEffect
        <3>2. /\ op'[m].pc = "fields" /\ fresh'[m] = o /\ o \in Obj /\ o \notin Alloc /\ o \in Kept' /\ o # Null
              /\ Kept' \subseteq Kept \cup {o} /\ Pushed' = Pushed /\ ptr' = ptr
            <4>1. ptr' = ptr BY <1>1, <1>5, <2>1 DEF At, TypeInv, TypeOK
            <4>2. op'[m].pc = "fields" BY <2>1 DEF Continues, Follows, At
            <4>3. fresh'[m] = o BY <1>2, <3>1
            <4>4. QED BY <1>2, <2>1, <3>1, <4>1, <4>2, <4>3, UserGrows DEF Unused, Alloc, At
        <3>3. Kept \subseteq Alloc BY <1>1, KeptFacts DEF KeptRange
        <3>4. \A k \in Mutator \ {m} : fresh'[k] # o
            BY <1>1, <1>2, <3>1, <3>2, <3>3 DEF Threads, Thread, New
        <3>5. \A s \in Root \cup Kept' : ptr'[s] # o
            BY <1>1, <1>2, <3>2, <3>3 DEF HeapInv, Nil
        <3>6. o \notin Pushed \cup greyObj \cup greySlot /\ \A e \in greyInfo : o # e[1] /\ o # e[2]
            BY <1>1, <1>2, <3>2, <3>3 DEF HeapInv
        <3>7. Nil(o)' BY <1>1, <3>2 DEF HeapInv, Nil
        <3>8. QED BY <1>1, <3>2, <3>4, <3>5, <3>6, <3>7 DEF New, At, gcVars
    <2>2. CASE At(m, "fields")
        <3>1. fresh' = fresh /\ Kept' = Kept /\ Pushed' = Pushed
            BY <2>2, UserGrows DEF Effect, OtherEffect, At
        <3>2. \A s \in Root \cup Kept : ptr'[s] # fresh[m]
            <4>1. \A s \in Root \cup Kept : s \in Slot BY <1>1, <1>2, KeptFacts DEF KeptRange
            <4>2. QED BY <1>1, <1>7, <2>2, <4>1, NewTargets DEF Thread, New, At
        <3>3. op'[m].pc \in {"fields", "set"} /\ (op'[m].pc = "fields" => ptr' = ptr)
            BY <2>2 DEF Continues, Follows, At
        <3>4. Nil(fresh[m])' \/ (src # Null /\ ptr'[fresh[m]] = ptr'[src])
            BY <1>1, <1>2, <1>5, <1>7, <1>8, <2>2, <3>1 DEF Thread, New, Nil, At
        <3>5. QED BY <1>1, <1>3, <2>2, <3>1, <3>2, <3>3, <3>4 DEF Thread, New, At, gcVars, Nil
    <2>3. CASE op[m].pc \in {"push", "inline", "write", "addRoot"}
        <3>1. fresh'[m] = Null BY <1>1, <2>3 DEF Effect, OtherEffect, Thread, New, At
        <3>2. op'[m].pc \notin {"fields", "set"} BY <2>3 DEF Continues, Follows, At
        <3>3. QED BY <3>1, <3>2 DEF New, At
    <2>4. QED BY <1>3, <2>1, <2>2, <2>3 DEF At
<1>13. /\ cms' = cms /\ phase' = phase /\ gcpc' = gcpc /\ early' = early
    BY <1>1, <1>3 DEF Effect, OtherEffect, NoOp, gcVars
<1>s. /\ cms \notin {"DE_ALLOCATED", "none"} /\ (Marking => cms # "REMAPPED") /\ other # "REMAPPED"
      /\ other # cms
    <2>1. cms \in {"REMAPPED", M0, M1} /\ (Marking => cms \in {M0, M1})
        BY <1>1 DEF PhaseInv, TypeInv, TypeOK, MarkState
    <2>2. M0 # M1 /\ M0 \notin {"DE_ALLOCATED", "none", "REMAPPED"} /\ M1 \notin {"DE_ALLOCATED", "none", "REMAPPED"}
        BY StateAssumption
    <2>3. QED BY <2>1, <2>2 DEF other, switchState
<1>14. At(m, "inline") => /\ ims'[dst] = copiedState(src) /\ src # Null /\ dst # Null
                          /\ op'[m].pc = "write" /\ ptr' = ptr /\ op[m].kind = "assign"
    BY <1>1, <1>2, <1>5 DEF Continues, Follows, At, Coherent, TypeInv, TypeOK
<1>15. At(m, "push") => ptr' = ptr BY <1>1, <1>5 DEF At, TypeInv, TypeOK
<1>16. op'[m].pc = "write" => At(m, "inline") \/ (At(m, "write") /\ ptr' = ptr /\ ims' = ims)
    BY DEF Continues, Follows, At
<1>17. src # Null => src \in Root \cup Kept BY OperandKept
<1>18. op'[m].heal = "none" \/ (needHeal(Operand(m)) /\ op'[m].heal = ims[Operand(m)])
    BY DEF Continues
<1>19. Coloured(m)'
    <2>1. SUFFICES ASSUME ~Marking PROVE /\ op'[m].pc = "write" => ptr'[src] = Null \/ ims'[dst] # other
                                         /\ op[m].kind \in Makes => ims'[dst] # other
        BY <1>3, <1>13 DEF Coloured, Nil, At, other, switchState, Marking
    <2>2. op[m].kind \in Makes => ims'[dst] # other
        BY <1>1, <1>9, <2>1 DEF Thread, Coloured
    <2>3. CASE At(m, "inline")
        <3>1. ~Overwriting(src) BY <1>1, <1>7, <1>14, <2>3 DEF Disjoint, Overwriting, At
        <3>2. Nil(src) \/ ims[src] # other BY <1>1, <1>14, <1>17, <2>1, <2>3, <3>1 DEF ColourInv
        <3>3. QED BY <1>s, <1>14, <2>2, <2>3, <3>2 DEF copiedState, Nil
    <2>4. CASE At(m, "write") /\ ptr' = ptr /\ ims' = ims
        BY <1>1, <2>1, <2>2, <2>4 DEF Thread, Coloured, Nil
    <2>5. QED BY <1>16, <2>2, <2>3, <2>4
<1>20. Barriered(m)'
    <2>1. op'[m].pc \in {"inline", "clear", "remove"} => At(m, "push") /\ op'[m].pc # "push"
        BY DEF Continues, Follows, At
    <2>2. QED BY <1>3, <1>13, <1>15, <2>1, UserGrows DEF Barriered, Nil, At
<1>21. Stamped(m)'
    <2>1. SUFFICES ASSUME Marking, m \notin early
                   PROVE  Stamped(m)'
        BY <1>13 DEF Stamped, Marking
    <2>2. At(m, "inline") => duringMarking
        BY <1>1, <1>14, <2>1, StoppedOps DEF StwHeld, Marking, PhaseInv, Barred, duringMarking
    <2>3. op[m].kind = "assign" /\ op'[m].pc = "write" => ims'[dst] = cms
        BY <1>1, <1>14, <1>16, <2>1, <2>2 DEF copiedState, Thread, Stamped
    <2>4. op[m].kind \in Copies /\ op'[m].pc = "write" => ptr'[src] = Null \/ ims'[dst] = cms
        BY <1>1, <1>2, <1>16, <2>1 DEF Thread, Stamped, Nil, At, Coherent, Copies
    <2>5. op[m].kind \in Copies /\ op'[m].pc = "addRoot" => ptr'[dst] = Null \/ ims'[dst] = cms
        <3>1. SUFFICES ASSUME op[m].kind \in Copies, op'[m].pc = "addRoot"
                       PROVE  ptr'[dst] = Null \/ ims'[dst] = cms
            OBVIOUS
        <3>2. At(m, "write") BY <3>1, <1>2 DEF Continues, Follows, At, Coherent, Copies
        <3>3. dst \in Slot /\ (ptr'[dst] = ptr[dst] \/ ptr'[dst] = ptr[src])
            BY <1>2, <1>5, <1>7, <3>1, <3>2 DEF At
        <3>4. QED BY <1>1, <1>9, <2>1, <3>1, <3>2, <3>3 DEF Thread, Stamped, Builds, Nil
    <2>6. op[m].kind \in Makes => ims'[dst] = cms
        BY <1>1, <1>9, <2>1 DEF Thread, Stamped
    <2>7. fresh'[m] # Null => fresh'[m] \in Marked'
        <3>1. CASE At(m, "allocate")
            <4>1. fresh'[m] \in Obj /\ bit'[fresh'[m]] = freshState BY <3>1, UserGrows DEF Unused
            <4>2. freshState = cms BY <1>1, <2>1 DEF freshState, duringGC, PhaseInv, Marking
            <4>3. QED BY <1>13, <4>1, <4>2 DEF Marked
        <3>2. CASE ~At(m, "allocate")
            <4>1. fresh'[m] \in {fresh[m], Null} BY <1>2, <3>2 DEF Effect, OtherEffect
            <4>2. QED BY <1>1, <2>1, <3>2, <4>1, UserGrows DEF Thread, Stamped
        <3>3. QED BY <3>1, <3>2
    <2>8. gcpc # "selected" => op'[m].heal # cms
        BY <1>1, <1>s, <1>18, <2>1 DEF needHeal, duringMarking, PhaseInv, Marking, Barred
    <2>9. QED BY <1>3, <1>13, <2>3, <2>4, <2>5, <2>6, <2>7, <2>8 DEF Stamped, At, Nil
<1>22. Early(m)'
    <2>1. SUFFICES ASSUME m \in early PROVE Early(m)'
        BY <1>13 DEF Early
    <2>2. Marking /\ gcpc = "sleep" /\ Early(m) BY <1>1, <2>1 DEF PhaseInv, Marking, Thread
    <2>3. duringMarking BY <1>1, <2>2 DEF PhaseInv, duringMarking, Barred
    <2>4. dst \notin Marked'
        <3>1. CASE At(m, "allocate")
            <4>1. dst \in Root BY <1>2, <3>1, SlotAssumption DEF Coherent, At
            <4>2. QED BY <1>2, <4>1 DEF Marked
        <3>2. CASE ~At(m, "allocate") BY <2>1, <2>2, <3>2, UserGrows DEF Early
        <3>3. QED BY <3>1, <3>2
    <2>5. op'[m].heal # cms BY <1>s, <1>18, <2>3 DEF needHeal
    <2>6. op'[m].pc = "write" /\ ims'[dst] = cms => ptr'[src] = Null \/ ptr'[src] \in Safe'
        <3>1. CASE At(m, "inline")
            <4>1. Nil(src) \/ ptr[src] \in Safe
                BY <1>14, <2>2, <3>1, SourceSafe DEF At
            <4>2. QED BY <1>14, <2>2, <3>1, <4>1, UserSafe DEF Nil
        <3>2. CASE At(m, "write") /\ ptr' = ptr /\ ims' = ims
            BY <2>1, <2>2, <3>2, UserSafe DEF Early, Nil
        <3>3. QED BY <1>16, <3>1, <3>2
    <2>7. op[m].kind \in Makes => ims'[dst] # cms BY <1>9, <2>1, <2>2 DEF Early
    <2>8. QED BY <1>3, <1>13, <2>4, <2>5, <2>6, <2>7 DEF Early, At, Nil
<1>23. QED BY <1>10, <1>11, <1>12, <1>19, <1>20, <1>21, <1>22 DEF Thread

-----------------------------------------------------------------------------
(* User threads preserve the invariant. *)
UserStep(m) == StartOp(m) \/ MutatorStep(m)
LEMMA UserEffect ==
    ASSUME TypeInv, NEW m \in Mutator, UserStep(m)
    PROVE  Effect(m)
BY StartEffect, MutatorEffect DEF UserStep

(* After a step of any user thread, every thread has.                      *)
LEMMA UserThreads ==
    ASSUME MarkInv, Covered, TypeInv', NEW m \in Mutator, UserStep(m)
    PROVE  Threads' /\ Disjoint'
<1>1. TypeInv /\ Effect(m) /\ Disjoint /\ (\A k \in Mutator \ {m} : op'[k] = op[k]) /\ Null \notin Root
    BY UserEffect, NullAssumption DEF MarkInv, Standing, Effect, OtherEffect
<1>2. \A k \in Mutator \ {m} : Thread(k)' BY <1>1, OthersThread
<1>3. CASE StartOp(m) BY <1>2, <1>3, StartThread DEF Threads
<1>4. CASE MutatorStep(m)
    <2>1. Ends(m) \/ Continues(m) BY <1>1, <1>4, MutatorEffect DEF Effect, OpEffect
    <2>2. Thread(m)' BY <1>1, <2>1, IdleThread, ContinuesThread
    <2>3. Disjoint' BY <1>1, <2>1 DEF Disjoint, Ends, Continues, NoOp
    <2>4. QED BY <1>2, <2>2, <2>3 DEF Threads
<1>5. QED BY <1>3, <1>4 DEF UserStep

(* No step of a user thread contradicts where the GC thread is.            *)
LEMMA UserPhase ==
    ASSUME MarkInv, Covered, TypeInv', NEW m \in Mutator, Effect(m)
    PROVE  PhaseInv'
<1>1. /\ TypeInv /\ PhaseInv /\ UNCHANGED gcVars /\ Running(m) /\ early' \subseteq early
      /\ \A k \in Mutator \ {m} : op'[k] = op[k]
    BY DEF MarkInv, Standing, Effect, OtherEffect
<1>2. StwHeld => satb' = satb
    BY <1>1, StoppedOps DEF Effect, OtherEffect
<1>3. StwHeld => \A k \in Mutator : op'[k].pc \notin {"fields", "set"}
    <2>1. SUFFICES ASSUME StwHeld PROVE op'[m].pc \notin {"fields", "set"}
        BY <1>1 DEF PhaseInv, At
    <2>2. op[m].pc \notin {"fields", "set"} BY <1>1, <2>1 DEF PhaseInv, At
    <2>3. ~At(m, "allocate") BY <2>1 DEF Effect, OtherEffect
    <2>4. CASE Continues(m) BY <2>2, <2>3, <2>4 DEF Continues, Follows, At
    <2>5. CASE Ends(m) BY <2>5 DEF Ends, NoOp
    <2>6. CASE StartOp(m) BY <1>1, <2>6, StartDetail DEF Started
    <2>7. QED BY <2>4, <2>5, <2>6 DEF Effect, OpEffect
<1>4. UNCHANGED <<phase, cms, gcpc, greySlot, greyInfo, greyObj, pool>> BY <1>1 DEF gcVars
<1>5. StwHeld => Pushed' = Pushed BY <1>2 DEF Pushed
<1>6. Marked \subseteq Marked' BY UserGrows
<1>7. QED
    BY <1>1, <1>2, <1>3, <1>4, <1>5, <1>6 DEF PhaseInv, Barred, Marking, StwHeld, At

(* The slots an operation reads have been built. *)
LEMMA OperandBuilt ==
    ASSUME MarkInv, NEW m \in Mutator, op[m].src # Null
    PROVE  ims[op[m].src] # "DE_ALLOCATED" /\ copiedState(op[m].src) # "DE_ALLOCATED"
<1>1. TypeInv /\ Owns(m) /\ RootInv /\ HeapInv /\ Threads BY DEF MarkInv, Standing, Threads, Thread
<1>2. op[m].src \in Root \cup Kept /\ \A k \in Mutator : fresh[k] # Null => fresh[k] # op[m].src
    BY OperandKept
<1>3. KeptRange BY <1>1, KeptFacts
<1>4. \A k \in Mutator : At(k, "fields") => fresh[k] # Null BY <1>1 DEF Threads, Thread, New, At
<1>5. ims[op[m].src] # "DE_ALLOCATED"
    BY <1>1, <1>2, <1>3, <1>4, SlotAssumption DEF Owns, RootInv, HeapInv, KeptRange
<1>6. QED BY <1>3, <1>5 DEF copiedState, KeptRange

(* Nor does it break any other part of the invariant: the roots,           *)
LEMMA UserRoot ==
    ASSUME MarkInv, Covered, TypeInv', NEW m \in Mutator, UserStep(m)
    PROVE  RootInv'
<1>1. /\ TypeInv /\ Effect(m) /\ RootInv /\ Thread(m) /\ Threads /\ KeptRange
      /\ \A k \in Mutator \ {m} : op'[k] = op[k]
      /\ rootset' = IF At(m, "addRoot") THEN rootset \cup {op[m].dst}
                    ELSE IF At(m, "remove") THEN rootset \ {op[m].dst} ELSE rootset
      /\ PtrWritten(m)
    BY UserEffect, KeptFacts DEF MarkInv, Standing, Threads, Effect, OtherEffect
<1>2. /\ Root \subseteq Slot /\ Null \notin Slot /\ Coherent(op[m]) /\ Root \cap Obj = {}
      /\ fresh[m] \in Obj \cup {Null}
    BY <1>1, Types, SlotAssumption
<1>3. freshState # "DE_ALLOCATED" BY <1>1 DEF freshState, KeptRange
(* A root a step retires is one the destructor removes. *)
<1>4. ASSUME NEW r \in Root, ims'[r] = "DE_ALLOCATED"
      PROVE  ims[r] = "DE_ALLOCATED" \/ (At(m, "remove") /\ r = op[m].dst)
    <2>1. At(m, "inline") => op[m].src # Null BY <1>2 DEF At, Coherent
    <2>2. At(m, "idle") /\ op'[m].kind \in Copies => copiedState(op'[m].src) # "DE_ALLOCATED"
        <3>1. SUFFICES ASSUME At(m, "idle"), op'[m].kind \in Copies
                       PROVE  copiedState(op'[m].src) # "DE_ALLOCATED"
            OBVIOUS
        <3>2. StartOp(m) BY <1>1, <3>1, MutatorEffect DEF UserStep
        <3>3. \E s \in Named : op'[m].src = s[1]
            BY <1>1, <3>1, <3>2, StartDetail DEF Started, Copies, Makes
        <3>4. QED BY <1>1, <3>3, NamedFacts DEF copiedState, KeptRange
    <2>3. r \in Slot /\ (At(m, "fields") => r # fresh[m])
        BY <1>1, <1>2 DEF Thread, New, At
    <2>4. QED BY <1>3, <1>4, <2>1, <2>2, <2>3, OperandBuilt, <1>1 DEF Effect, ImsEffect
<1>5. ASSUME NEW r \in Root, ims'[r] = "DE_ALLOCATED" PROVE ptr'[r] = Null
    <2>1. CASE At(m, "remove") /\ r = op[m].dst BY <1>1, <2>1 DEF PtrWritten, At
    <2>2. CASE ims[r] = "DE_ALLOCATED" /\ ~(At(m, "remove") /\ r = op[m].dst)
        <3>1. /\ op[m].kind \in Copies \cup Makes \cup {"assign", "null", "destroy"} => op[m].dst # r
            BY <1>1, <2>2 DEF Thread, Builds, Owns, RootInv
        <3>2. op[m].pc \in {"clear", "remove", "write", "set"}
                  => op[m].kind \in Copies \cup Makes \cup {"assign", "null", "destroy"}
            BY <1>2 DEF Coherent, Copies, Makes
        <3>3. At(m, "fields") => r # fresh[m] BY <1>1, <1>2 DEF Thread, New, At
        <3>4. ptr'[r] = ptr[r] BY <1>1, <1>2, <3>1, <3>2, <3>3 DEF Effect, PtrEffect, At
        <3>5. QED BY <1>1, <2>2, <3>4 DEF RootInv, Nil
    <2>3. QED BY <1>4, <1>5, <2>1, <2>2
<1>6. ASSUME NEW r \in rootset' PROVE ims'[r] # "DE_ALLOCATED"
    <2>1. r \in Root /\ (r \in rootset \/ (At(m, "addRoot") /\ r = op[m].dst))
        BY <1>1, <1>6 DEF TypeInv, TypeOK, At
    <2>2. ~(At(m, "remove") /\ r = op[m].dst) BY <1>1, <1>6 DEF At
    <2>3. ims[r] # "DE_ALLOCATED"
        BY <1>1, <1>2, <2>1 DEF RootInv, Thread, Builds, Coherent, At, Copies, Makes
    <2>4. QED BY <1>4, <2>1, <2>2, <2>3
<1>7. ASSUME NEW r \in Root, ptr'[r] # Null
      PROVE  \/ r \in rootset'
             \/ \E k \in Mutator : op'[k].kind \in Copies /\ op'[k].pc = "addRoot" /\ op'[k].dst = r
    <2>1. ~(At(m, "remove") /\ r = op[m].dst) BY <1>1, <1>7 DEF PtrWritten, At
    <2>2. r \in rootset => r \in rootset' BY <1>1, <2>1 DEF At
    <2>3. CASE ptr'[r] # ptr[r]
        <3>1. /\ op[m].pc \in {"write", "set"} /\ r = op[m].dst
            BY <1>1, <1>2, <1>7, <2>3 DEF Effect, PtrEffect, At, Thread, New
        <3>2. CASE op[m].kind \in Copies
            <4>1. At(m, "write") BY <1>2, <3>1, <3>2 DEF Coherent, Copies, At
            <4>2. Continues(m) BY <1>1, <3>2, <4>1 DEF Effect, OpEffect, Ends, At
            <4>3. op'[m].pc = "addRoot" BY <2>3, <4>1, <4>2 DEF Continues, Follows, At
            <4>4. QED BY <3>1, <3>2, <4>2, <4>3 DEF Continues
        <3>3. CASE op[m].kind \notin Copies
            <4>1. r \in rootset
                BY <1>1, <1>2, <1>7, <3>1, <3>3 DEF Thread, Owns, Builds, Coherent, Copies,
                    Makes, At
            <4>2. QED BY <2>2, <4>1
        <3>4. QED BY <3>2, <3>3
    <2>4. CASE ptr'[r] = ptr[r]
        <3>1. r \in rootset \/ \E k \in Mutator : op[k].kind \in Copies /\ At(k, "addRoot") /\ op[k].dst = r
            BY <1>1, <1>7, <2>4 DEF RootInv, Nil
        <3>2. ASSUME NEW k \in Mutator, op[k].kind \in Copies, At(k, "addRoot"), op[k].dst = r
              PROVE  \/ r \in rootset'
                     \/ \E j \in Mutator : op'[j].kind \in Copies /\ op'[j].pc = "addRoot" /\ op'[j].dst = r
            <4>1. CASE k = m BY <1>1, <3>2, <4>1 DEF At
            <4>2. CASE k # m BY <1>1, <3>2, <4>2 DEF At
            <4>3. QED BY <4>1, <4>2
        <3>3. QED BY <2>2, <3>1, <3>2
    <2>5. QED BY <2>3, <2>4
<1>8. QED BY <1>5, <1>6, <1>7 DEF RootInv, Nil, At

(* the objects that stay,                                                  *)
LEMMA UserHeap ==
    ASSUME MarkInv, Covered, TypeInv', NEW m \in Mutator, UserStep(m)
    PROVE  HeapInv'
<1>1. /\ TypeInv /\ Effect(m) /\ HeapInv /\ Thread(m) /\ Threads /\ KeptRange /\ KeptRange'
      /\ \A k \in Mutator \ {m} : op'[k] = op[k] /\ fresh'[k] = fresh[k]
      /\ UNCHANGED <<phase, cms, gcpc, greySlot, greyInfo, greyObj, pool>>
    BY UserEffect, KeptFacts, KeptFactsPrime DEF MarkInv, Standing, Threads, Effect, OtherEffect,
        gcVars
<1>2. /\ Root \subseteq Slot /\ Obj \subseteq Slot /\ Null \notin Slot /\ Coherent(op[m])
      /\ Root \cap Obj = {} /\ fresh[m] \in Obj \cup {Null}
    BY <1>1, Types, SlotAssumption
<1>3. /\ Alloc \subseteq Alloc' /\ Kept \subseteq Kept'
      /\ Kept' \subseteq Kept \cup ({fresh'[m]} \ {Null})
      /\ Alloc' \subseteq Alloc \cup ({fresh'[m]} \ {Null})
      /\ ~At(m, "allocate") => Alloc' = Alloc /\ Kept' = Kept
      /\ At(m, "allocate") => fresh'[m] \in Obj \ Alloc /\ op'[m].pc = "fields" /\ ptr' = ptr
    <2>1. At(m, "allocate") => fresh'[m] \in Obj \ Alloc BY <1>1, UserGrows DEF Unused, Alloc
    <2>2. At(m, "allocate") => ~At(m, "idle") /\ ~Ends(m) BY DEF At, Ends
    <2>3. At(m, "allocate") => op'[m].pc = "fields"
        BY <1>1, <2>2 DEF Effect, OpEffect, Continues, Follows, At
    <2>4. At(m, "allocate") => ptr' = ptr
        BY <1>1 DEF Effect, PtrEffect, At, TypeInv, TypeOK
    <2>5. QED BY <1>1, <2>1, <2>3, <2>4, UserGrows
<1>4. \A o \in Obj \ Alloc' : ptr'[o] = Null
    <2>1. SUFFICES ASSUME NEW o \in Obj \ Alloc' PROVE ptr'[o] = Null OBVIOUS
    <2>2. o \notin Alloc /\ o \notin Root \cup Kept /\ o \in Slot BY <1>1, <1>2, <1>3 DEF KeptRange
    <2>3. ptr'[o] = ptr[o] BY <2>2, NewTargets, <1>1
    <2>4. QED BY <1>1, <2>2, <2>3 DEF HeapInv, Nil
<1>5. ASSUME NEW o \in Alloc', \A k \in Mutator : op'[k].pc = "fields" => fresh'[k] # o
      PROVE  ims'[o] # "DE_ALLOCATED"
    <2>1. o \in Alloc /\ o \in Obj
        BY <1>1, <1>3, <1>5 DEF KeptRange
    <2>2. CASE At(m, "fields") /\ o = fresh[m]
        <3>1. op'[m].pc # "fields" /\ Continues(m)
            <4>1. fresh' = fresh BY <1>1, <2>2 DEF Effect, OtherEffect, At
            <4>2. op'[m].pc # "fields" BY <1>5, <2>2, <4>1
            <4>3. ~At(m, "idle") /\ ~Ends(m) BY <2>2 DEF At, Ends
            <4>4. QED BY <1>1, <4>2, <4>3 DEF Effect, OpEffect
        <3>2. ims' = [IF op[m].src = Null THEN ims ELSE Healed(m) EXCEPT ![fresh[m]] =
                             IF op[m].src = Null THEN freshState ELSE copiedState(op[m].src)]
            BY <2>2, <3>1 DEF Continues, At
        <3>3. Healed(m) \in [Slot -> MarkState] /\ ims \in [Slot -> MarkState]
            BY <1>1, HealedType DEF TypeInv, TypeOK
        <3> DEFINE h == IF op[m].src = Null THEN ims ELSE Healed(m)
                   v == IF op[m].src = Null THEN freshState ELSE copiedState(op[m].src)
        <3>4. h \in [Slot -> MarkState] BY <3>3
        <3>5. v # "DE_ALLOCATED" BY <1>1, OperandBuilt DEF freshState, KeptRange
        <3>6. ims' = [h EXCEPT ![fresh[m]] = v] BY <3>2
        <3> HIDE DEF h, v
        <3>7. QED BY <1>2, <2>1, <2>2, <3>4, <3>5, <3>6
    <2>3. CASE ~(At(m, "fields") /\ o = fresh[m])
        <3>1. \A k \in Mutator : At(k, "fields") => fresh[k] # o
            BY <1>1, <1>5, <2>3 DEF At
        <3>2. ims[o] # "DE_ALLOCATED" BY <1>1, <2>1, <3>1 DEF HeapInv
        <3>3. /\ o \notin Unbuilt /\ (At(m, "inline") => op[m].src # Null)
              /\ (At(m, "remove") => o # op[m].dst)
            BY <1>2, <2>1 DEF Unbuilt, Coherent, At
        <3>4. QED BY <1>1, <1>2, <2>1, <2>3, <3>2, <3>3, OperandBuilt DEF Effect, ImsEffect
    <2>4. QED BY <2>2, <2>3
<1>6. ASSUME NEW s \in Root \cup Kept', ptr'[s] # Null PROVE ptr'[s] \in Kept'
    <2>1. s \in Slot BY <1>1, <1>2 DEF KeptRange
    <2>2. CASE ptr'[s] # ptr[s] BY <1>1, <1>3, <1>6, <2>1, <2>2, NewTargets
    <2>3. CASE ptr'[s] = ptr[s]
        <3>1. CASE s \in Root \cup Kept BY <1>1, <1>3, <1>6, <2>3, <3>1 DEF HeapInv, Nil
        <3>2. CASE s \notin Root \cup Kept
            <4>1. s \in Obj \ Alloc BY <1>3, <1>6, <3>2
            <4>2. QED BY <1>1, <1>6, <2>3, <4>1 DEF HeapInv, Nil
        <3>3. QED BY <3>1, <3>2
    <2>4. QED BY <2>2, <2>3
<1>7. Pushed' \cup greyObj' \subseteq Kept'
    <2>1. At(m, "push") => op[m].dst # Null BY <1>2 DEF Coherent, At, Slot
    <2>2. At(m, "push") => Nil(op[m].dst) \/ ptr[op[m].dst] \in Kept BY <2>1, OperandKept
    <2>3. Pushed' \subseteq Pushed \cup Kept
        BY <1>1, <2>2, UserGrows DEF Nil
    <2>4. QED BY <1>1, <1>3, <2>3 DEF HeapInv
<1>8. QED BY <1>1, <1>3, <1>4, <1>5, <1>6, <1>7 DEF HeapInv, Nil, At

(* the garbage,                                                            *)
LEMMA UserDoomed ==
    ASSUME MarkInv, Covered, TypeInv', NEW m \in Mutator, UserStep(m)
    PROVE  DoomedInv'
<1>1. /\ TypeInv /\ Effect(m) /\ DoomedInv /\ Thread(m) /\ HeapInv
      /\ \A k \in Mutator \ {m} : op'[k] = op[k] /\ fresh'[k] = fresh[k]
      /\ UNCHANGED <<phase, cms, gcpc, greySlot, greyInfo, greyObj, pool, doomed>>
    BY UserEffect DEF MarkInv, Standing, Threads, Effect, OtherEffect, gcVars
<1>2. /\ op[m].dst \in Slot \cup {Null} /\ op[m].src \in Slot \cup {Null} /\ op[m].via \subseteq Root
      /\ Coherent(op[m]) /\ Root \cap Obj = {} /\ Null \notin Slot /\ doomed \subseteq Obj
      /\ fresh \in [Mutator -> Obj \cup {Null}] /\ Null \notin Obj /\ Root \subseteq Slot
    BY <1>1, Types, SlotAssumption, NullAssumption DEF TypeInv, TypeOK, OpRecord
<1>3. op[m].dst \notin doomed /\ op[m].src \notin doomed
    <2>1. \A r \in Root : ptr[r] \notin doomed BY <1>1, <1>2 DEF DoomedInv
    <2>2. QED BY <1>1, <1>2, <2>1 DEF Thread, Owns, Slot
<1>4. /\ op[m].src # Null => ptr[op[m].src] \notin doomed
      /\ op[m].dst # Null => ptr[op[m].dst] \notin doomed
    BY <1>1, <1>2, <1>3 DEF DoomedInv
<1>5. \A s \in Slot \ doomed : ptr'[s] \notin doomed
    <2>1. At(m, "set") \/ At(m, "fields") => fresh[m] \notin doomed BY <1>1 DEF DoomedInv
    <2>2. QED BY <1>1, <1>2, <1>4, <2>1 DEF Effect, PtrEffect, DoomedInv
<1>6. doomed \cap Pushed' = {}
    <2>1. CASE At(m, "push")
        <3>1. op[m].dst # Null BY <1>2, <2>1 DEF Coherent, At, Slot
        <3>2. QED BY <1>1, <1>4, <3>1, UserGrows DEF DoomedInv
    <2>2. CASE ~At(m, "push") BY <1>1, <2>2, UserGrows DEF DoomedInv
    <2>3. QED BY <2>1, <2>2
<1>7. \A k \in Mutator : fresh'[k] \notin doomed
    <2>1. fresh'[m] \in {fresh[m], Null} \/ fresh'[m] \in Unused
        BY <1>1, <1>2 DEF Effect, OtherEffect
    <2>2. Unused \cap doomed = {} BY <1>1 DEF Unused, DoomedInv, Alloc
    <2>3. QED BY <1>1, <1>2, <2>1, <2>2 DEF DoomedInv
<1>8. doomed \subseteq Alloc' \ Marked'
    <2>1. ~At(m, "allocate") => Alloc' = Alloc /\ Marked' = Marked BY <1>1, UserGrows
    <2>2. Alloc \subseteq Alloc' /\ Marked' \subseteq Marked \cup {fresh'[m]} BY <1>1, UserGrows
    <2>3. QED BY <1>1, <1>7, <2>1, <2>2 DEF DoomedInv
<1>9. QED BY <1>1, <1>5, <1>6, <1>7, <1>8 DEF DoomedInv, Marking

(* the mark states between two cycles,                                     *)
LEMMA UserColour ==
    ASSUME MarkInv, Covered, TypeInv', NEW m \in Mutator, UserStep(m)
    PROVE  ColourInv'
<1>1. /\ TypeInv /\ Effect(m) /\ ColourInv /\ Thread(m) /\ Threads /\ KeptRange /\ KeptRange' /\ HeapInv
      /\ Disjoint /\ RootInv
      /\ \A k \in Mutator \ {m} : op'[k] = op[k] /\ fresh'[k] = fresh[k]
      /\ UNCHANGED <<phase, cms, gcpc, greySlot, greyInfo, greyObj, pool>>
    BY UserEffect, KeptFacts, KeptFactsPrime DEF MarkInv, Standing, Threads, Effect, OtherEffect,
        gcVars
<1>2. /\ Root \subseteq Slot /\ Obj \subseteq Slot /\ Null \notin Slot /\ Coherent(op[m])
      /\ fresh[m] \in Obj \cup {Null} /\ op[m].dst \in Slot \cup {Null} /\ bit \in [Obj -> MarkStateBit]
    BY <1>1, Types DEF OpRecord, TypeInv, TypeOK
<1>3. freshState # other /\ other \notin {"REMAPPED", "DE_ALLOCATED"} /\ cms # other
    <2>1. cms \in {"REMAPPED", M0, M1} BY <1>1 DEF TypeInv, TypeOK, MarkState
    <2>2. M0 # M1 /\ M0 \notin {"DE_ALLOCATED", "REMAPPED"} /\ M1 \notin {"DE_ALLOCATED", "REMAPPED"}
        BY StateAssumption
    <2>3. QED BY <2>1, <2>2 DEF other, switchState, freshState
<1>4. SUFFICES ASSUME ~Marking
               PROVE  /\ gcpc # "sweep" => \A o \in Obj : bit'[o] # other
                      /\ \A s \in Root \cup Kept' : Nil(s)' \/ ims'[s] # other \/ Overwriting(s)'
    BY <1>1 DEF ColourInv, Marking, other, switchState
<1>5. ASSUME gcpc # "sweep", NEW o \in Obj PROVE bit'[o] # other
    BY <1>1, <1>2, <1>3, <1>4, <1>5 DEF ColourInv, Effect, OtherEffect
<1>6. ASSUME NEW s \in Root \cup Kept, ptr[s] # Null PROVE ims[s] # other \/ Overwriting(s)
    BY <1>1, <1>4, <1>6 DEF ColourInv, Nil
<1>7. op[m].src # Null /\ ptr[op[m].src] # Null => ims[op[m].src] # other /\ copiedState(op[m].src) # other
    <2>1. SUFFICES ASSUME op[m].src # Null, ptr[op[m].src] # Null PROVE ims[op[m].src] # other
        BY <1>3 DEF copiedState
    <2>2. op[m].dst # op[m].src BY <1>1, <2>1 DEF Thread, Owns
    <2>3. ~Overwriting(op[m].src) BY <1>1, <2>1, <2>2 DEF Disjoint, Overwriting
    <2>4. QED BY <1>6, <2>1, <2>3, OperandKept
<1>8. ASSUME NEW s \in Root \cup Kept', ptr'[s] # Null PROVE ims'[s] # other \/ Overwriting(s)'
    <2>1. s \in Slot BY <1>1, <1>2 DEF KeptRange
    <2>2. CASE At(m, "write") /\ s = op[m].dst /\ op'[m].pc # "write"
        <3>1. ptr'[s] = ptr[op[m].src] /\ op[m].src # Null /\ op[m].src # s
            BY <1>1, <1>2, <2>2 DEF Effect, OtherEffect, PtrWritten, Thread, Owns, Coherent, At
        <3>2. ims[s] # other BY <1>1, <1>4, <1>8, <2>2, <3>1 DEF Thread, Coloured, Nil
        <3>3. ims'[s] = ims[s] BY <1>1, <2>1, <2>2, <3>1 DEF Effect, ImsEffect, At, Operand
        <3>4. QED BY <3>2, <3>3
    <2>3. CASE At(m, "set") /\ s = op[m].dst
        <3>1. ims[s] # other BY <1>1, <1>2, <1>4, <2>3 DEF Thread, Coloured, Coherent, At, Makes
        <3>2. ims'[s] = ims[s] BY <1>1, <2>1, <2>3 DEF Effect, ImsEffect, At
        <3>3. QED BY <3>1, <3>2
    <2>4. CASE At(m, "fields") /\ s = fresh[m]
        <3>1. Nil(fresh[m]) BY <1>1, <2>4 DEF Thread, New
        <3>2. op[m].src # Null /\ ptr'[s] = ptr[op[m].src]
            BY <1>1, <1>8, <2>1, <2>4, <3>1 DEF Effect, PtrEffect, At, Nil
        <3>3. Continues(m) /\ op'[m].pc # "fields"
            <4>1. ~At(m, "idle") /\ ~Ends(m) BY <2>4 DEF At, Ends
            <4>2. Continues(m) BY <1>1, <4>1 DEF Effect, OpEffect
            <4>3. QED BY <1>8, <2>4, <3>1, <4>2 DEF Continues, Follows, At, Nil
        <3>4. ims' = [Healed(m) EXCEPT ![fresh[m]] = copiedState(op[m].src)]
            BY <2>4, <3>2, <3>3 DEF Continues, At
        <3>5. Healed(m) \in [Slot -> MarkState] BY <1>1, HealedType DEF TypeInv
        <3>6. ims'[s] = copiedState(op[m].src)
            <4> DEFINE h == Healed(m)
            <4>1. h \in [Slot -> MarkState] /\ ims' = [h EXCEPT ![fresh[m]] = copiedState(op[m].src)]
                BY <3>4, <3>5
            <4> HIDE DEF h
            <4>2. QED BY <2>1, <2>4, <4>1
        <3>7. QED BY <1>7, <1>8, <3>2, <3>6
    <2>5. CASE At(m, "inline") /\ s = op[m].dst
        <3>1. Continues(m)
            <4>1. ~At(m, "idle") /\ ~Ends(m) BY <2>5 DEF At, Ends
            <4>2. QED BY <1>1, <4>1 DEF Effect, OpEffect
        <3>2. op'[m].kind = "assign" /\ op'[m].dst = s /\ op'[m].pc = "write"
            BY <1>2, <2>5, <3>1 DEF Continues, Follows, At, Coherent
        <3>3. QED BY <3>2 DEF Overwriting, At
    <2>6. CASE /\ ~(At(m, "write") /\ s = op[m].dst /\ op'[m].pc # "write")
               /\ ~(At(m, "set") /\ s = op[m].dst) /\ ~(At(m, "fields") /\ s = fresh[m])
               /\ ~(At(m, "inline") /\ s = op[m].dst)
        <3>1. ptr'[s] = ptr[s]
            <4>1. At(m, "write") /\ op'[m].pc = "write" => ptr' = ptr
                <5>1. At(m, "write") /\ op'[m].pc = "write" => ~At(m, "idle") /\ ~Ends(m)
                    BY DEF At, Ends, NoOp
                <5>2. At(m, "write") /\ op'[m].pc = "write" => Continues(m)
                    BY <1>1, <5>1 DEF Effect, OpEffect
                <5>3. QED BY <5>2 DEF Continues, Follows, At
            <4>2. QED BY <1>1, <1>8, <2>1, <2>6, <4>1 DEF Effect, PtrEffect, At
        <3>2. s \in Root \cup Kept
            <4>1. CASE s \notin Root \cup Kept
                <5>1. s \in Obj \ Alloc BY <1>8, <4>1, <1>1, UserGrows DEF Unused, Alloc
                <5>2. QED BY <1>1, <1>8, <3>1, <5>1 DEF HeapInv, Nil
            <4>2. QED BY <4>1
        <3>3. s \notin Unbuilt BY <1>1, <1>8, <3>1 DEF Unbuilt, RootInv, Nil
        <3>4. ims'[s] \in {ims[s], "DE_ALLOCATED", "REMAPPED"}
            BY <1>1, <2>1, <2>6, <3>3 DEF Effect, ImsEffect
        <3>5. CASE Overwriting(s)
            <4>1. PICK k \in Mutator : op[k].kind = "assign" /\ op[k].dst = s /\ At(k, "write")
                BY <3>5 DEF Overwriting
            <4>2. CASE k = m
                <5>1. op'[m].pc = "write" BY <2>6, <4>1, <4>2
                <5>2. Continues(m)
                    <6>1. ~At(m, "idle") /\ ~Ends(m) BY <4>1, <4>2, <5>1 DEF At, Ends, NoOp
                    <6>2. QED BY <1>1, <6>1 DEF Effect, OpEffect
                <5>3. QED BY <4>1, <4>2, <5>1, <5>2 DEF Overwriting, At, Continues
            <4>3. CASE k # m BY <1>1, <4>1, <4>3 DEF Overwriting, At
            <4>4. QED BY <4>2, <4>3
        <3>6. CASE ~Overwriting(s) BY <1>3, <1>6, <1>8, <3>1, <3>2, <3>4, <3>6
        <3>7. QED BY <3>5, <3>6
    <2>7. QED BY <2>2, <2>3, <2>4, <2>5, <2>6
<1>9. QED BY <1>5, <1>8 DEF Nil

(* the safety of what marking will skip: a GCPtr that comes to carry the   *)
(* mark state of the cycle, or a new object, refers to a safe one,         *)
LEMMA UserSafeInv ==
    ASSUME MarkInv, Covered, TypeInv', NEW m \in Mutator, UserStep(m)
    PROVE  SafeInv'
<1>1. /\ TypeInv /\ Effect(m) /\ SafeInv /\ Thread(m) /\ PhaseInv /\ RootInv /\ PtrWritten(m) /\ Running(m)
      /\ \A k \in Mutator \ {m} : op'[k] = op[k] /\ fresh'[k] = fresh[k]
      /\ UNCHANGED <<phase, cms, gcpc, greySlot, greyInfo, greyObj, pool>>
      /\ (early' = early \/ (early' = early \ {m} /\ op'[m] = NoOp))
      /\ OpEffect(m)
    BY UserEffect DEF MarkInv, Standing, Threads, Effect, OtherEffect, gcVars
<1>2. /\ Root \subseteq Slot /\ Obj \subseteq Slot /\ Null \notin Slot /\ Coherent(op[m])
      /\ fresh[m] \in Obj \cup {Null} /\ op[m].dst \in Slot \cup {Null} /\ early \subseteq Mutator
    BY <1>1, Types DEF OpRecord, TypeInv, TypeOK
<1>3. SUFFICES ASSUME Marking, NEW s \in Slot, s \notin Going', ims'[s] = cms, ptr'[s] # Null
               PROVE  ptr'[s] \in Safe \/ ptr'[s] \in Safe'
    <2>1. Marking' <=> Marking BY <1>1 DEF Marking
    <2>2. Marking => Safe \subseteq Safe' BY <1>1, UserSafe
    <2>3. QED BY <1>1, <1>3, <2>1, <2>2 DEF SafeInv, Nil
<1>4. cms \notin {"REMAPPED", "DE_ALLOCATED"}
    BY <1>1, <1>3, StateAssumption DEF PhaseInv
<1>5. Marked \subseteq Safe /\ Pushed \subseteq Safe BY <1>1, SafeFacts DEF SafeClosed
<1>6. /\ At(m, "write") \/ At(m, "set") => ims'[op[m].dst] = ims[op[m].dst]
    BY <1>1, <1>2 DEF Thread, Owns, Effect, ImsEffect, At, Operand, Coherent
<1>7. At(m, "write") /\ s = op[m].dst /\ ptr'[s] = ptr[op[m].src] => ptr[op[m].src] \in Safe
    <2>1. SUFFICES ASSUME At(m, "write"), s = op[m].dst, ptr'[s] = ptr[op[m].src]
                   PROVE  ptr[op[m].src] \in Safe
        OBVIOUS
    <2>2. op[m].src # Null BY <1>2, <2>1 DEF Coherent, At
    <2>3. CASE m \notin early BY <1>3, <2>1, <2>2, <2>3, SourceSafe DEF Nil
    <2>4. CASE m \in early BY <1>1, <1>3, <1>6, <2>1, <2>4 DEF Thread, Early, Nil
    <2>5. QED BY <2>3, <2>4
<1>8. CASE ptr'[s] # ptr[s]
    <2>1. CASE At(m, "write") /\ s = op[m].dst /\ ptr'[s] = ptr[op[m].src]
        BY <1>7, <2>1
    <2>2. CASE At(m, "set") /\ s = op[m].dst /\ ptr'[s] = fresh[m]
        <3>1. m \notin early
            BY <1>1, <1>2, <1>3, <1>6, <2>2 DEF Thread, Early, Coherent, At, Makes
        <3>2. fresh[m] \in Marked BY <1>1, <1>3, <2>2, <3>1 DEF Thread, Stamped
        <3>3. QED BY <1>5, <2>2, <3>2
    <2>3. CASE At(m, "fields") /\ s = fresh[m] /\ op[m].src # Null /\ ptr'[s] = ptr[op[m].src]
        BY <1>3, <2>3, SourceSafe DEF At, Nil
    <2>4. QED BY <1>1, <1>3, <1>8, <2>1, <2>2, <2>3 DEF Effect, PtrEffect
<1>9. CASE ptr'[s] = ptr[s] /\ ims[s] = cms /\ s \notin Going
    BY <1>1, <1>3, <1>9 DEF SafeInv, Nil
<1>10. CASE ptr'[s] = ptr[s] /\ s \in Going
    <2>1. PICK k \in early : op[k].pc \in {"clear", "remove", "write"} /\ s = op[k].dst
        BY <1>10 DEF Going
    <2>2. k = m
        BY <1>1, <1>2, <1>3, <2>1 DEF Going
    <2>3. ~At(m, "idle") BY <2>1, <2>2 DEF At
    <2>4. op'[m].pc # op[m].pc
        <3>1. CASE Continues(m)
            <4>1. op'[m].dst = op[m].dst BY <3>1 DEF Continues
            <4>2. op'[m].pc # "idle" BY <3>1 DEF Continues, Follows
            <4>3. early' = early BY <1>1, <4>2 DEF NoOp
            <4>4. QED BY <1>3, <2>1, <2>2, <4>1, <4>3 DEF Going
        <3>2. CASE Ends(m) BY <2>1, <2>2, <3>2 DEF Ends, NoOp
        <3>3. QED BY <1>1, <2>3, <3>1, <3>2 DEF OpEffect
    <2>5. At(m, "write") /\ ptr'[s] = ptr[op[m].src]
        BY <1>1, <1>3, <2>1, <2>2, <2>4 DEF PtrWritten, At
    <2>6. QED BY <1>7, <2>1, <2>2, <2>5
<1>11. CASE ptr'[s] = ptr[s] /\ ims[s] # cms
    <2>1. ASSUME s \in Unbuilt PROVE FALSE BY <1>1, <1>3, <1>11, <2>1 DEF Unbuilt, RootInv, Nil
    <2>2. ASSUME At(m, "inline"), s = op[m].dst PROVE ptr[s] \in Safe
        <3>1. Barred
            BY <1>1, <1>3, <2>2, StoppedOps DEF Barred, Marking, StwHeld, At
        <3>2. QED BY <1>1, <1>3, <1>5, <1>11, <2>2, <3>1 DEF Thread, Barriered, Nil
    <2>3. ASSUME At(m, "fields"), s = fresh[m] PROVE FALSE
        BY <1>1, <1>3, <1>11, <2>3 DEF Thread, New, Nil, At
    <2>4. QED BY <1>1, <1>3, <1>4, <1>11, <2>1, <2>2, <2>3 DEF Effect, ImsEffect
<1>12. QED BY <1>8, <1>9, <1>10, <1>11

(* While the cycle marks, a GCPtr that carries its mark state keeps it or  *)
(* is cleared.                                                             *)
LEMMA KeepsCms ==
    ASSUME MarkInv, Covered, TypeInv', NEW m \in Mutator, UserStep(m), Marking,
           NEW s \in Slot, ims[s] = cms
    PROVE  ims'[s] = cms \/ ptr'[s] = Null
<1>1. /\ TypeInv /\ Effect(m) /\ Thread(m) /\ PhaseInv /\ PtrWritten(m) /\ Running(m)
    BY UserEffect DEF MarkInv, Standing, Threads, Effect, OtherEffect
<1>2. cms \notin {"REMAPPED", "DE_ALLOCATED"}
    BY <1>1, StateAssumption DEF PhaseInv
<1>3. ~StwHeld => duringMarking
    BY <1>1 DEF PhaseInv, Marking, Barred, StwHeld, duringMarking
<1>4. At(m, "inline") \/ At(m, "fields") => duringMarking
    BY <1>1, <1>3, StoppedOps DEF PhaseInv, At
<1>5. duringMarking => freshState = cms /\ \A t : copiedState(t) = cms
    BY DEF duringMarking, freshState, duringGC, copiedState
<1>6. s \notin Unbuilt BY <1>2 DEF Unbuilt
<1>7. ~(/\ op[m].heal = cms /\ op[m].heal # "none" /\ s = Operand(m)
        /\ (StwHeld => phase = "REMARK" \/ At(m, "fields")))
    <2>1. CASE m \in early BY <1>1, <2>1 DEF Thread, Early
    <2>2. CASE m \notin early
        <3>1. op[m].heal = cms => gcpc = "selected" BY <1>1, <2>2 DEF Thread, Stamped
        <3>2. QED BY <1>1, <3>1 DEF PhaseInv, StwHeld
    <2>3. QED BY <2>1, <2>2
<1>8. QED BY <1>1, <1>2, <1>4, <1>5, <1>6, <1>7 DEF Effect, ImsEffect, PtrWritten, At

(* While the cycle marks, a GCPtr that is given an object carries its mark *)
(* state, unless the operation began in the previous cycle.                *)
LEMMA WritesCms ==
    ASSUME MarkInv, Covered, TypeInv', NEW m \in Mutator, UserStep(m), Marking,
           NEW s \in Slot, ptr'[s] # ptr[s], ptr'[s] # Null
    PROVE  ims'[s] = cms \/ (m \in early /\ s = op[m].dst /\ ~At(m, "allocate"))
<1>1. /\ TypeInv /\ Effect(m) /\ Thread(m) /\ PhaseInv /\ OpEffect(m)
    BY UserEffect DEF MarkInv, Standing, Threads, Effect, OtherEffect
<1>2. /\ Coherent(op[m]) /\ op[m].dst \in Slot \cup {Null} /\ Null \notin Slot /\ fresh[m] \in Obj \cup {Null}
      /\ Obj \subseteq Slot /\ Root \subseteq Slot
    BY <1>1, Types DEF OpRecord
<1>3. At(m, "write") \/ At(m, "set") => ims'[op[m].dst] = ims[op[m].dst]
    BY <1>1, <1>2 DEF Thread, Owns, Effect, ImsEffect, At, Operand, Coherent
<1>4. CASE At(m, "write") /\ s = op[m].dst /\ ptr'[s] = ptr[op[m].src]
    BY <1>1, <1>2, <1>3, <1>4 DEF Thread, Stamped, Nil, Coherent, At, Copies
<1>5. CASE At(m, "set") /\ s = op[m].dst
    BY <1>1, <1>2, <1>3, <1>5 DEF Thread, Stamped, Coherent, At, Makes
<1>6. CASE At(m, "fields") /\ s = fresh[m] /\ op[m].src # Null
    <2>1. copiedState(op[m].src) = cms
        BY <1>1, <1>6 DEF PhaseInv, Marking, Barred, StwHeld, copiedState, duringMarking, At
    <2>2. Continues(m)
        <3>1. ~At(m, "idle") /\ ~Ends(m) BY <1>6 DEF At, Ends
        <3>2. QED BY <1>1, <3>1 DEF OpEffect
    <2>3. ims' = [Healed(m) EXCEPT ![fresh[m]] = cms]
        BY <1>6, <2>1, <2>2 DEF Continues, Follows, At
    <2> DEFINE h == Healed(m)
    <2>4. h \in [Slot -> MarkState] /\ ims' = [h EXCEPT ![fresh[m]] = cms]
        BY <1>1, <2>3, HealedType DEF TypeInv
    <2> HIDE DEF h
    <2>5. QED BY <1>6, <2>4
<1>7. QED BY <1>1, <1>4, <1>5, <1>6 DEF Effect, PtrEffect

(* and the visits owed.                                                    *)
LEMMA UserPending ==
    ASSUME MarkInv, Covered, TypeInv', NEW m \in Mutator, UserStep(m)
    PROVE  PendingInv'
<1>1. /\ TypeInv /\ Effect(m) /\ Thread(m) /\ PhaseInv /\ PendingInv /\ HeapInv
      /\ UNCHANGED <<phase, cms, gcpc, greySlot, greyInfo, greyObj, pool>>
    BY UserEffect DEF MarkInv, Standing, Threads, Effect, OtherEffect, gcVars
<1>2. Marked \subseteq Obj /\ Obj \subseteq Slot /\ Root \subseteq Slot BY <1>1, Types
<1>3. SUFFICES ASSUME Marking PROVE PendingInv'
    BY <1>1 DEF PendingInv, Marking
<1>4. ASSUME NEW s \in Slot, s \in Marked' \/ (Visiting /\ s \in Root), ptr'[s] # Null
      PROVE  ims'[s] = cms \/ s \in greySlot \/ <<s, ptr'[s]>> \in greyInfo
    <2>1. CASE ptr'[s] # ptr[s]
        <3>1. ASSUME m \in early, s = op[m].dst, ~At(m, "allocate") PROVE FALSE
            BY <1>1, <1>4, <3>1, UserGrows DEF Thread, Early, PhaseInv, Visiting
        <3>2. QED BY <1>3, <1>4, <2>1, <3>1, WritesCms
    <2>2. CASE ptr'[s] = ptr[s]
        <3>1. s \in Marked \/ (Visiting /\ s \in Root)
            <4>1. SUFFICES ASSUME s \in Marked', s \notin Marked PROVE FALSE BY <1>4
            <4>2. s \in Unused BY <1>1, <4>1, UserGrows
            <4>3. QED BY <1>1, <1>4, <2>2, <4>2 DEF Unused, HeapInv, Alloc, Nil
        <3>2. QED BY <1>1, <1>3, <1>4, <2>2, <3>1, KeepsCms DEF PendingInv, Nil
    <2>3. QED BY <2>1, <2>2
<1>5. ASSUME NEW e \in greyInfo PROVE ims'[e[1]] = cms \/ ptr'[e[1]] \in {e[2], Null}
    <2>1. e[1] \in Slot BY <1>1 DEF TypeInv, TypeOK
    <2>2. m \notin early BY <1>1 DEF PhaseInv
    <2>3. QED BY <1>1, <1>3, <2>1, <2>2, KeepsCms, WritesCms DEF PendingInv
<1>6. QED BY <1>1, <1>3, <1>4, <1>5 DEF PendingInv, Nil, Visiting

(* A step of a user thread preserves the invariant.                        *)
LEMMA UserInv ==
    ASSUME MarkInv, Covered, NEW m \in Mutator, UserStep(m)
    PROVE  MarkInv'
<1>1. TypeInv /\ DrainIndex BY DEF MarkInv, Standing
<1>2. TypeInv' BY <1>1, StartType, MutatorType DEF UserStep
<1>3. DrainIndex' BY <1>1, UserStepGC DEF DrainIndex, gcVars, UserStep
<1>4. Effect(m) BY <1>1, UserEffect
<1>5. PhaseInv' BY <1>2, <1>4, UserPhase
<1>6. Threads' /\ Disjoint' BY <1>2, UserThreads
<1>7. RootInv' /\ HeapInv' /\ ColourInv' /\ SafeInv' /\ PendingInv' /\ DoomedInv'
    BY <1>2, UserRoot, UserHeap, UserColour, UserSafeInv, UserPending, UserDoomed
<1>8. QED BY <1>2, <1>3, <1>5, <1>6, <1>7 DEF MarkInv, Standing

-----------------------------------------------------------------------------
(* The GC thread. *)
(* A step of the GC thread that moves the cycle on and leaves the heap and *)
(* the marks as they are.                                                  *)
LEMMA MarkingStep ==
    ASSUME MarkInv, TypeInv', Marking, Marking',
           UNCHANGED <<heapVars, opVars, cms, early, doomed, greyInfo>>,
           greyObj \subseteq greyObj', greyObj' \subseteq greyObj \cup Pushed,
           greySlot' \subseteq greySlot \cup rootset,
           Barred' => Barred, gcpc = "selected" => gcpc' = "selected"
    PROVE  Standing'
<1>1. /\ TypeInv /\ Disjoint /\ RootInv /\ HeapInv /\ SafeInv /\ DoomedInv
      /\ UNCHANGED <<ptr, ims, bit, rootset, satb, op, fresh, cms, early, doomed, greyInfo>>
    BY DEF MarkInv, Standing, heapVars, opVars
<1>2. /\ Pushed' = Pushed /\ Alloc' = Alloc /\ Marked' = Marked /\ Kept' = Kept /\ Going' = Going
      /\ White' = White
    BY <1>1 DEF Pushed, Alloc, Marked, Kept, Marking, Going, White
<1>3. Safe' = Safe
    <2>1. Base' = Base BY <1>1, <1>2 DEF Base, Targets
    <2>2. ASSUME NEW C \in SUBSET Obj PROVE Keeps(C)' <=> Keeps(C)
        BY <1>1, <1>2, <2>1 DEF Keeps, Targets
    <2>3. QED BY <2>2 DEF Safe
<1>4. /\ rootset \subseteq Root /\ Root \cap Obj = {} /\ doomed \subseteq Obj
      /\ fresh \in [Mutator -> Obj \cup {Null}] /\ Null \notin Obj
    BY <1>1, SlotAssumption, NullAssumption DEF TypeInv, TypeOK
<1>5. ASSUME NEW m \in Mutator PROVE Thread(m)'
    <2>1. Thread(m) BY DEF MarkInv, Standing, Threads
    <2>2. Owns(m)' BY <1>1, <2>1 DEF Thread, Owns, At, Operand, Nil
    <2>3. Builds(m)' BY <1>1, <2>1 DEF Thread, Builds, At, Nil
    <2>4. New(m)' BY <1>1, <1>2, <1>4, <2>1 DEF Thread, New, At, Nil
    <2>5. Barriered(m)' BY <1>1, <1>2, <2>1 DEF Thread, Barriered, At, Nil
    <2>6. Stamped(m)' BY <1>1, <1>2, <2>1 DEF Thread, Stamped, At, Nil
    <2>7. Early(m)' BY <1>1, <1>2, <1>3, <2>1 DEF Thread, Early, At, Operand, Nil
    <2>8. Coloured(m)' BY DEF Coloured
    <2>9. QED BY <2>2, <2>3, <2>4, <2>5, <2>6, <2>7, <2>8 DEF Thread
<1>6. Disjoint' BY <1>1 DEF Disjoint
<1>7. RootInv' BY <1>1 DEF RootInv, Nil, At
<1>8. HeapInv' BY <1>1, <1>2, <1>4 DEF HeapInv, Nil, At
<1>9. ColourInv' /\ SafeInv' BY <1>1, <1>2, <1>3 DEF ColourInv, SafeInv, Nil
<1>10. DoomedInv' BY <1>1, <1>2, <1>4 DEF DoomedInv
<1>11. QED BY <1>5, <1>6, <1>7, <1>8, <1>9, <1>10 DEF Threads, Standing

(* The root scan begins: a root that is not registered yet was copied in   *)
(* this cycle, so it is stamped.                                           *)
LEMMA BeginMarkInv ==
    ASSUME MarkInv, Covered, TypeInv', BeginMark
    PROVE  Standing' /\ PhaseInv' /\ PendingInv'
<1>1. /\ TypeInv /\ PhaseInv /\ PendingInv /\ RootInv /\ early = {} /\ gcpc = "sleep"
      /\ gcpc' = "roots" /\ greySlot' = rootset /\ greySlot = {} /\ greyInfo = {} /\ greyObj = {}
      /\ UNCHANGED <<phase, cms, ptr, ims, bit, rootset, satb, op, fresh, greyInfo, greyObj, pool, early, doomed>>
    BY DEF MarkInv, Standing, BeginMark, GCStep, Covered, heapVars, opVars, PhaseInv
<1>2. Standing'
    <2>1. UNCHANGED <<heapVars, opVars, cms, early, doomed, greyInfo>> BY <1>1 DEF heapVars, opVars
    <2>2. /\ Marking /\ Marking' /\ (Barred' => Barred) /\ (gcpc = "selected" => gcpc' = "selected")
          /\ greySlot' \subseteq greySlot \cup rootset /\ greyObj \subseteq greyObj' /\ greyObj' \subseteq greyObj \cup Pushed
        BY <1>1 DEF Marking, Barred
    <2>3. QED BY <2>1, <2>2, MarkingStep
<1>3. PhaseInv' BY <1>1 DEF PhaseInv, Barred, Marking, StwHeld
<1>4. ASSUME NEW r \in Root, ~Nil(r), r \notin rootset PROVE ims[r] = cms
    <2>1. PICK m \in Mutator : op[m].kind \in Copies /\ At(m, "addRoot") /\ op[m].dst = r
        BY <1>1, <1>4 DEF RootInv
    <2>2. Stamped(m) /\ Marking BY <1>1 DEF MarkInv, Standing, Threads, Thread, Marking
    <2>3. QED BY <1>1, <1>4, <2>1, <2>2 DEF Stamped
<1>5. PendingInv' BY <1>1, <1>4 DEF PendingInv, Marking, Visiting, Nil, Marked
<1>6. QED BY <1>2, <1>3, <1>5

(* Every root has been visited: all are stamped.                           *)
LEMMA EndRootsInv ==
    ASSUME MarkInv, TypeInv', EndRoots
    PROVE  Standing' /\ PhaseInv' /\ PendingInv'
<1>1. /\ PhaseInv /\ PendingInv /\ early = {} /\ gcpc = "roots" /\ gcpc' = "mark" /\ greySlot = {} /\ greyInfo = {}
      /\ UNCHANGED <<phase, cms, ptr, ims, bit, rootset, satb, op, fresh, greySlot, greyInfo, greyObj, pool, early, doomed>>
    BY DEF MarkInv, Standing, EndRoots, GCStep, Visited, heapVars, opVars, PhaseInv
<1>2. Standing'
    <2>1. UNCHANGED <<heapVars, opVars, cms, early, doomed, greyInfo>> BY <1>1 DEF heapVars, opVars
    <2>2. /\ Marking /\ Marking' /\ (Barred' => Barred) /\ (gcpc = "selected" => gcpc' = "selected")
          /\ greySlot' \subseteq greySlot \cup rootset /\ greyObj \subseteq greyObj' /\ greyObj' \subseteq greyObj \cup Pushed
        BY <1>1 DEF Marking, Barred
    <2>3. QED BY <2>1, <2>2, MarkingStep
<1>3. PhaseInv' BY <1>1 DEF PhaseInv, Barred, Marking, StwHeld
<1>4. PendingInv' BY <1>1 DEF PendingInv, Marking, Visiting, Nil, Marked
<1>5. QED BY <1>2, <1>3, <1>4

(* The world stops between two critical sections.                          *)
LEMMA StopInv ==
    ASSUME MarkInv, TypeInv', StopTheWorld
    PROVE  Standing' /\ PhaseInv' /\ PendingInv'
<1>1. /\ PhaseInv /\ PendingInv /\ early = {} /\ gcpc = "mark" /\ gcpc' = "remark" /\ phase' = "REMARK" /\ pool' = 1
      /\ greySlot = {} /\ greyInfo = {} /\ greyObj = {} /\ \A m \in Mutator : ~InCritical(m)
      /\ UNCHANGED <<cms, ptr, ims, bit, rootset, satb, op, fresh, greySlot, greyInfo, greyObj, early, doomed>>
    BY DEF MarkInv, Standing, StopTheWorld, GCStep, Visited, heapVars, opVars, PhaseInv
<1>2. Standing'
    <2>1. UNCHANGED <<heapVars, opVars, cms, early, doomed, greyInfo>> BY <1>1 DEF heapVars, opVars
    <2>2. /\ Marking /\ Marking' /\ (Barred' => Barred) /\ (gcpc = "selected" => gcpc' = "selected")
          /\ greySlot' \subseteq greySlot \cup rootset /\ greyObj \subseteq greyObj' /\ greyObj' \subseteq greyObj \cup Pushed
        BY <1>1 DEF Marking, Barred
    <2>3. QED BY <2>1, <2>2, MarkingStep
<1>3. PhaseInv' BY <1>1 DEF PhaseInv, Barred, Marking, StwHeld, InCritical, At
<1>4. PendingInv' BY <1>1 DEF PendingInv, Marking, Visiting, Nil, Marked
<1>5. QED BY <1>2, <1>3, <1>4

(* The queue to drain is the first that is not empty.                      *)
LEMMA DrainInv ==
    ASSUME MarkInv, TypeInv', DrainPool
    PROVE  Standing' /\ PhaseInv' /\ PendingInv'
<1>1. /\ PhaseInv /\ PendingInv /\ DrainIndex /\ early = {} /\ gcpc = "remark" /\ gcpc' = "drain"
      /\ greySlot = {} /\ greyInfo = {} /\ greyObj = {}
      /\ UNCHANGED <<phase, cms, ptr, ims, bit, rootset, satb, op, fresh, greySlot, greyInfo, early, doomed>>
    BY DEF MarkInv, Standing, DrainPool, GCStep, Visited, heapVars, opVars, PhaseInv
<1>2. PICK i \in NonEmpty : (\A j \in NonEmpty : i <= j) /\ pool' = i /\ greyObj' = satb[i]
    BY DEF DrainPool
<1>3. pool \in 1..(PoolCount + 1) /\ PoolCount \in Nat BY <1>1, PoolAssumption DEF DrainIndex
<1>4. i \in 1..PoolCount BY <1>3 DEF NonEmpty
<1>5. Standing'
    <2>1. UNCHANGED <<heapVars, opVars, cms, early, doomed, greyInfo>> BY <1>1 DEF heapVars, opVars
    <2>2. /\ Marking /\ Marking' /\ (Barred' => Barred) /\ (gcpc = "selected" => gcpc' = "selected")
          /\ greySlot' \subseteq greySlot \cup rootset /\ greyObj \subseteq greyObj'
        BY <1>1 DEF Marking, Barred
    <2>3. greyObj' \subseteq greyObj \cup Pushed BY <1>2, <1>4 DEF Pushed
    <2>4. QED BY <2>1, <2>2, <2>3, MarkingStep
<1>6. \A j \in 1..PoolCount : j < i => satb[j] = {}
    BY <1>1, <1>2, <1>3, <1>4 DEF PhaseInv, NonEmpty
<1>7. PhaseInv' BY <1>1, <1>2, <1>6 DEF PhaseInv, Barred, Marking, StwHeld, At
<1>8. PendingInv' BY <1>1 DEF PendingInv, Marking, Visiting, Nil, Marked
<1>9. QED BY <1>5, <1>7, <1>8

(* All queues are empty, so that nothing is owed.                          *)
LEMMA SelectInv ==
    ASSUME MarkInv, TypeInv', selectRelocationSet
    PROVE  Standing' /\ PhaseInv' /\ PendingInv'
<1>1. /\ PhaseInv /\ PendingInv /\ DrainIndex /\ early = {} /\ gcpc = "remark" /\ gcpc' = "selected"
      /\ phase' = "SWEEP" /\ NonEmpty = {}
      /\ greySlot = {} /\ greyInfo = {} /\ greyObj = {}
      /\ UNCHANGED <<cms, ptr, ims, bit, rootset, satb, op, fresh, greySlot, greyInfo, greyObj, early, doomed>>
    BY DEF MarkInv, Standing, selectRelocationSet, GCStep, Visited, heapVars, opVars, PhaseInv
<1>2. pool \in 1..(PoolCount + 1) /\ PoolCount \in Nat BY <1>1, PoolAssumption DEF DrainIndex
<1>3. Standing'
    <2>1. UNCHANGED <<heapVars, opVars, cms, early, doomed, greyInfo>> BY <1>1 DEF heapVars, opVars
    <2>2. /\ Marking /\ Marking' /\ (Barred' => Barred) /\ (gcpc = "selected" => gcpc' = "selected")
          /\ greySlot' \subseteq greySlot \cup rootset /\ greyObj \subseteq greyObj' /\ greyObj' \subseteq greyObj \cup Pushed
        BY <1>1 DEF Marking, Barred
    <2>3. QED BY <2>1, <2>2, MarkingStep
<1>4. \A j \in 1..PoolCount : satb[j] = {} BY <1>1, <1>2 DEF PhaseInv, NonEmpty
<1>5. Pushed' = {} BY <1>1, <1>4 DEF Pushed
<1>6. PhaseInv' BY <1>1, <1>5 DEF PhaseInv, Barred, Marking, StwHeld, At
<1>7. PendingInv' BY <1>1 DEF PendingInv, Marking, Visiting, Nil, Marked
<1>8. QED BY <1>3, <1>6, <1>7

(* A visited slot is owed a stamp instead of a visit.                      *)
LEMMA VisitInv ==
    ASSUME MarkInv, TypeInv', NEW s \in Slot, VisitSlot(s)
    PROVE  Standing' /\ PhaseInv' /\ PendingInv'
<1>1. /\ TypeInv /\ PhaseInv /\ PendingInv /\ Disjoint /\ RootInv /\ HeapInv /\ SafeInv /\ DoomedInv /\ Threads
      /\ early = {} /\ gcpc \in {"roots", "mark", "drain"} /\ duringMarking
      /\ s \in greySlot /\ greySlot' = greySlot \ {s}
      /\ UNCHANGED <<phase, cms, ptr, bit, rootset, satb, op, fresh, gcpc, greyObj, pool, early, doomed>>
    BY DEF MarkInv, Standing, VisitSlot, GCStep, opVars, PhaseInv, Barred, duringMarking
<1>2. \/ (ims[s] = "DE_ALLOCATED" \/ Nil(s)) /\ ims' = ims /\ greyInfo' = greyInfo
      \/ /\ ~Nil(s) /\ greyInfo' = greyInfo \cup {<<s, ptr[s]>>}
         /\ ims' = ims \/ (ims' = [ims EXCEPT ![s] = "REMAPPED"] /\ ims[s] # cms)
    BY <1>1 DEF VisitSlot, needHeal, Nil
<1>3. /\ cms \notin {"REMAPPED", "DE_ALLOCATED"} /\ ims \in [Slot -> MarkState] /\ Root \subseteq Slot /\ Obj \subseteq Slot
      /\ Root \cap Obj = {} /\ Null \notin Slot /\ doomed \subseteq Obj
      /\ ptr \in [Slot -> Obj \cup {Null}]
    BY <1>1, Types, SlotAssumption, StateAssumption DEF PhaseInv, TypeInv, TypeOK, Marking
<1>4. /\ \A t \in Slot : ims'[t] = cms <=> ims[t] = cms
      /\ \A t \in Slot : ims'[t] = "DE_ALLOCATED" => ims[t] = "DE_ALLOCATED"
    BY <1>2, <1>3
<1>5. /\ Pushed' = Pushed /\ Alloc' = Alloc /\ Marked' = Marked /\ Kept' = Kept /\ Kept = Alloc /\ Going' = Going
      /\ White' = White /\ Marking /\ Marking'
    BY <1>1, <1>4 DEF Pushed, Alloc, Marked, Kept, Marking, Going, White
<1>6. Safe' = Safe
    <2>1. Base' = Base BY <1>1, <1>5 DEF Base, Targets
    <2>2. ASSUME NEW C \in SUBSET Obj PROVE Keeps(C)' <=> Keeps(C)
        BY <1>1, <1>5, <2>1 DEF Keeps, Targets
    <2>3. QED BY <2>2 DEF Safe
<1>7. s \in Root \cup Alloc /\ s \notin doomed /\ \A m \in Mutator : fresh[m] # Null => fresh[m] # s /\ fresh[m] # ptr[s]
    <2>1. s \in Root \cup Alloc BY <1>1 DEF HeapInv, Slot
    <2>2. QED BY <1>1, <1>5, <2>1 DEF DoomedInv, Threads, Thread, New
<1>8. greyInfo \subseteq greyInfo' /\ greyInfo' \subseteq greyInfo \cup {<<s, ptr[s]>>}
      /\ (greyInfo' # greyInfo => ~Nil(s))
    BY <1>2
<1>9. ASSUME NEW m \in Mutator PROVE Thread(m)'
    <2>1. Thread(m) BY <1>1 DEF Threads
    <2>t. op[m].dst \in Slot \cup {Null} /\ (op[m].kind \in {"assign"} \cup Copies \cup Makes => op[m].dst \in Slot)
        BY <1>1, <1>3, Types DEF OpRecord, Coherent, Copies, Makes
    <2>2. Owns(m)' BY <1>1, <2>1 DEF Thread, Owns, At, Operand, Nil
    <2>3. Builds(m)' BY <1>1, <1>4, <2>1, <2>t DEF Thread, Builds, At, Nil
    <2>4. New(m)' BY <1>1, <1>5, <1>7, <1>8, <2>1 DEF Thread, New, At, Nil
    <2>5. Barriered(m)' BY <1>1, <1>5, <2>1 DEF Thread, Barriered, At, Nil, Barred
    <2>6. Stamped(m)' BY <1>1, <1>4, <1>5, <2>1, <2>t DEF Thread, Stamped, At, Nil
    <2>7. Early(m)' BY <1>1 DEF Early
    <2>8. Coloured(m)' BY <1>5 DEF Coloured
    <2>9. QED BY <2>2, <2>3, <2>4, <2>5, <2>6, <2>7, <2>8 DEF Thread
<1>10. Disjoint' BY <1>1 DEF Disjoint
<1>11. RootInv' BY <1>1, <1>2, <1>3, <1>4 DEF RootInv, Nil, At, TypeInv, TypeOK
<1>12. HeapInv' 
    <2>1. \A e \in greyInfo' : e[2] \in Alloc /\ e[1] \in Root \cup Alloc
        BY <1>1, <1>5, <1>7, <1>8 DEF HeapInv, Nil
    <2>2. Alloc \subseteq Slot BY <1>3 DEF Alloc
    <2>3. QED BY <1>1, <1>4, <1>5, <2>1, <2>2 DEF HeapInv, Nil, At
<1>13. ColourInv' /\ SafeInv' BY <1>1, <1>4, <1>5, <1>6 DEF ColourInv, SafeInv, Nil
<1>14. DoomedInv' 
    <2>1. \A e \in greyInfo' : e[2] \notin doomed BY <1>1, <1>7, <1>8 DEF DoomedInv
    <2>2. QED BY <1>1, <1>5, <2>1 DEF DoomedInv
<1>15. PhaseInv' BY <1>1, <1>5 DEF PhaseInv, Barred, Marking, StwHeld, At
<1>16. PendingInv'
    <2>1. ims[s] = "DE_ALLOCATED" => Nil(s)
        <3>1. \A m \in Mutator : At(m, "fields") => fresh[m] # s
            BY <1>1, <1>7 DEF Threads, Thread, New, At
        <3>2. QED BY <1>1, <1>7, <3>1 DEF RootInv, HeapInv
    <2>2. ASSUME NEW t \in Slot, t \in Marked \/ (Visiting /\ t \in Root), ~Nil(t)
          PROVE  ims'[t] = cms \/ t \in greySlot' \/ <<t, ptr[t]>> \in greyInfo'
        <3>1. ims[t] = cms \/ t \in greySlot \/ <<t, ptr[t]>> \in greyInfo
            BY <1>1, <1>5, <2>2 DEF PendingInv
        <3>2. QED BY <1>1, <1>2, <1>4, <1>8, <2>1, <2>2, <3>1
    <2>3. \A e \in greyInfo' : ims'[e[1]] = cms \/ ptr[e[1]] \in {e[2], Null}
        <3>1. \A e \in greyInfo : e[1] \in Slot BY <1>1 DEF TypeInv, TypeOK
        <3>2. QED BY <1>1, <1>4, <1>5, <1>8, <3>1 DEF PendingInv
    <2>4. gcpc # "roots" => greySlot' \cap Root = {} /\ \A e \in greyInfo' : e[1] \notin Root
        BY <1>1, <1>5, <1>8 DEF PendingInv
    <2>5. QED BY <1>1, <1>5, <2>2, <2>3, <2>4 DEF PendingInv, Visiting, Nil
<1>17. QED BY <1>9, <1>10, <1>11, <1>12, <1>13, <1>14, <1>15, <1>16 DEF Standing, Threads

(* A slot that is stamped leaves the chains Safe follows, but the object   *)
(* it referred to is owed a mark.                                          *)
LEMMA MarkSlotInv ==
    ASSUME MarkInv, TypeInv', NEW s \in Slot, NEW o \in Obj, MarkSlot(s, o)
    PROVE  Standing' /\ PhaseInv' /\ PendingInv'
<1>1. /\ TypeInv /\ PhaseInv /\ PendingInv /\ Disjoint /\ RootInv /\ HeapInv /\ SafeInv /\ DoomedInv /\ Threads
      /\ early = {} /\ gcpc \in {"roots", "mark", "drain"}
      /\ <<s, o>> \in greyInfo /\ greyInfo' = greyInfo \ {<<s, o>>}
      /\ UNCHANGED <<phase, cms, ptr, bit, rootset, satb, op, fresh, gcpc, greySlot, pool, early, doomed>>
    BY DEF MarkInv, Standing, MarkSlot, GCStep, opVars, PhaseInv
<1>2. \/ ims[s] = cms /\ ims' = ims /\ greyObj' = greyObj
      \/ ims[s] # cms /\ ims' = [ims EXCEPT ![s] = cms] /\ greyObj' = greyObj \cup {o}
    BY <1>1 DEF MarkSlot
<1>3. /\ cms \notin {"REMAPPED", "DE_ALLOCATED"} /\ ims \in [Slot -> MarkState] /\ Root \subseteq Slot /\ Obj \subseteq Slot
      /\ Root \cap Obj = {} /\ Null \notin Slot /\ doomed \subseteq Obj
    BY <1>1, Types, SlotAssumption, StateAssumption DEF PhaseInv, TypeInv, TypeOK, Marking
<1>4. /\ ims'[s] = cms /\ (\A t \in Slot \ {s} : ims'[t] = ims[t])
      /\ greyObj \subseteq greyObj' /\ greyObj' \subseteq greyObj \cup {o}
      /\ ims[s] # cms => ptr[s] \in {o, Null} /\ o \in greyObj'
      /\ o \in Alloc /\ o \notin doomed /\ \A m \in Mutator : fresh[m] # o
    <2>1. ims[s] # cms => ptr[s] \in {o, Null} BY <1>1 DEF PendingInv, Marking
    <2>2. o \in Alloc /\ o \notin doomed BY <1>1 DEF HeapInv, DoomedInv
    <2>3. \A m \in Mutator : fresh[m] # o BY <1>1, <1>3 DEF Threads, Thread, New
    <2>4. QED BY <1>2, <1>3, <2>1, <2>2, <2>3
<1>5. /\ Pushed' = Pushed /\ Alloc' = Alloc /\ Marked' = Marked /\ Kept' = Kept /\ Kept = Alloc
      /\ Going = {} /\ Going' = {} /\ Marking /\ Marking'
    BY <1>1 DEF Pushed, Alloc, Marked, Kept, Marking, Going
<1>6. Safe \subseteq Safe' /\ greyObj' \subseteq Safe'
    <2>1. Marked \cup greyObj \cup Pushed \subseteq Safe' /\ greyObj' \subseteq Safe'
        BY <1>4, <1>5, SafeFactsPrime DEF SafeClosed
    <2>2. \A t \in White : Nil(t) \/ ptr[t] \in Safe' \/ (t \in White' /\ ptr'[t] = ptr[t])
        BY <1>1, <1>4, <1>5, <2>1 DEF White, Nil
    <2>3. QED BY <1>1, <2>1, <2>2, SafeGrows
<1>7. SafeInv'
    <2>1. SUFFICES ASSUME NEW t \in Slot, ims'[t] = cms, ~Nil(t) PROVE ptr[t] \in Safe'
        BY <1>1, <1>5 DEF SafeInv, Nil
    <2>2. CASE ims[t] = cms BY <1>1, <1>5, <1>6, <2>1, <2>2 DEF SafeInv
    <2>3. CASE ims[t] # cms BY <1>4, <1>6, <2>1, <2>3 DEF Nil
    <2>4. QED BY <2>2, <2>3
<1>9. ASSUME NEW m \in Mutator PROVE Thread(m)'
    <2>1. Thread(m) BY <1>1 DEF Threads
    <2>t. op[m].dst \in Slot \cup {Null} /\ (op[m].kind \in {"assign"} \cup Copies \cup Makes => op[m].dst \in Slot)
        BY <1>1, <1>3, Types DEF OpRecord, Coherent, Copies, Makes
    <2>2. Owns(m)' BY <1>1, <2>1 DEF Thread, Owns, At, Operand, Nil
    <2>3. Builds(m)' BY <1>1, <1>3, <1>4, <2>1, <2>t DEF Thread, Builds, At, Nil
    <2>4. New(m)' BY <1>1, <1>4, <1>5, <2>1 DEF Thread, New, At, Nil
    <2>5. Barriered(m)' BY <1>1, <1>5, <2>1 DEF Thread, Barriered, At, Nil, Barred
    <2>6. Stamped(m)' BY <1>1, <1>4, <1>5, <2>1, <2>t DEF Thread, Stamped, At, Nil
    <2>7. Early(m)' BY <1>1 DEF Early
    <2>8. Coloured(m)' BY <1>5 DEF Coloured
    <2>9. QED BY <2>2, <2>3, <2>4, <2>5, <2>6, <2>7, <2>8 DEF Thread
<1>10. Disjoint' BY <1>1 DEF Disjoint
<1>11. RootInv' BY <1>1, <1>3, <1>4 DEF RootInv, Nil, At, TypeInv, TypeOK
<1>12. HeapInv'
    <2>1. Alloc \subseteq Slot BY <1>3 DEF Alloc
    <2>2. QED BY <1>1, <1>3, <1>4, <1>5, <2>1 DEF HeapInv, Nil, At
<1>13. ColourInv' BY <1>5 DEF ColourInv
<1>14. DoomedInv' BY <1>1, <1>4, <1>5 DEF DoomedInv
<1>15. PhaseInv' BY <1>1, <1>4, <1>5 DEF PhaseInv, Barred, Marking, StwHeld, At
<1>16. PendingInv'
    <2>1. \A t \in Slot : ims[t] = cms => ims'[t] = cms BY <1>4
    <2>2. ASSUME NEW t \in Slot, t \in Marked \/ (Visiting /\ t \in Root), ~Nil(t)
          PROVE  ims'[t] = cms \/ t \in greySlot \/ <<t, ptr[t]>> \in greyInfo'
        <3>1. ims[t] = cms \/ t \in greySlot \/ <<t, ptr[t]>> \in greyInfo
            BY <1>1, <1>5, <2>2 DEF PendingInv
        <3>2. QED BY <1>1, <1>4, <2>1, <3>1
    <2>3. \A e \in greyInfo' : ims'[e[1]] = cms \/ ptr[e[1]] \in {e[2], Null}
        <3>1. \A e \in greyInfo : e[1] \in Slot BY <1>1 DEF TypeInv, TypeOK
        <3>2. QED BY <1>1, <1>5, <2>1, <3>1 DEF PendingInv
    <2>4. gcpc # "roots" => greySlot' \cap Root = {} /\ \A e \in greyInfo' : e[1] \notin Root
        BY <1>1, <1>5 DEF PendingInv
    <2>5. QED BY <1>1, <1>5, <2>2, <2>3, <2>4 DEF PendingInv, Visiting, Nil
<1>17. QED BY <1>7, <1>9, <1>10, <1>11, <1>12, <1>13, <1>14, <1>15, <1>16 DEF Standing, Threads

(* An object that is marked is owed a visit of its field.                  *)
LEMMA MarkObjectInv ==
    ASSUME MarkInv, TypeInv', NEW o \in Obj, MarkObject(o)
    PROVE  Standing' /\ PhaseInv' /\ PendingInv'
<1>1. /\ TypeInv /\ PhaseInv /\ PendingInv /\ Disjoint /\ RootInv /\ HeapInv /\ SafeInv /\ DoomedInv /\ Threads
      /\ early = {} /\ gcpc \in {"mark", "drain"} /\ o \in greyObj /\ greyObj' = greyObj \ {o}
      /\ UNCHANGED <<phase, cms, ptr, ims, rootset, satb, op, fresh, gcpc, greyInfo, pool, early, doomed>>
    BY DEF MarkInv, Standing, MarkObject, GCStep, opVars, PhaseInv
<1>2. \/ bit[o] = cms /\ bit' = bit /\ greySlot' = greySlot
      \/ bit' = [bit EXCEPT ![o] = cms] /\ greySlot' = greySlot \cup {o}
    BY <1>1 DEF MarkObject
<1>3. /\ cms # "NOT_ALLOCATED" /\ bit \in [Obj -> MarkStateBit] /\ Root \subseteq Slot /\ Obj \subseteq Slot
      /\ Root \cap Obj = {} /\ Null \notin Slot /\ doomed \subseteq Obj
    BY <1>1, Types, SlotAssumption, StateAssumption DEF PhaseInv, TypeInv, TypeOK, Marking
<1>4. o \in Alloc /\ o \notin doomed /\ \A m \in Mutator : fresh[m] # o
    <2>1. o \in Alloc BY <1>1 DEF HeapInv, Kept, Alloc
    <2>2. QED BY <1>1, <1>3, <2>1 DEF DoomedInv, Threads, Thread, New
<1>5. /\ Pushed' = Pushed /\ Alloc' = Alloc /\ Marked' = Marked \cup {o} /\ Kept' = Kept /\ Kept = Alloc
      /\ Going' = Going /\ White' = White /\ Marking /\ Marking'
      /\ greySlot \subseteq greySlot' /\ greySlot' \subseteq greySlot \cup {o}
      /\ o \in Marked \/ o \in greySlot'
    BY <1>1, <1>2, <1>3, <1>4 DEF Pushed, Alloc, Marked, Kept, Marking, Going, White
<1>6. Safe \subseteq Safe'
    <2>1. Marked \cup greyObj \cup Pushed \subseteq Safe'
        BY <1>1, <1>5, SafeFactsPrime DEF SafeClosed
    <2>2. QED BY <1>1, <1>5, <2>1, SafeGrows
<1>7. SafeInv' BY <1>1, <1>5, <1>6 DEF SafeInv, Nil
<1>9. ASSUME NEW m \in Mutator PROVE Thread(m)'
    <2>1. Thread(m) BY <1>1 DEF Threads
    <2>2. Owns(m)' BY <1>1, <2>1 DEF Thread, Owns, At, Operand, Nil
    <2>3. Builds(m)' BY <1>1, <2>1 DEF Thread, Builds, At, Nil
    <2>4. New(m)' BY <1>1, <1>4, <1>5, <2>1 DEF Thread, New, At, Nil
    <2>5. Barriered(m)' BY <1>1, <1>5, <2>1 DEF Thread, Barriered, At, Nil, Barred
    <2>6. Stamped(m)' BY <1>1, <1>5, <2>1 DEF Thread, Stamped, At, Nil
    <2>7. Early(m)' BY <1>1 DEF Early
    <2>8. Coloured(m)' BY <1>5 DEF Coloured
    <2>9. QED BY <2>2, <2>3, <2>4, <2>5, <2>6, <2>7, <2>8 DEF Thread
<1>10. Disjoint' BY <1>1 DEF Disjoint
<1>11. RootInv' BY <1>1 DEF RootInv, Nil, At
<1>12. HeapInv' BY <1>1, <1>4, <1>5 DEF HeapInv, Nil, At
<1>13. ColourInv' BY <1>5 DEF ColourInv
<1>14. DoomedInv' BY <1>1, <1>4, <1>5 DEF DoomedInv
<1>15. PhaseInv' BY <1>1, <1>5 DEF PhaseInv, Barred, Marking, StwHeld, At
<1>16. PendingInv' BY <1>1, <1>3, <1>5 DEF PendingInv, Visiting, Nil
<1>17. QED BY <1>7, <1>9, <1>10, <1>11, <1>12, <1>13, <1>14, <1>15, <1>16 DEF Standing, Threads

(* The entries of a queue that is cleared have been marked.                *)
LEMMA ClearInv ==
    ASSUME MarkInv, TypeInv', ClearPool
    PROVE  Standing' /\ PhaseInv' /\ PendingInv'
<1>1. /\ TypeInv /\ PhaseInv /\ PendingInv /\ Disjoint /\ RootInv /\ HeapInv /\ SafeInv /\ DoomedInv /\ Threads /\ DrainIndex
      /\ early = {} /\ gcpc = "drain" /\ gcpc' = "remark" /\ pool' = pool + 1
      /\ greySlot = {} /\ greyInfo = {} /\ greyObj = {} /\ satb' = [satb EXCEPT ![pool] = {}]
      /\ UNCHANGED <<phase, cms, ptr, ims, bit, rootset, op, fresh, greySlot, greyInfo, greyObj, early, doomed>>
    BY DEF MarkInv, Standing, ClearPool, GCStep, opVars, PhaseInv, Visited
<1>2. /\ satb \in [1..PoolCount -> SUBSET Obj] /\ pool \in 1..PoolCount /\ satb[pool] \subseteq Marked
      /\ PoolCount \in Nat
    BY <1>1, PoolAssumption DEF TypeInv, TypeOK, DrainIndex, PhaseInv
<1>3. Pushed' \subseteq Pushed /\ Pushed \subseteq Pushed' \cup Marked
    <2>1. \A i \in 1..PoolCount : satb'[i] = IF i = pool THEN {} ELSE satb[i] BY <1>1, <1>2
    <2>2. QED BY <1>2, <2>1 DEF Pushed
<1>5. /\ Alloc' = Alloc /\ Marked' = Marked /\ Kept' = Kept
      /\ Going' = Going /\ White' = White /\ Marking /\ Marking'
    BY <1>1 DEF Alloc, Marked, Kept, Marking, Going, White
<1>6. Safe \subseteq Safe'
    <2>1. Marked \cup greyObj \cup Pushed \subseteq Safe'
        BY <1>1, <1>3, <1>5, SafeFactsPrime DEF SafeClosed
    <2>2. QED BY <1>1, <1>5, <2>1, SafeGrows
<1>7. SafeInv' BY <1>1, <1>5, <1>6 DEF SafeInv, Nil
<1>9. ASSUME NEW m \in Mutator PROVE Thread(m)'
    <2>1. Thread(m) BY <1>1 DEF Threads
    <2>2. Owns(m)' BY <1>1, <2>1 DEF Thread, Owns, At, Operand, Nil
    <2>3. Builds(m)' BY <1>1, <2>1 DEF Thread, Builds, At, Nil
    <2>4. New(m)' BY <1>1, <1>3, <1>5, <2>1 DEF Thread, New, At, Nil
    <2>5. Barriered(m)' BY <1>1 DEF Barriered, Barred
    <2>6. Stamped(m)' BY <1>1, <1>5, <2>1 DEF Thread, Stamped, At, Nil
    <2>7. Early(m)' BY <1>1 DEF Early
    <2>8. Coloured(m)' BY <1>5 DEF Coloured
    <2>9. QED BY <2>2, <2>3, <2>4, <2>5, <2>6, <2>7, <2>8 DEF Thread
<1>10. Disjoint' BY <1>1 DEF Disjoint
<1>11. RootInv' BY <1>1 DEF RootInv, Nil, At
<1>12. HeapInv' BY <1>1, <1>3, <1>5 DEF HeapInv, Nil, At
<1>13. ColourInv' BY <1>5 DEF ColourInv
<1>14. DoomedInv' BY <1>1, <1>3, <1>5 DEF DoomedInv
<1>15. PhaseInv' BY <1>1, <1>2, <1>5 DEF PhaseInv, Barred, Marking, StwHeld, At
<1>16. PendingInv' BY <1>1, <1>5 DEF PendingInv, Visiting, Nil
<1>17. QED BY <1>7, <1>9, <1>10, <1>11, <1>12, <1>13, <1>14, <1>15, <1>16 DEF Standing, Threads

(* A cycle begins while no operator= is between its test and its stamp.    *)
LEMMA SwitchPhaseInv ==
    ASSUME MarkInv, Covered, TypeInv', SwitchPhase
    PROVE  Standing' /\ PhaseInv' /\ PendingInv'
<1>1. /\ TypeInv /\ PhaseInv /\ Disjoint /\ RootInv /\ HeapInv /\ DoomedInv /\ Threads /\ ColourInv
      /\ gcpc = "idle" /\ gcpc' = "switching" /\ phase' = "CONCURRENT_MARK" /\ \A m \in Mutator : ~Stamping(m)
      /\ UNCHANGED <<cms, ptr, ims, bit, rootset, satb, op, fresh, greySlot, greyInfo, greyObj, pool, early, doomed>>
    BY DEF MarkInv, Standing, SwitchPhase, GCStep, opVars, heapVars, Covered
<1>2. /\ Pushed' = Pushed /\ Alloc' = Alloc /\ Marked' = Marked /\ Kept' = Kept /\ ~Marking /\ ~Marking'
      /\ other' = other
    BY <1>1 DEF Pushed, Alloc, Marked, Kept, Marking, other, switchState
<1>3. ASSUME NEW m \in Mutator PROVE Thread(m)'
    <2>1. Thread(m) /\ Coherent(op[m]) BY <1>1, Types DEF Threads
    <2>2. Owns(m)' BY <1>1, <2>1 DEF Thread, Owns, At, Operand, Nil
    <2>3. Builds(m)' BY <1>1, <2>1 DEF Thread, Builds, At, Nil
    <2>4. New(m)' BY <1>1, <1>2, <2>1 DEF Thread, New, At, Nil
    <2>5. Barriered(m)' BY <1>1, <1>2, <2>1 DEF Barriered, Stamping, Coherent, At
    <2>6. Stamped(m)' /\ Early(m)' BY <1>1, <1>2 DEF Stamped, Early, PhaseInv
    <2>7. Coloured(m)' BY <1>1, <1>2, <2>1 DEF Thread, Coloured, At, Nil
    <2>8. QED BY <2>2, <2>3, <2>4, <2>5, <2>6, <2>7 DEF Thread
<1>4. Disjoint' BY <1>1 DEF Disjoint
<1>5. RootInv' BY <1>1 DEF RootInv, Nil, At
<1>6. HeapInv' BY <1>1, <1>2 DEF HeapInv, Nil, At
<1>7. ColourInv' BY <1>1, <1>2 DEF ColourInv, Nil, Overwriting, At
<1>8. DoomedInv' BY <1>1, <1>2 DEF DoomedInv
<1>9. SafeInv' /\ PendingInv' BY <1>2 DEF SafeInv, PendingInv
<1>10. PhaseInv' BY <1>1, <1>2 DEF PhaseInv, Barred, Marking, StwHeld, At
<1>11. QED BY <1>3, <1>4, <1>5, <1>6, <1>7, <1>8, <1>9, <1>10 DEF Standing, Threads

(* The world resumes: what stays from now on is what is marked.            *)
LEMMA ResumeInv ==
    ASSUME MarkInv, TypeInv', ResumeTheWorld
    PROVE  Standing' /\ PhaseInv' /\ PendingInv'
<1>1. /\ TypeInv /\ PhaseInv /\ Disjoint /\ RootInv /\ HeapInv /\ DoomedInv /\ Threads
      /\ gcpc = "selected" /\ gcpc' = "sweep" /\ early = {} /\ greySlot = {} /\ greyInfo = {} /\ greyObj = {} /\ Pushed = {}
      /\ UNCHANGED <<phase, cms, ptr, ims, bit, rootset, satb, op, fresh, greySlot, greyInfo, greyObj, pool, early, doomed>>
    BY DEF MarkInv, Standing, ResumeTheWorld, GCStep, opVars, heapVars, PhaseInv
<1>2. /\ Pushed' = {} /\ Alloc' = Alloc /\ Marked' = Marked /\ Kept = Alloc /\ Kept' = Marked /\ Marking /\ ~Marking'
      /\ Marked \subseteq Kept /\ other' = other
    BY <1>1, KeptFacts DEF Pushed, Alloc, Marked, Kept, Marking, other, switchState, KeptRange
<1>3. \A s \in Root \cup Marked : Nil(s) \/ (ims[s] = cms /\ ptr[s] \in Marked) BY <1>1,
    SelectedFacts
<1>c. cms # other
    BY <1>1, <1>2, StateAssumption DEF PhaseInv, other, switchState
<1>4. ASSUME NEW m \in Mutator PROVE Thread(m)'
    <2>1. Thread(m) /\ Coherent(op[m]) BY <1>1, Types DEF Threads
    <2>2. Owns(m)' BY <1>1, <2>1 DEF Thread, Owns, At, Operand, Nil
    <2>3. Builds(m)' BY <1>1, <2>1 DEF Thread, Builds, At, Nil
    <2>4. New(m)' BY <1>1, <1>2, <2>1 DEF Thread, New, At, Nil, Stamped
    <2>5. Barriered(m)' /\ Stamped(m)' /\ Early(m)' BY <1>1, <1>2 DEF Barriered, Barred, Stamped,
        Early
    <2>6. Coloured(m)'
        BY <1>1, <1>2, <1>c, <2>1 DEF Thread, Stamped, Coloured, At, Nil, Coherent, Copies
    <2>7. QED BY <2>2, <2>3, <2>4, <2>5, <2>6 DEF Thread
<1>5. Disjoint' BY <1>1 DEF Disjoint
<1>6. RootInv' BY <1>1 DEF RootInv, Nil, At
<1>7. HeapInv' BY <1>1, <1>2, <1>3 DEF HeapInv, Nil, At
<1>8. ColourInv' BY <1>1, <1>2, <1>3, <1>c DEF ColourInv, Nil, Overwriting, At
<1>9. DoomedInv' BY <1>1, <1>2 DEF DoomedInv
<1>10. SafeInv' /\ PendingInv' BY <1>2 DEF SafeInv, PendingInv
<1>11. PhaseInv' BY <1>1, <1>2 DEF PhaseInv, Barred, Marking, StwHeld, At
<1>12. QED BY <1>4, <1>5, <1>6, <1>7, <1>8, <1>9, <1>10, <1>11 DEF Standing, Threads

(* An object that is swept is not one that stays.                          *)
LEMMA SweepInv ==
    ASSUME MarkInv, TypeInv', NEW o \in Obj, Sweep(o)
    PROVE  Standing' /\ PhaseInv' /\ PendingInv'
<1>1. /\ TypeInv /\ PhaseInv /\ Disjoint /\ RootInv /\ HeapInv /\ DoomedInv /\ Threads /\ ColourInv
      /\ gcpc = "sweep" /\ needSweep(o)
      /\ bit' = [bit EXCEPT ![o] = "NOT_ALLOCATED"] /\ ptr' = [ptr EXCEPT ![o] = Null]
      /\ ims' = [ims EXCEPT ![o] = "DE_ALLOCATED"] /\ doomed' = doomed \ {o}
      /\ early = {} /\ greySlot = {} /\ greyInfo = {} /\ greyObj = {}
      /\ UNCHANGED <<phase, cms, gcpc, rootset, satb, op, fresh, greySlot, greyInfo, greyObj, pool, early>>
    BY DEF MarkInv, Standing, Sweep, GCStep, opVars, gcVars, PhaseInv
<1>2. /\ ptr \in [Slot -> Obj \cup {Null}] /\ ims \in [Slot -> MarkState] /\ bit \in [Obj -> MarkStateBit]
      /\ Root \subseteq Slot /\ Obj \subseteq Slot /\ Root \cap Obj = {} /\ Null \notin Obj /\ doomed \subseteq Obj
      /\ Null \notin Slot
    BY <1>1, Types, SlotAssumption, NullAssumption DEF TypeInv, TypeOK
<1>3. /\ Pushed' = Pushed /\ Alloc' = Alloc \ {o} /\ Marked' = Marked /\ Kept = Marked /\ Kept' = Marked /\ ~Marking /\ ~Marking'
      /\ o \in Alloc /\ o \notin Kept /\ other' = other /\ Marked \subseteq Obj
    <2>1. cms # "NOT_ALLOCATED" BY <1>1, KeptFacts DEF KeptRange
    <2>2. QED BY <1>1, <1>2, <2>1 DEF Pushed, Alloc, Marked, Kept, Marking, other, switchState,
        needSweep
<1>4. \A s \in Root \cup Kept : s # o /\ s \in Slot /\ ptr'[s] = ptr[s] /\ ims'[s] = ims[s]
    BY <1>1, <1>2, <1>3
<1>5. ptr'[o] = Null /\ ims'[o] = "DE_ALLOCATED" /\ \A s \in Slot \ {o} : ptr'[s] = ptr[s] /\ ims'[s] = ims[s]
    BY <1>1, <1>2
<1>6. ASSUME NEW m \in Mutator PROVE Thread(m)'
    <2>1. Thread(m) /\ Coherent(op[m]) /\ op[m].dst \in Slot \cup {Null} BY <1>1, Types
        DEF Threads, OpRecord
    <2>2. /\ op[m].src # Null => op[m].src \in Root \cup Kept
          /\ op[m].dst # Null => op[m].dst \in Root \cup Kept
          /\ op[m].via \subseteq Root
          /\ fresh[m] # Null => fresh[m] \in Kept
        BY <2>1, OperandKept DEF Thread, New
    <2>3. Owns(m)'
        <3>1. op[m].heal # "none" => Operand(m) \in {op[m].src, op[m].dst} /\ Operand(m) # Null
            BY <2>1 DEF Operand, Thread, Owns
        <3>2. op[m].heal # "none" => ptr'[Operand(m)] # Null
            BY <1>4, <2>1, <2>2, <3>1 DEF Thread, Owns, Nil
        <3>3. \A r \in op[m].via : ptr'[r] = ptr[r] BY <1>4, <2>2
        <3>4. QED BY <1>1, <2>1, <3>2, <3>3 DEF Thread, Owns, At, Operand, Nil
    <2>4. Builds(m)'
        <3>1. op[m].kind \in Copies \cup Makes => ptr'[op[m].dst] = ptr[op[m].dst] /\ ims'[op[m].dst] = ims[op[m].dst]
            BY <1>2, <1>4, <2>1 DEF Coherent, Copies, Makes
        <3>2. QED BY <1>1, <2>1, <3>1 DEF Thread, Builds, At, Nil
    <2>5. New(m)'
        <3>1. fresh[m] # Null => ptr'[fresh[m]] = ptr[fresh[m]] BY <1>4, <2>2
        <3>2. op[m].src # Null => ptr'[op[m].src] = ptr[op[m].src] BY <1>4, <2>2
        <3>3. At(m, "fields") \/ At(m, "set") => fresh[m] # Null BY <2>1 DEF Thread, New, At
        <3>4. QED BY <1>1, <1>3, <1>4, <2>1, <3>1, <3>2, <3>3 DEF Thread, New, At, Nil
    <2>6. Barriered(m)' /\ Stamped(m)' /\ Early(m)' BY <1>1, <1>3 DEF Barriered, Barred, Stamped,
        Early
    <2>7. Coloured(m)'
        <3>1. op[m].kind \in Makes \/ At(m, "write") => op[m].dst # Null
            BY <1>2, <2>1 DEF Coherent, Makes, At
        <3>2. At(m, "write") => op[m].src # Null BY <1>2, <2>1 DEF Coherent, At
        <3>3. QED BY <1>1, <1>3, <1>4, <2>1, <2>2, <3>1, <3>2 DEF Thread, Coloured, At, Nil
    <2>8. QED BY <2>3, <2>4, <2>5, <2>6, <2>7 DEF Thread
<1>7. Disjoint' BY <1>1 DEF Disjoint
<1>8. RootInv' BY <1>1, <1>2, <1>4 DEF RootInv, Nil, At, TypeInv, TypeOK
<1>9. HeapInv'
    <2>1. \A t \in Obj \ Alloc' : ptr'[t] = Null BY <1>1, <1>2, <1>3, <1>5 DEF HeapInv, Nil
    <2>2. \A t \in Alloc' : t \in Alloc /\ t \in Slot \ {o} BY <1>2, <1>3 DEF Alloc
    <2>3. QED BY <1>1, <1>3, <1>4, <1>5, <2>1, <2>2 DEF HeapInv, Nil, At
<1>10. ColourInv' BY <1>1, <1>3, <1>4 DEF ColourInv, Nil, Overwriting, At
<1>11. DoomedInv'
    <2>1. \A s \in Slot \ doomed' : ptr'[s] \notin doomed' BY <1>1, <1>2, <1>5 DEF DoomedInv
    <2>2. QED BY <1>1, <1>3, <2>1 DEF DoomedInv
<1>12. SafeInv' /\ PendingInv' BY <1>3 DEF SafeInv, PendingInv
<1>13. PhaseInv' BY <1>1, <1>3 DEF PhaseInv, Barred, Marking, StwHeld, At
<1>14. QED BY <1>6, <1>7, <1>8, <1>9, <1>10, <1>11, <1>12, <1>13 DEF Standing, Threads

(* When nothing is left to sweep, all allocated objects are marked.        *)
LEMMA EndInv ==
    ASSUME MarkInv, TypeInv', endGC
    PROVE  Standing' /\ PhaseInv' /\ PendingInv'
<1>1. /\ TypeInv /\ PhaseInv /\ Disjoint /\ RootInv /\ HeapInv /\ DoomedInv /\ Threads /\ ColourInv
      /\ gcpc = "sweep" /\ gcpc' = "idle" /\ phase' = "NONE" /\ early = {} /\ greySlot = {} /\ greyInfo = {} /\ greyObj = {}
      /\ \A o \in Obj : bit[o] \in {"NOT_ALLOCATED", cms}
      /\ UNCHANGED <<cms, ptr, ims, bit, rootset, satb, op, fresh, greySlot, greyInfo, greyObj, pool, early, doomed>>
    BY DEF MarkInv, Standing, endGC, GCStep, opVars, heapVars, PhaseInv, needSweep
<1>2. /\ Pushed' = Pushed /\ Alloc' = Alloc /\ Marked' = Marked /\ Alloc = Marked /\ Kept' = Kept /\ ~Marking /\ ~Marking'
      /\ other' = other
    BY <1>1, KeptFacts DEF Pushed, Alloc, Marked, Kept, Marking, other, switchState, KeptRange
<1>3. cms # other /\ other # "NOT_ALLOCATED"
    BY <1>1, StateAssumption DEF PhaseInv, other, switchState
<1>4. ASSUME NEW m \in Mutator PROVE Thread(m)'
    <2>1. Thread(m) BY <1>1 DEF Threads
    <2>2. Owns(m)' BY <1>1, <2>1 DEF Thread, Owns, At, Operand, Nil
    <2>3. Builds(m)' BY <1>1, <2>1 DEF Thread, Builds, At, Nil
    <2>4. New(m)' BY <1>1, <1>2, <2>1 DEF Thread, New, At, Nil
    <2>5. Barriered(m)' /\ Stamped(m)' /\ Early(m)' BY <1>1, <1>2 DEF Barriered, Barred, Stamped,
        Early
    <2>6. Coloured(m)' BY <1>1, <1>2, <2>1 DEF Thread, Coloured, At, Nil
    <2>7. QED BY <2>2, <2>3, <2>4, <2>5, <2>6 DEF Thread
<1>5. Disjoint' BY <1>1 DEF Disjoint
<1>6. RootInv' BY <1>1 DEF RootInv, Nil, At
<1>7. HeapInv' BY <1>1, <1>2 DEF HeapInv, Nil, At
<1>8. ColourInv'
    <2>1. \A o \in Obj : bit[o] # other BY <1>1, <1>3
    <2>2. QED BY <1>1, <1>2, <2>1 DEF ColourInv, Nil, Overwriting, At
<1>9. DoomedInv' BY <1>1, <1>2 DEF DoomedInv
<1>10. SafeInv' /\ PendingInv' BY <1>2 DEF SafeInv, PendingInv
<1>11. PhaseInv' BY <1>1, <1>2 DEF PhaseInv, Barred, Marking, StwHeld, At
<1>12. QED BY <1>4, <1>5, <1>6, <1>7, <1>8, <1>9, <1>10, <1>11 DEF Standing, Threads

(* What ReachableFrom computes: the links do not lead out of it, and every *)
(* set they do not lead out of contains it.                                *)
LEMMA ReachClosed ==
    ASSUME TypeInv, NEW S \in SUBSET Slot, NEW Links \in SUBSET Slot
    PROVE  /\ ReachableFrom(S, Links) \subseteq Obj
           /\ \A s \in (S \cup ReachableFrom(S, Links)) \cap Links :
                  Nil(s) \/ ptr[s] \in ReachableFrom(S, Links)
<1> DEFINE R == ReachableFrom(S, Links)
<1>1. ASSUME NEW s \in (S \cup R) \cap Links, ptr[s] # Null PROVE ptr[s] \in R
    <2>1. ptr[s] \in Obj BY <1>1, Types
    <2>2. ASSUME NEW C \in SUBSET Obj, Closed(C, S, Links) PROVE ptr[s] \in C
        <3>1. s \in (S \cup C) \cap Links BY <1>1, <2>2 DEF ReachableFrom
        <3>2. QED BY <1>1, <2>2, <3>1 DEF Closed, Targets
    <2>3. QED BY <2>1, <2>2 DEF ReachableFrom
<1>2. QED BY <1>1 DEF ReachableFrom, Nil
LEMMA ReachLeast ==
    ASSUME NEW S, NEW Links, NEW C \in SUBSET Obj, Closed(C, S, Links)
    PROVE  ReachableFrom(S, Links) \subseteq C
BY DEF ReachableFrom

(* The mark state switches: nothing carries the new one, the operations    *)
(* under way are early, and what nothing leads to is doomed.               *)
LEMMA SwitchMarkInv ==
    ASSUME MarkInv, TypeInv', SwitchMarkState
    PROVE  Standing' /\ PhaseInv' /\ PendingInv'
<1>1. /\ TypeInv /\ PhaseInv /\ Disjoint /\ RootInv /\ HeapInv /\ DoomedInv /\ Threads /\ ColourInv
      /\ gcpc = "switching" /\ gcpc' = "sleep" /\ early = {} /\ greySlot = {} /\ greyInfo = {} /\ greyObj = {}
      /\ cms' = other /\ early' = {m \in Mutator : ~At(m, "idle")}
      /\ UNCHANGED <<phase, ptr, ims, bit, rootset, satb, op, fresh, greySlot, greyInfo, greyObj, pool>>
    BY DEF MarkInv, Standing, SwitchMarkState, GCStep, opVars, heapVars, PhaseInv, other
<1>2. /\ Root \subseteq Slot /\ Obj \subseteq Slot /\ Slot = Root \cup Obj /\ Null \notin Obj /\ Null \notin Slot
      /\ fresh \in [Mutator -> Obj \cup {Null}] /\ Pushed \subseteq Obj
    BY <1>1, Types DEF TypeInv, TypeOK, Slot
<1>3. /\ Pushed' = Pushed /\ Alloc' = Alloc /\ Kept' = Alloc /\ Kept = Alloc /\ ~Marking /\ Marking'
    BY <1>1 DEF Pushed, Alloc, Kept, Marking
<1>4. Marked' = {} /\ other \in {M0, M1} /\ other \notin {"none", "NOT_ALLOCATED", "DE_ALLOCATED"}
    <2>1. \A o \in Obj : bit[o] # other BY <1>1, <1>3 DEF ColourInv
    <2>2. cms \in {"REMAPPED", M0, M1} BY <1>1 DEF TypeInv, TypeOK, MarkState
    <2>3. QED BY <1>1, <2>1, <2>2, StateAssumption DEF Marked, other, switchState
<1>5. \A s \in Root \cup Alloc : Nil(s) \/ ims[s] # other \/ Overwriting(s)
    BY <1>1, <1>3 DEF ColourInv
<1>6. ASSUME NEW m \in Mutator PROVE Thread(m)'
    <2>1. Thread(m) /\ Coherent(op[m]) /\ op[m].dst \in Slot \cup {Null} /\ op[m].src \in Slot \cup {Null}
        BY <1>1, Types DEF Threads, OpRecord
    <2>2. Owns(m)' BY <1>1, <2>1 DEF Thread, Owns, At, Operand, Nil
    <2>3. Builds(m)' BY <1>1, <2>1 DEF Thread, Builds, At, Nil
    <2>4. New(m)' BY <1>1, <1>3, <2>1 DEF Thread, New, At, Nil
    <2>5. m \notin early' => At(m, "idle") /\ op[m] = NoOp /\ fresh[m] = Null
        BY <1>1, <2>1 DEF Thread, Owns, New, At
    <2>6. Barriered(m)' BY <1>1, <1>3, <2>1, <2>5 DEF Thread, Barriered, At, Nil, Barred
    <2>7. Stamped(m)' BY <1>1, <1>4, <2>5 DEF Stamped, At, NoOp, Copies, Makes
    <2>8. Coloured(m)' BY <1>3 DEF Coloured
    <2>9. Early(m)'
        <3>1. op[m].heal = other => ims[Operand(m)] # other
            <4>1. SUFFICES ASSUME op[m].heal = other PROVE ims[Operand(m)] # other OBVIOUS
            <4>2. /\ Operand(m) \in {op[m].src, op[m].dst} /\ Operand(m) # Null /\ ~Nil(Operand(m))
                  /\ (Operand(m) = op[m].dst => ~At(m, "write"))
                BY <1>4, <2>1, <4>1 DEF Operand, Thread, Owns, At
            <4>3. ~Overwriting(Operand(m)) 
                BY <1>1, <2>1, <4>2 DEF Overwriting, Disjoint, Thread, Owns
            <4>4. Operand(m) \in Root \cup Alloc BY <1>3, <4>2, OperandKept
            <4>5. QED BY <1>5, <4>2, <4>3, <4>4
        <3>2. QED BY <1>1, <1>3, <1>4, <2>1, <3>1 DEF Early, Thread, Coloured, At, Operand, Nil
    <2>10. QED BY <2>2, <2>3, <2>4, <2>6, <2>7, <2>8, <2>9 DEF Thread
<1>7. Disjoint' BY <1>1 DEF Disjoint
<1>8. RootInv' BY <1>1 DEF RootInv, Nil, At
<1>9. HeapInv' BY <1>1, <1>3 DEF HeapInv, Nil, At
<1>10. ColourInv' BY <1>3 DEF ColourInv
<1>11. SafeInv'
    <2>1. SUFFICES ASSUME NEW s \in Slot, s \notin Going', ims[s] = other PROVE Nil(s)
        BY <1>1 DEF SafeInv, Nil
    <2>2. CASE Overwriting(s)
        <3>1. PICK m \in Mutator : op[m].dst = s /\ At(m, "write") BY <2>2 DEF Overwriting
        <3>2. m \in early' BY <1>1, <3>1 DEF At
        <3>3. QED BY <1>1, <2>1, <3>1, <3>2 DEF Going, At
    <2>3. CASE ~Overwriting(s) BY <1>1, <1>2, <1>5, <2>1, <2>3 DEF HeapInv
    <2>4. QED BY <2>2, <2>3
<1>12. PendingInv' BY <1>1, <1>4 DEF PendingInv, Visiting
<1>13. DoomedInv'
    <2> DEFINE R == Reachable
               Q == ReachableFrom(Pushed, Slot)
    <2>1. doomed' = Alloc \ (R \cup Pushed \cup Q \cup {fresh[m] : m \in Mutator})
        BY DEF SwitchMarkState, Alloc, Pushed
    <2>2. /\ R \subseteq Obj /\ \A s \in Root \cup R : Nil(s) \/ ptr[s] \in R
        BY <1>1, <1>2, ReachClosed DEF Reachable
    <2>3. /\ Q \subseteq Obj /\ \A s \in Pushed \cup Q : Nil(s) \/ ptr[s] \in Q
        BY <1>1, <1>2, ReachClosed
    <2> HIDE DEF R, Q
    <2>4. ASSUME NEW m \in Mutator, fresh[m] # Null PROVE Nil(fresh[m]) \/ ptr[fresh[m]] \in R
        <3>1. Thread(m) /\ op[m].src \in Slot \cup {Null} /\ op[m].via \subseteq Root
            BY <1>1, Types DEF Threads, OpRecord
        <3>2. Nil(fresh[m]) \/ (op[m].src # Null /\ ptr[fresh[m]] = ptr[op[m].src])
            BY <2>4, <3>1 DEF Thread, New, At
        <3>3. op[m].src # Null => op[m].src \in Root \cup R
            <4>1. op[m].src \in Obj => op[m].src \in R
                BY <1>2, <2>2, <3>1 DEF Thread, Owns, Nil
            <4>2. QED BY <1>2, <3>1, <4>1
        <3>4. QED BY <2>2, <3>2, <3>3 DEF Nil
    <2>5. ASSUME NEW s \in Slot, s \notin doomed' PROVE ptr[s] \notin doomed'
        <3>1. Nil(s) => ptr[s] \notin doomed' BY <1>2, <2>1 DEF Nil, Alloc
        <3>2. s \in Obj \ Alloc => Nil(s) BY <1>1 DEF HeapInv
        <3>3. s \in Root \cup R \cup Pushed \cup Q \cup {fresh[m] : m \in Mutator} \/ s \in Obj \ Alloc
            BY <1>2, <2>1, <2>5
        <3>4. s # Null BY <1>2
        <3>5. QED BY <2>1, <2>2, <2>3, <2>4, <3>1, <3>2, <3>3, <3>4
    <2>6. QED BY <1>1, <1>2, <1>3, <1>4, <2>1, <2>5 DEF DoomedInv
<1>14. PhaseInv' BY <1>1, <1>4 DEF PhaseInv, Barred, Marking, StwHeld, At
<1>15. QED BY <1>6, <1>7, <1>8, <1>9, <1>10, <1>11, <1>12, <1>13, <1>14 DEF Standing, Threads

(* Every step of the GC thread preserves the invariant.                    *)
LEMMA GCInv ==
    ASSUME MarkInv, Covered, GCThread
    PROVE  MarkInv'
<1>1. TypeInv' /\ DrainIndex' BY GCType DEF MarkInv, Standing
<1>2. CASE SwitchPhase BY <1>1, <1>2, SwitchPhaseInv DEF MarkInv, Standing
<1>3. CASE SwitchMarkState BY <1>1, <1>3, SwitchMarkInv DEF MarkInv, Standing
<1>4. CASE BeginMark BY <1>1, <1>4, BeginMarkInv DEF MarkInv, Standing
<1>5. CASE EndRoots BY <1>1, <1>5, EndRootsInv DEF MarkInv, Standing
<1>6. ASSUME NEW s \in Slot, VisitSlot(s) PROVE MarkInv'
    BY <1>1, <1>6, VisitInv DEF MarkInv, Standing
<1>7. ASSUME NEW s \in Slot, NEW o \in Obj, MarkSlot(s, o) PROVE MarkInv'
    BY <1>1, <1>7, MarkSlotInv DEF MarkInv, Standing
<1>8. ASSUME NEW o \in Obj, MarkObject(o) PROVE MarkInv'
    BY <1>1, <1>8, MarkObjectInv DEF MarkInv, Standing
<1>9. CASE StopTheWorld BY <1>1, <1>9, StopInv DEF MarkInv, Standing
<1>10. CASE DrainPool BY <1>1, <1>10, DrainInv DEF MarkInv, Standing
<1>11. CASE ClearPool BY <1>1, <1>11, ClearInv DEF MarkInv, Standing
<1>12. CASE selectRelocationSet BY <1>1, <1>12, SelectInv DEF MarkInv, Standing
<1>13. CASE ResumeTheWorld BY <1>1, <1>13, ResumeInv DEF MarkInv, Standing
<1>14. ASSUME NEW o \in Obj, Sweep(o) PROVE MarkInv'
    BY <1>1, <1>14, SweepInv DEF MarkInv, Standing
<1>15. CASE endGC BY <1>1, <1>15, EndInv DEF MarkInv, Standing
<1>16. QED BY <1>2, <1>3, <1>4, <1>5, <1>6, <1>7, <1>8, <1>9, <1>10, <1>11, <1>12, <1>13,
              <1>14, <1>15 DEF GCThread

(* It holds at the start, is preserved by every step and by stuttering.    *)
LEMMA InitInv == Init => MarkInv
<1> SUFFICES ASSUME Init PROVE MarkInv OBVIOUS
<1>1. TypeInv /\ DrainIndex BY InitType
<1>2. /\ gcpc = "idle" /\ phase = "NONE" /\ cms = "REMAPPED" /\ rootset = {} /\ greySlot = {} /\ greyInfo = {}
      /\ greyObj = {} /\ early = {} /\ doomed = {} /\ ~Marking
      /\ \A s \in Slot : Nil(s) /\ ims[s] = "DE_ALLOCATED"
      /\ \A o \in Obj : bit[o] = "NOT_ALLOCATED"
      /\ \A m \in Mutator : op[m] = NoOp /\ fresh[m] = Null
      /\ Pushed = {} /\ Alloc = {} /\ Kept = {} /\ Marked = {}
      /\ Root \subseteq Slot /\ Obj \subseteq Slot /\ Null \notin Root /\ Null \notin Obj
    BY <1>1, NullAssumption DEF Init, Marking, Nil, Pushed, Alloc, Kept, Marked, Slot
<1>3. other \notin {"NOT_ALLOCATED", "DE_ALLOCATED"} BY <1>2, StateAssumption DEF other, switchState
<1>4. ASSUME NEW m \in Mutator PROVE Thread(m)
    BY <1>2 DEF Thread, Owns, Builds, New, Coloured, Barriered, Stamped, Early, At, NoOp, Copies,
        Makes
<1>5. Disjoint BY <1>2 DEF Disjoint, NoOp
<1>6. PhaseInv BY <1>2 DEF PhaseInv, Barred, Marking, StwHeld
<1>7. RootInv /\ HeapInv /\ DoomedInv BY <1>2 DEF RootInv, HeapInv, DoomedInv
<1>8. ColourInv /\ SafeInv /\ PendingInv BY <1>2, <1>3 DEF ColourInv, SafeInv, PendingInv
<1>9. QED BY <1>1, <1>4, <1>5, <1>6, <1>7, <1>8 DEF MarkInv, Standing, Threads

LEMMA StutterInv ==
    ASSUME MarkInv, UNCHANGED vars
    PROVE  MarkInv'
<1>1. UNCHANGED <<phase, cms, ptr, ims, bit, rootset, satb, op, fresh, gcpc, greySlot, greyInfo, greyObj, pool, early, doomed>>
    BY DEF vars, gcVars, heapVars, opVars
<1>2. TypeInv' /\ DrainIndex' BY StutterType DEF MarkInv, Standing
<1>3. /\ Pushed' = Pushed /\ Alloc' = Alloc /\ Marked' = Marked /\ Kept' = Kept /\ Going' = Going
      /\ White' = White /\ other' = other
    BY <1>1 DEF Pushed, Alloc, Marked, Kept, Going, White, other, switchState
<1>4. Safe' = Safe
    <2>1. Base' = Base BY <1>1, <1>3 DEF Base, Targets
    <2>2. ASSUME NEW C \in SUBSET Obj PROVE Keeps(C)' <=> Keeps(C)
        BY <1>1, <1>3, <2>1 DEF Keeps, Targets
    <2>3. QED BY <2>2 DEF Safe
<1>5. ASSUME NEW m \in Mutator PROVE Thread(m)'
    <2>1. Thread(m) BY DEF MarkInv, Standing, Threads
    <2>2. Owns(m)' BY <1>1, <2>1 DEF Thread, Owns, At, Operand, Nil
    <2>3. Builds(m)' BY <1>1, <2>1 DEF Thread, Builds, At, Nil
    <2>4. New(m)' BY <1>1, <1>3, <2>1 DEF Thread, New, At, Nil
    <2>5. Barriered(m)' BY <1>1, <1>3, <2>1 DEF Thread, Barriered, At, Nil, Barred, Marking
    <2>6. Stamped(m)' BY <1>1, <1>3, <2>1 DEF Thread, Stamped, At, Nil, Marking
    <2>7. Early(m)' BY <1>1, <1>3, <1>4, <2>1 DEF Thread, Early, At, Operand, Nil
    <2>8. Coloured(m)' BY <1>1, <1>3, <2>1 DEF Thread, Coloured, At, Nil, Marking
    <2>9. QED BY <2>2, <2>3, <2>4, <2>5, <2>6, <2>7, <2>8 DEF Thread
<1>6. Disjoint' BY <1>1 DEF MarkInv, Standing, Disjoint
<1>7. RootInv' /\ HeapInv' /\ DoomedInv'
    BY <1>1, <1>3 DEF MarkInv, Standing, RootInv, HeapInv, DoomedInv, Nil, At, Marking
<1>8. ColourInv' /\ SafeInv' /\ PendingInv'
    BY <1>1, <1>3, <1>4 DEF MarkInv, Standing, ColourInv, SafeInv, PendingInv, Nil, At, Marking,
        Visiting, Overwriting
<1>9. PhaseInv' BY <1>1, <1>3 DEF MarkInv, Standing, PhaseInv, Barred, Marking, StwHeld, At
<1>10. QED BY <1>2, <1>5, <1>6, <1>7, <1>8, <1>9 DEF MarkInv, Standing, Threads

LEMMA NextInv == Covered /\ MarkInv /\ [Next]_vars => MarkInv'
<1> SUFFICES ASSUME Covered, MarkInv, [Next]_vars PROVE MarkInv' OBVIOUS
<1>1. CASE GCThread BY <1>1, GCInv
<1>2. ASSUME NEW m \in Mutator, StartOp(m) \/ MutatorStep(m) PROVE MarkInv'
    BY <1>2, UserInv DEF UserStep
<1>3. CASE UNCHANGED vars BY <1>3, StutterInv
<1>4. QED BY <1>1, <1>2, <1>3 DEF Next

-----------------------------------------------------------------------------
(* The theorems. *)
(* A live object is one that stays, and after the remark one that is       *)
(* marked: neither set has a link out of it.                               *)
LEMMA LiveKept == MarkInv => Live \subseteq Kept /\ Live \subseteq Alloc
<1> SUFFICES ASSUME MarkInv PROVE Live \subseteq Kept /\ Live \subseteq Alloc OBVIOUS
<1>1. KeptRange /\ HeapInv BY KeptFacts DEF MarkInv, Standing
<1>2. \A Links : Closed(Kept, Root, Links) BY <1>1 DEF HeapInv, Closed, Targets, Nil
<1>3. Kept \in SUBSET Obj BY <1>1 DEF KeptRange
<1>4. Live \subseteq Kept BY <1>2, <1>3, ReachLeast DEF Live
<1>5. QED BY <1>1, <1>4 DEF KeptRange
LEMMA LiveMarked == MarkInv /\ gcpc = "selected" => Live \subseteq Marked
<1> SUFFICES ASSUME MarkInv, gcpc = "selected" PROVE Live \subseteq Marked OBVIOUS
<1>1. \A Links : Closed(Marked, Root, Links) BY SelectedFacts DEF Closed, Targets, Nil
<1>2. Marked \in SUBSET Obj BY DEF Marked
<1>3. QED BY <1>1, <1>2, ReachLeast DEF Live

(* Marking, sweeping and the operations of the user threads preserve the   *)
(* inductive invariant, so it holds in every reachable state.              *)
THEOREM MarkInvariant == ASSUME Covered PROVE Spec => []MarkInv
<1>1. Init => MarkInv BY InitInv
<1>2. MarkInv /\ [Next]_vars => MarkInv' BY NextInv
<1>3. QED BY <1>1, <1>2, PTL DEF Spec

(* Marking is complete when the remark ends: no interleaving of user       *)
(* operations with the root scan, the concurrent mark and the SATB queues  *)
(* hides a live object from it (MarkingComplete), for any threads, roots,  *)
(* objects and queues.                                                     *)
THEOREM SelectionSeesAllMarked == ASSUME Covered PROVE Spec => []MarkingComplete
<1>1. MarkInv => MarkingComplete BY LiveMarked DEF MarkingComplete, Marked
<1>2. QED BY <1>1, MarkInvariant, PTL

(* At that moment every GCPtr the program can reach carries the mark state *)
(* of the cycle, so that it will be healed after a relocation              *)
(* (HealableAtSelection).                                                  *)
THEOREM SelectionSeesAllHealable == ASSUME Covered PROVE Spec => []HealableAtSelection
<1>1. MarkInv => HealableAtSelection
    <2>1. SUFFICES ASSUME MarkInv, gcpc = "selected", NEW s \in rootset \cup Live, ptr[s] # Null
                   PROVE  ims[s] = cms
        BY DEF HealableAtSelection
    <2>2. s \in Root \cup Marked BY <2>1, LiveMarked DEF MarkInv, Standing, TypeInv, TypeOK
    <2>3. QED BY <2>1, <2>2, SelectedFacts DEF Nil
<1>2. QED BY <1>1, MarkInvariant, PTL

(* No object the program can reach is ever swept (NoDangling).             *)
THEOREM NothingLiveSwept == ASSUME Covered PROVE Spec => []NoDangling
<1>1. MarkInv => NoDangling BY LiveKept DEF NoDangling, Alloc
<1>2. QED BY <1>1, MarkInvariant, PTL

(* What was garbage when a cycle began has been swept when it ends         *)
(* (GarbageReclaimed).                                                     *)
THEOREM OldGarbageReclaimed == ASSUME Covered PROVE Spec => []GarbageReclaimed
<1>1. MarkInv => GarbageReclaimed BY DEF MarkInv, Standing, DoomedInv, GarbageReclaimed, Marking
<1>2. QED BY <1>1, MarkInvariant, PTL

(* The mark state a cycle takes is carried by no object and no GCPtr in    *)
(* use, although it is taken every second cycle (FreshColour).             *)
THEOREM ColourIsFresh == ASSUME Covered PROVE Spec => FreshColour
<1>1. MarkInv /\ [Next]_vars =>
          (gcpc = "switching" /\ gcpc' = "sleep" =>
              /\ \A o \in Obj : bit[o] # cms'
              /\ \A s \in rootset \cup Live :
                     ptr[s] # Null => ims[s] # cms' \/ Overwriting(s))
    <2>1. SUFFICES ASSUME MarkInv, [Next]_vars, gcpc = "switching", gcpc' = "sleep"
                   PROVE  /\ \A o \in Obj : bit[o] # cms'
                          /\ \A s \in rootset \cup Live :
                                 ptr[s] # Null => ims[s] # cms' \/ Overwriting(s)
        OBVIOUS
    <2>2. cms' = other
        <3>1. GCThread BY <2>1, UserStepGC DEF Next, vars, gcVars
        <3>2. SwitchMarkState
            BY <2>1, <3>1 DEF GCThread, SwitchPhase, BeginMark, EndRoots, VisitSlot, MarkSlot,
                MarkObject,
                   StopTheWorld, DrainPool, ClearPool, selectRelocationSet, ResumeTheWorld, Sweep, endGC
        <3>3. QED BY <3>2 DEF SwitchMarkState, other
    <2>3. ColourInv /\ rootset \subseteq Root BY <2>1 DEF MarkInv, Standing, TypeInv, TypeOK
    <2>4. Live \subseteq Kept BY <2>1, LiveKept
    <2>5. QED BY <2>1, <2>2, <2>3, <2>4 DEF ColourInv, Marking, Nil
<1>2. QED BY <1>1, MarkInvariant, PTL DEF Spec, FreshColour
=============================================================================
