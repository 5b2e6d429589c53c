------------------------------ MODULE GCRegion ------------------------------
(***************************************************************************)
(* One region whose objects have sizes of their own (SMALL, MEDIUM) and    *)
(* its mark bitmap, byte by byte: user threads that allocate and withdraw, *)
(* GC threads that mark the same object at once, the live size they all    *)
(* add to, and the sweep that walks from entry to entry while the user     *)
(* threads go on allocating.                                               *)
(*                                                                         *)
(* Each byte of the region has a mark state of two bits, PerByte of them   *)
(* in a byte of the bitmap.  An object's state is the one of its first     *)
(* byte; its size stands in the SizeBytes bytes that follow that byte of   *)
(* the bitmap.  The code has PerByte = SizeBytes = 4, and ranges of bytes  *)
(* that no entry uses hold whatever was there when the memory was taken.   *)
(*                                                                         *)
(* Which objects the program can reach is the environment's choice; that   *)
(* the marking visits each of them is what module GCMark is about.         *)
(* A definition name_change is a faulty variant of name that no            *)
(* specification here uses.                                                *)
(***************************************************************************)
EXTENDS Integers, FiniteSets, FiniteSetsExt

CONSTANTS
    Thread,         \* user threads
    Marker,         \* threads of the GC pool
    Size,           \* the sizes the program asks for
    PerByte, SizeBytes,
    total_size,     \* of the region
    LiveBound,      \* a relocation begins only up to this live size
    Stale,          \* the bytes unused memory of the pool may be filled with
    SleepCovers     \* startGC's sleep outlasts an allocation under way

Radix == 4 ^ PerByte
ASSUME BitmapAssumption == {PerByte, SizeBytes} \subseteq Nat \ {0}
(* TINY_OBJECT_THRESHOLD: no object of the region is too small for its entry. *)
ASSUME SizeAssumption ==
    /\ {total_size, LiveBound} \subseteq Nat
    /\ Size \subseteq (PerByte * (SizeBytes + 1))..(Radix ^ SizeBytes - 1)
(* Powers are powers: the provers know nothing of ^. *)
ASSUME PowerAssumption ==
    /\ \A j \in 0..PerByte : 4 ^ j \in Nat \ {0}
    /\ \A i \in 0..SizeBytes : Radix ^ i \in Nat \ {0}
    /\ Radix ^ 0 = 1 /\ \A i \in 0..(SizeBytes - 1) : Radix ^ (i + 1) = Radix * Radix ^ i
ASSUME StaleAssumption == Stale \subseteq 0..(Radix - 1)
ASSUME TimingAssumption == SleepCovers \in BOOLEAN

VARIABLES
    phase, cms,                 \* GCPhase::gcPhase, currentMarkState
    allocated_offset, live_size,
    bitmap_arr,
    user,                       \* the threads' calls of allocate and free
    mark,                       \* the GC threads' calls of mark
    gcpc, limit, iter,          \* the GC thread, and its iterator
    made, dead,                 \* the region's objects; those out of reach
    pending,                    \* reachable ones the marking has still to visit
    early, doomed, caught,      \* history: see SwitchMarkState
    torn                        \* history: see Incomplete

phaseVars == <<phase, cms, gcpc>>
regionVars == <<allocated_offset, live_size, bitmap_arr>>
sweepVars == <<limit, iter>>
heapVars == <<made, dead, pending>>
history == <<early, doomed, caught, torn>>
vars == <<phaseVars, regionVars, user, mark, sweepVars, heapVars, history>>

-----------------------------------------------------------------------------
(* MarkStateUtil::toChar *)
NOT_ALLOCATED == 0
REMAPPED == 1
M0 == 2
M1 == 3
switchState(s) == IF s = M0 THEN M1 ELSE M0
duringGC == phase # "NONE"
needSweep(s) == s \notin {NOT_ALLOCATED, cms}

(* GCBitMap *)
bitmap_size == (total_size + PerByte - 1) \div PerByte
Byte(p) == p \div PerByte
getMarkState(p) == (bitmap_arr[Byte(p)] \div 4 ^ (p % PerByte)) % 4
WithState(p, s) ==
    [bitmap_arr EXCEPT ![Byte(p)] = @ + (s - getMarkState(p)) * 4 ^ (p % PerByte)]
Digit(n, i) == (n \div Radix ^ i) % Radix
ByteAt(b) == IF b < bitmap_size THEN bitmap_arr[b] ELSE 0
(* The number these bytes are the digits of, the lowest of them first. *)
getObjectSize(p) ==
    CHOOSE n \in 0..(Radix ^ SizeBytes - 1) :
        \A i \in 0..(SizeBytes - 1) : Digit(n, i) = ByteAt(Byte(p) + 1 + i)
(* mark's last part, for a size the entry may hold already: what it finds  *)
(* must be nothing or the same size.                                       *)
SizeAgrees(p, n) == getObjectSize(p) \in {0, n}
WithSize(arr, p, n) ==
    [b \in DOMAIN arr |->
        LET i == b - Byte(p) - 1 IN IF i \in 0..(SizeBytes - 1) THEN Digit(n, i) ELSE arr[b]]

-----------------------------------------------------------------------------
(* User threads: make_gc's allocation, and that of a relocation, whose     *)
(* loser frees what it has allocated.                                      *)
Idle == [pc |-> "idle", kind |-> "none", at |-> 0, size |-> 0, state |-> NOT_ALLOCATED,
         digit |-> 0, counts |-> FALSE]
At(t, step) == user[t].pc = step
Goto(t, step) == user' = [user EXCEPT ![t].pc = step]
Return(t) == user' = [user EXCEPT ![t] = Idle] /\ early' = early \ {t}
Busy == {t \in Thread : ~At(t, "idle")}
Object(t) == [at |-> user[t].at, size |-> user[t].size]

StwHeld == gcpc = "selected"
(* The compare-and-swap loop on allocated_offset; it returns nullptr when  *)
(* the object does not fit.  A pointer asks for relocation while phase is  *)
(* SWEEP; losers add to the live size and do not subtract again, which     *)
(* LiveBound bounds.                                                       *)
allocate(t) ==
    /\ At(t, "idle") /\ ~StwHeld
    /\ \E n \in Size, kind \in {"make", "relocate"} :
           /\ kind = "relocate" => phase = "SWEEP" /\ live_size <= LiveBound
           /\ allocated_offset + n <= total_size
           /\ allocated_offset' = allocated_offset + n
           /\ user' = [user EXCEPT ![t] = [Idle EXCEPT !.pc = "test", !.kind = kind,
                                           !.at = allocated_offset, !.size = n]]
    /\ UNCHANGED <<phaseVars, live_size, bitmap_arr, mark, sweepVars, heapVars, history>>
(* GCPhase::duringGC, and the mark state after it. *)
TestPhase_never(t) ==
    /\ At(t, "test")
    /\ user' = [user EXCEPT ![t] = [@ EXCEPT !.pc = "head", !.state = REMAPPED]]
    /\ UNCHANGED <<phaseVars, regionVars, mark, sweepVars, heapVars, history>>
TestPhase(t) ==
    /\ At(t, "test")
    /\ user' = [user EXCEPT ![t] =
           IF duringGC THEN [@ EXCEPT !.pc = "state", !.counts = TRUE]
                       ELSE [@ EXCEPT !.pc = "head", !.state = REMAPPED]]
    /\ UNCHANGED <<phaseVars, regionVars, mark, sweepVars, heapVars, history>>
ReadState(t) ==
    /\ At(t, "state")
    /\ user' = [user EXCEPT ![t] = [@ EXCEPT !.pc = "head", !.state = cms]]
    /\ UNCHANGED <<phaseVars, regionVars, mark, sweepVars, heapVars, history>>
(* bitmap->mark with overwrite: the state, then the size byte by byte.     *)
MarkHead(t) ==
    /\ At(t, "head")
    /\ bitmap_arr' = WithState(user[t].at, user[t].state)
    /\ Goto(t, "size")
    /\ UNCHANGED <<phaseVars, allocated_offset, live_size, mark, sweepVars, heapVars, history>>
StoreSize(t) ==
    /\ At(t, "size")
    /\ LET u == user[t]
       IN  /\ bitmap_arr' = [bitmap_arr EXCEPT ![Byte(u.at) + 1 + u.digit] = Digit(u.size, u.digit)]
           /\ user' = [user EXCEPT ![t] =
                  IF u.digit < SizeBytes - 1 THEN [u EXCEPT !.digit = @ + 1]
                  ELSE [u EXCEPT !.digit = 0, !.pc = IF u.counts THEN "count" ELSE "done"]]
    /\ UNCHANGED <<phaseVars, allocated_offset, live_size, mark, sweepVars, heapVars, history>>
CountAllocated(t) ==
    /\ At(t, "count")
    /\ live_size' = live_size + user[t].size
    /\ Goto(t, "done")
    /\ UNCHANGED <<phaseVars, allocated_offset, bitmap_arr, mark, sweepVars, heapVars, history>>
(* The object is in use from here on, be it new or the copy that won. *)
Publish(t) ==
    /\ At(t, "done")
    /\ made' = made \cup {Object(t)}
    /\ Return(t)
    /\ UNCHANGED <<phaseVars, regionVars, mark, sweepVars, dead, pending, doomed, caught, torn>>
(* GCRegion::free by the loser of a relocation: its memory is withdrawn if *)
(* it is the last still, and marked as not allocated otherwise.  The steps *)
(* of the compare-and-swap are apart in GCRelocation; the size mark writes *)
(* is the one that stands there.                                           *)
free_untested(t) ==
    /\ At(t, "done") /\ user[t].kind = "relocate"
    /\ allocated_offset' = user[t].at
    /\ Return(t)
    /\ UNCHANGED <<phaseVars, live_size, bitmap_arr, mark, sweepVars, heapVars, doomed, caught,
                   torn>>
(* The sweep stands on this entry, or has come past it. *)
Passed(t) ==
    /\ gcpc = "iterate" /\ iter.at < limit
    /\ iter.at > user[t].at \/ (iter.at = user[t].at /\ iter.pc # "state")
free(t) ==
    /\ At(t, "done") /\ user[t].kind = "relocate"
    /\ IF user[t].at + user[t].size = allocated_offset
       THEN /\ allocated_offset' = user[t].at /\ torn' = (torn \/ Passed(t))
            /\ UNCHANGED bitmap_arr
       ELSE /\ bitmap_arr' = WithState(user[t].at, NOT_ALLOCATED)
            /\ UNCHANGED <<allocated_offset, torn>>
    /\ Return(t)
    /\ UNCHANGED <<phaseVars, live_size, mark, sweepVars, heapVars, doomed, caught>>
(* The program lets go of an object. *)
Drop ==
    /\ \E o \in made \ dead : dead' = dead \cup {o}
    /\ UNCHANGED <<phaseVars, regionVars, user, mark, sweepVars, made, pending, history>>

UserStep(t) ==
    \/ allocate(t) \/ TestPhase(t) \/ ReadState(t) \/ MarkHead(t) \/ StoreSize(t)
    \/ CountAllocated(t) \/ Publish(t) \/ free(t)

-----------------------------------------------------------------------------
(* A GC thread visits an object: marked, then mark, whose bitmap part has  *)
(* its own test, as another thread may have come first.                    *)
NoVisit == [pc |-> "idle", obj |-> <<>>]
Marking(k, step) == mark[k].pc = step
MarkGoto(k, step) == mark' = [mark EXCEPT ![k].pc = step]
Visited(k) == mark' = [mark EXCEPT ![k] = NoVisit] /\ pending' = pending \ {mark[k].obj}

marked(k) ==
    /\ gcpc = "mark" /\ Marking(k, "idle")
    /\ \E o \in made \ doomed :
           IF getMarkState(o.at) = cms
           THEN pending' = pending \ {o} /\ UNCHANGED mark
           ELSE mark' = [mark EXCEPT ![k] = [pc |-> "head", obj |-> o]] /\ UNCHANGED pending
    /\ UNCHANGED <<phaseVars, regionVars, user, sweepVars, made, dead, history>>
MarkBit_alwaysNew(k) ==
    /\ Marking(k, "head")
    /\ bitmap_arr' = WithState(mark[k].obj.at, cms)
    /\ MarkGoto(k, "size")
    /\ UNCHANGED <<phaseVars, allocated_offset, live_size, user, sweepVars, heapVars, history>>
MarkBit(k) ==
    /\ Marking(k, "head")
    /\ LET p == mark[k].obj.at
       IN  IF getMarkState(p) = cms
           THEN Visited(k) /\ UNCHANGED bitmap_arr
           ELSE bitmap_arr' = WithState(p, cms) /\ MarkGoto(k, "size") /\ UNCHANGED pending
    /\ UNCHANGED <<phaseVars, allocated_offset, live_size, user, sweepVars, made, dead, history>>
MarkSize(k) ==
    /\ Marking(k, "size")
    /\ LET o == mark[k].obj
       IN  IF SizeAgrees(o.at, o.size)
           THEN bitmap_arr' = WithSize(bitmap_arr, o.at, o.size) /\ MarkGoto(k, "count")
           ELSE MarkGoto(k, "throw") /\ UNCHANGED bitmap_arr
    /\ UNCHANGED <<phaseVars, allocated_offset, live_size, user, sweepVars, heapVars, history>>
CountLive(k) ==
    /\ Marking(k, "count")
    /\ live_size' = live_size + mark[k].obj.size
    /\ Visited(k)
    /\ UNCHANGED <<phaseVars, allocated_offset, bitmap_arr, user, sweepVars, made, dead, history>>

MarkerStep(k) == marked(k) \/ MarkBit(k) \/ MarkSize(k) \/ CountLive(k)

-----------------------------------------------------------------------------
(* The GC thread. *)
Sizes(S) == MapThenSumSet(LAMBDA o : o.size, S)
InFlight(T) == MapThenSumSet(LAMBDA t : user[t].size, T)

(* SwitchToNextPhase out of NONE.  From here on, early are the threads in  *)
(* an allocation, doomed the objects out of reach, and caught is what the  *)
(* live size holds already and what those allocations may add to it.       *)
SwitchPhase ==
    /\ gcpc = "idle" /\ phase' = "CONCURRENT_MARK" /\ gcpc' = "switching"
    /\ UNCHANGED <<cms, regionVars, user, mark, sweepVars, heapVars, history>>
SwitchMarkState ==
    /\ gcpc = "switching" /\ cms' = switchState(cms) /\ gcpc' = "sleep"
    /\ early' = Busy /\ doomed' = dead
    /\ caught' = live_size + InFlight({t \in Busy : ~At(t, "done")})
    /\ UNCHANGED <<phase, regionVars, user, mark, sweepVars, heapVars, torn>>
beginMark ==
    /\ gcpc = "sleep" /\ (SleepCovers => early = {})
    /\ gcpc' = "mark" /\ pending' = made \ dead
    /\ UNCHANGED <<phase, cms, regionVars, user, mark, sweepVars, made, dead, history>>
(* The world is stopped: allocations are in critical sections.  The REMARK *)
(* phase marks on in the same way and is part of "mark".                   *)
selectRelocationSet ==
    /\ gcpc = "mark" /\ pending = {} /\ Busy = {}
    /\ \A k \in Marker : Marking(k, "idle")
    /\ phase' = "SWEEP" /\ gcpc' = "selected"
    /\ UNCHANGED <<cms, regionVars, user, mark, sweepVars, heapVars, history>>
ResumeTheWorld ==
    /\ gcpc = "selected" /\ gcpc' = "sweep" /\ caught' = 0
    /\ UNCHANGED <<phase, cms, regionVars, user, mark, sweepVars, heapVars, early, doomed, torn>>

(* clearUnmarked: the offset is read once, and the thread yields. *)
Started == [pc |-> "state", at |-> 0, state |-> NOT_ALLOCATED, size |-> 0]
LoadOffset ==
    /\ gcpc = "sweep" /\ gcpc' = "yield" /\ limit' = allocated_offset
    /\ UNCHANGED <<phase, cms, regionVars, user, mark, iter, heapVars, history>>
Yield ==
    /\ gcpc = "yield"
    /\ gcpc' = "iterate" /\ iter' = Started
    /\ UNCHANGED <<phase, cms, regionVars, user, mark, limit, heapVars, history>>

Iterating(step) == gcpc = "iterate" /\ iter.pc = step
Swept == gcpc' = "swept" /\ iter' = Started
(* No entry is written at p: its allocation is under way or has been        *)
(* withdrawn.  The sweep is torn when it reads one like that, or when the   *)
(* one it has read is withdrawn under it (see free); only the yield stands  *)
(* between it and that.  What it does then, and where it goes from there,   *)
(* depends on what the memory held, here as in the code.                    *)
Incomplete(p) ==
    p >= allocated_offset \/ \E t \in Busy : user[t].at = p /\ ~At(t, "done")
(* current(): the state, the size, and the size again, which must be the   *)
(* same.  What it throws, or what is thrown at a size of zero, is caught,  *)
(* and the sweep ends there.                                               *)
CurrentState_pastLimit ==
    /\ Iterating("state")
    /\ IF Byte(iter.at) >= bitmap_size THEN Swept
       ELSE iter' = [iter EXCEPT !.pc = "size", !.state = getMarkState(iter.at)] /\ UNCHANGED gcpc
    /\ torn' = (torn \/ (iter.at < limit /\ Incomplete(iter.at)))
    /\ UNCHANGED <<phase, cms, regionVars, user, mark, limit, heapVars, early, doomed, caught>>
CurrentState ==
    /\ Iterating("state")
    /\ IF iter.at >= limit \/ Byte(iter.at) >= bitmap_size THEN Swept
       ELSE iter' = [iter EXCEPT !.pc = "size", !.state = getMarkState(iter.at)] /\ UNCHANGED gcpc
    /\ torn' = (torn \/ (iter.at < limit /\ Incomplete(iter.at)))
    /\ UNCHANGED <<phase, cms, regionVars, user, mark, limit, heapVars, early, doomed, caught>>
CurrentSize ==
    /\ Iterating("size")
    /\ iter' = [iter EXCEPT !.pc = "verify", !.size = getObjectSize(iter.at)]
    /\ UNCHANGED <<phaseVars, regionVars, user, mark, limit, heapVars, history>>
VerifySize ==
    /\ Iterating("verify")
    /\ IF getObjectSize(iter.at) # iter.size \/ (iter.size = 0 /\ ~needSweep(iter.state))
       THEN Swept
       ELSE /\ iter' = [iter EXCEPT !.pc = IF needSweep(iter.state) THEN "clear" ELSE "next"]
            /\ UNCHANGED gcpc
    /\ UNCHANGED <<phase, cms, regionVars, user, mark, limit, heapVars, history>>
(* bitmap->mark(NOT_ALLOCATED), which leaves alone what is out of its range *)
(* and what is not allocated already, and the destructor.                   *)
Clear_skipsBorn ==
    /\ Iterating("clear")
    /\ bitmap_arr' = IF iter.state = REMAPPED THEN bitmap_arr ELSE WithState(iter.at, NOT_ALLOCATED)
    /\ iter' = [iter EXCEPT !.pc = "check"]
    /\ UNCHANGED <<phaseVars, allocated_offset, live_size, user, mark, limit, heapVars, history>>
Clear ==
    /\ Iterating("clear")
    /\ IF \/ iter.at + iter.size > PerByte * bitmap_size
          \/ getMarkState(iter.at) = NOT_ALLOCATED
       THEN iter' = [iter EXCEPT !.pc = "next"] /\ UNCHANGED bitmap_arr
       ELSE /\ bitmap_arr' = WithState(iter.at, NOT_ALLOCATED)
            /\ iter' = [iter EXCEPT !.pc = "check"]
    /\ UNCHANGED <<phaseVars, allocated_offset, live_size, user, mark, limit, heapVars, history>>
ClearSize ==
    /\ Iterating("check")
    /\ IF SizeAgrees(iter.at, iter.size)
       THEN /\ bitmap_arr' = WithSize(bitmap_arr, iter.at, iter.size)
            /\ iter' = [iter EXCEPT !.pc = "next"] /\ UNCHANGED gcpc
       ELSE Swept /\ UNCHANGED bitmap_arr
    /\ UNCHANGED <<phase, cms, allocated_offset, live_size, user, mark, limit, heapVars, history>>
MoveNext ==
    /\ Iterating("next")
    /\ iter' = [Started EXCEPT !.at = iter.at + getObjectSize(iter.at)]
    /\ UNCHANGED <<phaseVars, regionVars, user, mark, limit, heapVars, history>>
clearUnmarked ==
    \/ LoadOffset \/ Yield \/ CurrentState \/ CurrentSize \/ VerifySize
    \/ Clear \/ ClearSize \/ MoveNext

(* endGC: the phase, and after it the live sizes of the regions. *)
endGC ==
    /\ gcpc = "swept" /\ phase' = "NONE" /\ gcpc' = "reset" /\ limit' = 0
    /\ UNCHANGED <<cms, regionVars, user, mark, iter, heapVars, history>>
resetLiveSize ==
    /\ gcpc = "reset" /\ live_size' = 0 /\ gcpc' = "idle"
    /\ UNCHANGED <<phase, cms, allocated_offset, bitmap_arr, user, mark, sweepVars, heapVars, history>>

Init ==
    /\ phase = "NONE" /\ cms = REMAPPED /\ gcpc = "idle"
    /\ allocated_offset = 0 /\ live_size = 0
    /\ bitmap_arr \in {[b \in 0..(bitmap_size - 1) |-> v] : v \in Stale}
    /\ user = [t \in Thread |-> Idle] /\ mark = [k \in Marker |-> NoVisit]
    /\ limit = 0 /\ iter = Started
    /\ made = {} /\ dead = {} /\ pending = {}
    /\ early = {} /\ doomed = {} /\ caught = 0 /\ torn = FALSE

GCThread ==
    \/ SwitchPhase \/ SwitchMarkState \/ beginMark \/ selectRelocationSet
    \/ ResumeTheWorld \/ clearUnmarked \/ endGC \/ resetLiveSize
Next ==
    \/ GCThread \/ Drop
    \/ \E t \in Thread : UserStep(t)
    \/ \E k \in Marker : MarkerStep(k)
Spec == Init /\ [][Next]_vars

-----------------------------------------------------------------------------
(* Every entry lies within the bitmap, and no two share a byte, whatever   *)
(* is allocated, published and withdrawn at once: a thread that writes the *)
(* mark and the size of one object never touches those of another          *)
(* (README.md:325, 689: the bitmap is thread-safe by nature).              *)
EntryBytes(o) == Byte(o.at)..(Byte(o.at) + SizeBytes)
Apart(x, y) == EntryBytes(x) \cap EntryBytes(y) = {}
EntriesApart ==
    /\ \A x \in made \cup {Object(t) : t \in Busy} : EntryBytes(x) \subseteq 0..(bitmap_size - 1)
    /\ \A x, y \in made : x # y => Apart(x, y)
    /\ \A t \in Busy : \A x \in made : Apart(Object(t), x)
    /\ \A t, u \in Busy : t # u => Apart(Object(t), Object(u))

(* Allocations and withdrawals go on during the sweep, below the offset it *)
(* has read too, and their memory is used again.  The next four speak of   *)
(* the region until the sweep is torn, which is all that GCRegion.cpp:165  *)
(* risks: nothing before that does any harm.                               *)

(* The entry of an object holds its size, whatever was in that memory      *)
(* before and whoever writes to the bytes around it: an iteration that     *)
(* meets one object meets the next, and mark never throws                  *)
(* (GCBitMap.cpp:94).                                                      *)
SizesIntact == ~torn => \A o \in made : getObjectSize(o.at) = o.size

(* The sweep never takes an object the program can reach for garbage:      *)
(* neither its mark nor its destructor is lost, however the allocations    *)
(* and withdrawals around it interleave with the iteration, unless it      *)
(* reads an entry that is not there.                                       *)
OnlyGarbageSwept == ~torn => \A o \in made \ dead : getMarkState(o.at) # NOT_ALLOCATED

(* When the cycle ends, the sweep has come to every object that was out of *)
(* reach when it began: M0 and M1 are used again, and what a sweep passed  *)
(* over would look alive two cycles later.                                 *)
GarbageSwept == ~torn /\ gcpc = "idle" => \A o \in doomed : getMarkState(o.at) = NOT_ALLOCATED

(* When the regions to evacuate are selected, the live size is the size of *)
(* what carries this cycle's mark, and of what an allocation caught by the *)
(* switch of the phase, or by the reset of the last cycle, has added:      *)
(* a region with live objects is never freed as empty (canFree), and the   *)
(* live size exceeds the offset only by that.                              *)
LiveCounted ==
    ~torn /\ gcpc = "selected" =>
        LET live == Sizes({o \in made : getMarkState(o.at) = cms})
        IN  live <= live_size /\ live_size <= live + caught
=============================================================================
