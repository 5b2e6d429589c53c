-------------------------- MODULE GCMemoryAllocator --------------------------
(***************************************************************************)
(* The regions as the memory allocator keeps them: the allocating regions  *)
(* of the threads and of all threads, the map of regions that tells a root *)
(* from a GCPtr inside an object, the queues, the set chosen for           *)
(* evacuation and its release by the GC threads, the large regions.        *)
(*                                                                         *)
(* A region is a number; it may name another one when no shared_ptr refers *)
(* to it.  Chunk is where the memory of regions can lie, in the order of   *)
(* the addresses; a region holds Capacity objects.  The ratios that make a *)
(* region worth evacuating are a choice.                                   *)
(*                                                                         *)
(* A definition name_change is a faulty variant of name that no            *)
(* specification here uses.                                                *)
(***************************************************************************)
EXTENDS Integers, FiniteSetsExt, SequencesExt

CONSTANTS
    Thread,         \* user threads
    gcThreadCount,  \* the pool of GC threads
    Region,
    Chunk,
    Capacity,
    Makes, Uses,    \* the kinds of region each thread's new objects go to, and
                    \* those whose objects it dereferences
    M0, M1,         \* the mark states of a cycle
    None

RegionEnum == {"TINY", "SMALL", "MEDIUM", "LARGE"}
Shared == {"TINY", "MEDIUM"}
GCThread == 0..(gcThreadCount - 1)
Worker == Thread \cup GCThread

ASSUME CountAssumption == gcThreadCount \in Nat \ {0} /\ Capacity \in Nat \ {0}
ASSUME NumberAssumption == Region \subseteq Nat /\ IsFiniteSet(Region) /\ Chunk \subseteq Nat
ASSUME KindAssumption == {Makes, Uses} \subseteq [Thread -> SUBSET RegionEnum]
ASSUME NameAssumption ==
    /\ M0 # M1 /\ Thread \cap GCThread = {}
    /\ None \notin Region \cup Chunk \cup Worker
    /\ None \notin RegionEnum /\ None \notin Region \X Nat

VARIABLES
    region,         \* the GCRegions: kind, address, objects, those not relocated
                    \* yet, evacuated, mark state
    allocating,     \* mediumAllocatingRegion, tinyAllocatingRegion
    own,            \* smallAllocatingRegion, smallRelocatingRegion of a thread
    regionMap, mapMtx,
    regionQue, largeRegionQue, evacuationQue,
    cms, gcpc,      \* the mark state, where the GC thread is
    todo,           \* the regions a GC thread still has in its share
    at              \* an allocation under way, and the object it is to relocate

heapVars == <<region, allocating, own>>
mapVars == <<regionMap, mapMtx>>
queVars == <<regionQue, largeRegionQue, evacuationQue>>
gcVars == <<cms, gcpc, todo>>
vars == <<heapVars, mapVars, queVars, gcVars, at>>

Idle == [pc |-> "idle", type |-> None, object |-> None, region |-> None,
         new_region |-> None]
NoMemory == [type |-> None, start |-> None, used |-> 0, left |-> {}, evacuated |-> FALSE,
             mark |-> None]

At(w, step) == at[w].pc = step
Goto(w, step) == at' = [at EXCEPT ![w].pc = step]
relocate(w) == at[w].object # None
(* make_gc goes on with the object; relocate's caller copies the old one   *)
(* to it.                                                                  *)
Returned(w, r) ==
    at' = [at EXCEPT ![w] = IF relocate(w) THEN Idle
                            ELSE [@ EXCEPT !.pc = "query", !.region = r, !.new_region = None]]
Start(r) == region[r].start
AllocatingRegions ==
    {allocating[s] : s \in Shared} \cup {own[w][b] : w \in Worker, b \in BOOLEAN}
Referenced ==
    regionQue \cup largeRegionQue \cup Range(evacuationQue) \cup AllocatingRegions
    \cup {at[w].region : w \in Worker} \cup {at[w].new_region : w \in Worker}
FreeChunk == Chunk \ {Start(r) : r \in Region}

-----------------------------------------------------------------------------
(* allocate_from_region, step by step.  A user thread is in a critical     *)
(* section from here to its return.                                        *)
Begin(w, type, object) ==
    /\ At(w, "idle")
    /\ at' = [at EXCEPT ![w] = [Idle EXCEPT !.pc = "try", !.type = type, !.object = object]]
    /\ UNCHANGED <<heapVars, mapVars, queVars, gcVars>>

(* The region an allocation goes to; a large object has none. *)
AllocatingRegion(w) ==
    CASE at[w].type = "SMALL" -> own[w][relocate(w)]
      [] at[w].type = "LARGE" -> None
      [] OTHER -> allocating[at[w].type]
(* GCRegion::allocate: tests, and an exchange that takes the memory, while *)
(* nothing is evacuated. *)
Open_evacuatedToo(r) == r # None /\ region[r].used < Capacity
Open(r) == r # None /\ ~region[r].evacuated /\ region[r].used < Capacity
Relocated(w, regions) ==
    IF relocate(w)
    THEN [regions EXCEPT ![at[w].object[1]].left = @ \ {at[w].object[2]}] ELSE regions
Try(w) ==
    /\ At(w, "try")
    /\ LET r == AllocatingRegion(w)
       IN  IF r # None /\ Open(r)
           THEN region' = Relocated(w, [region EXCEPT ![r].used = @ + 1]) /\ Returned(w, r)
           ELSE /\ at' = [at EXCEPT ![w].region = r, ![w].pc = "new"]
                /\ UNCHANGED region
    /\ UNCHANGED <<allocating, own, mapVars, queVars, gcVars>>

(* Memory from the pools, which try again for ever when there is none.     *)
NewRegion(w) ==
    /\ At(w, "new")
    /\ \E r \in Region \ Referenced, a \in FreeChunk :
           /\ \A s \in Region \ Referenced : r <= s
           /\ region' = [region EXCEPT ![r] = [NoMemory EXCEPT !.type = at[w].type, !.start = a]]
           /\ own' = IF at[w].type = "SMALL" THEN [own EXCEPT ![w][relocate(w)] = r] ELSE own
           /\ at' = [at EXCEPT ![w].new_region = r,
                               ![w].pc = IF at[w].type \in Shared THEN "publish" ELSE "emplace"]
    /\ UNCHANGED <<allocating, mapVars, queVars, gcVars>>
Exhausted(w) ==
    /\ At(w, "new") /\ (FreeChunk = {} \/ Region \subseteq Referenced)
    /\ UNCHANGED vars

(* Under regionMapMtx the first to come publishes its region, and enters   *)
(* it in the map before anyone can look for it there; the others free      *)
(* theirs and start again.                                                 *)
First(w) == allocating[at[w].type] = at[w].region
Again(w) == at' = [at EXCEPT ![w].pc = "try", ![w].new_region = None]
Discard(w) == Again(w) /\ region' = [region EXCEPT ![at[w].new_region] = NoMemory]
Publish_unlocked(w) ==
    /\ At(w, "publish") /\ mapMtx = None
    /\ IF First(w)
       THEN /\ allocating' = [allocating EXCEPT ![at[w].type] = at[w].new_region]
            /\ Goto(w, "emplace") /\ UNCHANGED region
       ELSE Discard(w) /\ UNCHANGED allocating
    /\ UNCHANGED <<own, mapVars, queVars, gcVars>>
Publish(w) ==
    /\ At(w, "publish") /\ mapMtx = None
    /\ IF First(w)
       THEN /\ allocating' = [allocating EXCEPT ![at[w].type] = at[w].new_region]
            /\ mapMtx' = w /\ Goto(w, "emplace") /\ UNCHANGED region
       ELSE Discard(w) /\ UNCHANGED <<allocating, mapMtx>>
    /\ UNCHANGED <<own, regionMap, queVars, gcVars>>
(* The other kinds lock only for the map.  emplace leaves an entry that is *)
(* there already.  Only the selection takes regions from the queues of the *)
(* smaller ones, and it waits for the allocation; the first pass over the  *)
(* large ones holds their queue.                                           *)
Emplace(w) ==
    /\ At(w, "emplace") /\ mapMtx \in {None, w}
    /\ LET r == at[w].new_region
       IN  /\ regionMap' = IF regionMap[Start(r)] = None THEN [regionMap EXCEPT ![Start(r)] = r]
                           ELSE regionMap
           /\ IF at[w].type = "LARGE" THEN Goto(w, "push") /\ UNCHANGED regionQue
              ELSE Again(w) /\ regionQue' = regionQue \cup {r}
    /\ mapMtx' = None
    /\ UNCHANGED <<heapVars, largeRegionQue, evacuationQue, gcVars>>
PushLarge(w) ==
    /\ At(w, "push") /\ gcpc # "clearLarge"
    /\ largeRegionQue' = largeRegionQue \cup {at[w].new_region}
    /\ Returned(w, at[w].new_region)
    /\ UNCHANGED <<heapVars, mapVars, regionQue, evacuationQue, gcVars>>

(* The constructor of a GCPtr in the new object asks whether it is a root: *)
(* the region that begins last before the object.                          *)
queryRegionMap(a) ==
    LET before == {b \in Chunk : b <= a /\ regionMap[b] # None}
    IN  IF before = {} THEN None ELSE regionMap[Max(before)]
Asks(w) == At(w, "query") /\ mapMtx = None
Answer(w) == queryRegionMap(Start(at[w].region))
is_root(w) ==
    /\ Asks(w) /\ at' = [at EXCEPT ![w] = Idle]
    /\ UNCHANGED <<heapVars, mapVars, queVars, gcVars>>

allocate_from_region(w) ==
    \/ Try(w) \/ NewRegion(w) \/ Exhausted(w) \/ Publish(w) \/ Emplace(w) \/ PushLarge(w)
    \/ is_root(w)

-----------------------------------------------------------------------------
(* The collection. *)
Sweeping == gcpc \in {"relocate", "free", "clearLarge", "purgeLarge"}

MakeGC(t) == \E type \in Makes[t] : Begin(t, type, None)
(* A user thread relocates an object of any region being evacuated, a GC   *)
(* thread those of the regions in its share, while they are where they     *)
(* were.                                                                   *)
RelocateObject(w) ==
    /\ IF w \in Thread THEN Sweeping ELSE gcpc = "relocate"
    /\ \E r \in (IF w \in Thread THEN Range(evacuationQue) ELSE todo[w]) :
           /\ Start(r) # None /\ (w \in Thread => region[r].type \in Uses[w])
           /\ \E k \in region[r].left : Begin(w, region[r].type, <<r, k>>)

SwitchMarkState ==
    /\ gcpc = "idle" /\ gcpc' = "marking"
    /\ cms' = IF cms = M0 THEN M1 ELSE M0
    /\ UNCHANGED <<heapVars, mapVars, queVars, todo, at>>
(* GCRegion::mark of a large region. *)
Mark(r) ==
    /\ gcpc = "marking" /\ r \in largeRegionQue
    /\ region' = [region EXCEPT ![r].mark = cms]
    /\ UNCHANGED <<allocating, own, mapVars, queVars, gcVars, at>>
canFree(r) == region[r].mark \notin {None, cms}

(* How a queue is shared out between the GC threads: the last takes what   *)
(* the division leaves.                                                    *)
Share_even(g, que) ==
    LET snum == Len(que) \div gcThreadCount
    IN  {que[j] : j \in (g * snum + 1)..((g + 1) * snum)}
Share(g, que) ==
    LET snum == Len(que) \div gcThreadCount
        last == IF g = gcThreadCount - 1 THEN Len(que) ELSE (g + 1) * snum
    IN  {que[j] : j \in (g * snum + 1)..last}
Shares(que) == [g \in GCThread |-> Share(g, que)]

(* The queue alone refers to the region, or it has fragments. *)
Selectable(r) == region[r].used > 0 \/ r \notin AllocatingRegions
(* The regions that are gone with the last reference, when their queue     *)
(* drops them. *)
Destroyed(S, regions) == [r \in Region |-> IF r \in S THEN NoMemory ELSE regions[r]]
RegionsUnmapped(S) ==
    [a \in Chunk |-> IF \E r \in S : Start(r) = a THEN None ELSE regionMap[a]]
Evacuated(rec) == [rec EXCEPT !.evacuated = TRUE, !.left = 1..rec.used]
(* SelectRelocationSet, while the world is stopped: nobody is in a         *)
(* critical section.  The evacuation before this one is forgotten, and     *)
(* the queue holds the new one in some order.                              *)
Select ==
    /\ gcpc = "marking" /\ gcpc' = "relocate"
    /\ \A t \in Thread : At(t, "idle")
    /\ \E S \in SUBSET {r \in regionQue : Selectable(r)} :
           LET que == SetToSeq(S)
           IN  /\ evacuationQue' = que /\ todo' = Shares(que)
               /\ regionQue' = regionQue \ S
               /\ region' = Destroyed(Range(evacuationQue) \ AllocatingRegions,
                      [r \in Region |-> IF r \in S THEN Evacuated(region[r]) ELSE region[r]])
               /\ regionMap' = RegionsUnmapped(S)
    /\ UNCHANGED <<allocating, own, mapMtx, largeRegionQue, cms, at>>
(* What is left of the region then is dead: nobody relocates it. *)
RegionDone(g) ==
    /\ gcpc = "relocate" /\ At(g, "idle")
    /\ \E r \in todo[g] : /\ todo' = [todo EXCEPT ![g] = @ \ {r}]
                          /\ region' = [region EXCEPT ![r].left = {}]
    /\ UNCHANGED <<allocating, own, mapVars, queVars, cms, gcpc, at>>
(* GCRegion::free; only the forwarding table stays. *)
FreeRegion(g) ==
    /\ gcpc = "free"
    /\ \E r \in todo[g] :
           /\ todo' = [todo EXCEPT ![g] = @ \ {r}]
           /\ region' = [region EXCEPT ![r] = [NoMemory EXCEPT !.evacuated = TRUE]]
    /\ UNCHANGED <<allocating, own, mapVars, queVars, cms, gcpc, at>>
(* waitForTaskComplete. *)
TasksComplete ==
    /\ \A g \in GCThread : todo[g] = {} /\ At(g, "idle")
    /\ \/ gcpc = "relocate" /\ gcpc' = "free" /\ todo' = Shares(evacuationQue)
       \/ gcpc = "free" /\ gcpc' = "clearLarge" /\ UNCHANGED todo
    /\ UNCHANGED <<heapVars, mapVars, queVars, cms, at>>
triggerRelocation == TasksComplete \/ \E g \in GCThread : RegionDone(g) \/ FreeRegion(g)

(* clearFreeRegion: one pass erases and frees, another drops from the      *)
(* queue.                                                                  *)
Erased(r) == regionMap[Start(r)] # r
EraseLarge(r) ==
    /\ gcpc = "clearLarge" /\ mapMtx = None
    /\ r \in largeRegionQue /\ canFree(r) /\ Start(r) # None /\ ~Erased(r)
    /\ regionMap' = [regionMap EXCEPT ![Start(r)] = None]
    /\ UNCHANGED <<heapVars, mapMtx, queVars, gcVars, at>>
FreeLarge_unerased(r) ==
    /\ gcpc = "clearLarge"
    /\ r \in largeRegionQue /\ canFree(r) /\ Start(r) # None
    /\ region' = [region EXCEPT ![r].start = None]
    /\ UNCHANGED <<allocating, own, mapVars, queVars, gcVars, at>>
FreeLarge(r) ==
    /\ gcpc = "clearLarge"
    /\ r \in largeRegionQue /\ canFree(r) /\ Start(r) # None /\ Erased(r)
    /\ region' = [region EXCEPT ![r].start = None]
    /\ UNCHANGED <<allocating, own, mapVars, queVars, gcVars, at>>
PassDone ==
    /\ gcpc = "clearLarge" /\ gcpc' = "purgeLarge"
    /\ \A r \in largeRegionQue : canFree(r) => Start(r) = None
    /\ UNCHANGED <<heapVars, mapVars, queVars, cms, todo, at>>
PurgeLarge ==
    /\ gcpc = "purgeLarge" /\ gcpc' = "idle"
    /\ largeRegionQue' = {r \in largeRegionQue : ~canFree(r)}
    /\ region' = Destroyed(largeRegionQue \ largeRegionQue', region)
    /\ UNCHANGED <<allocating, own, mapVars, regionQue, evacuationQue, cms, todo, at>>
clearFreeRegion == PassDone \/ PurgeLarge \/ \E r \in Region : EraseLarge(r) \/ FreeLarge(r)

Init ==
    /\ region = [r \in Region |-> NoMemory]
    /\ allocating = [s \in Shared |-> None]
    /\ own = [w \in Worker |-> [b \in BOOLEAN |-> None]]
    /\ regionMap = [a \in Chunk |-> None] /\ mapMtx = None
    /\ regionQue = {} /\ largeRegionQue = {} /\ evacuationQue = <<>>
    /\ cms \in {M0, M1} /\ gcpc = "idle" /\ todo = [g \in GCThread |-> {}]
    /\ at = [w \in Worker |-> Idle]

Next ==
    \/ \E t \in Thread : MakeGC(t)
    \/ \E w \in Worker : RelocateObject(w) \/ allocate_from_region(w)
    \/ SwitchMarkState \/ Select \/ triggerRelocation \/ clearFreeRegion
    \/ \E r \in Region : Mark(r)
Spec == Init /\ [][Next]_vars

-----------------------------------------------------------------------------
(* A GCPtr built in an object that is not large is never taken for a root: *)
(* its region is in the map by the time anyone can ask, although it was    *)
(* published before.                                                       *)
InsideNeverRoot == \A w \in Worker : Asks(w) => Answer(w) = at[w].region

(* Every region that has memory is in the hands of one thread, in one      *)
(* queue or in the evacuation, with memory of its own; no queue keeps one  *)
(* that has none, but the large one between its passes.                    *)
RegionsAccounted ==
    /\ \A r \in Region : Start(r) # None =>
           /\ \A s \in Region \ {r} : Start(s) # Start(r)
           /\ Cardinality({w \in Worker : at[w].new_region = r})
                + Cardinality({q \in {1, 2, 3} :
                                r \in <<regionQue, largeRegionQue, Range(evacuationQue)>>[q]}) = 1
    /\ \A r \in regionQue : Start(r) # None
    /\ \A r \in largeRegionQue : Start(r) = None => Sweeping /\ canFree(r)

(* The map leads to no region that is evacuated, released or gone, and to  *)
(* every one that is in a queue and stays.                                 *)
MapIsExact ==
    /\ \A a \in Chunk : regionMap[a] # None =>
           Start(regionMap[a]) = a /\ ~region[regionMap[a]].evacuated
    /\ \A r \in regionQue : regionMap[Start(r)] = r
    /\ \A r \in largeRegionQue : (canFree(r) /\ Sweeping) \/ regionMap[Start(r)] = r

(* It is the space of objects ObjectSpace asks for. *)
Held(S) == {r \in S : Start(r) # None}
Objects == (UNION {{Start(r)} \X (1..region[r].used) : r \in Held(Region)})
           \cup {<<Start(r), 0>> : r \in Held(largeRegionQue)}
Retired == {Start(r) : r \in {s \in Held(Region) : region[s].evacuated}
                             \cup {s \in Held(largeRegionQue) : Erased(s)}}
Space == INSTANCE ObjectSpace WITH Offset <- 0..Capacity, objects <- Objects, retired <- Retired
ImplementsObjectSpace == Space!Spec
=============================================================================
