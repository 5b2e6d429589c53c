----------------------- MODULE GCMemoryAllocatorProofs -----------------------
(***************************************************************************)
(* For any threads, GC threads, regions, memory and kinds of object: a     *)
(* GCPtr built in an object is never taken for a root, every region with   *)
(* memory is in one place, the map of regions is exact, and the allocator  *)
(* implements ObjectSpace.                                                 *)
(*                                                                         *)
(* Inv below says where a region can be and what an allocation or a        *)
(* clearing under way may assume of it; every action keeps Inv and maps to *)
(* a step of ObjectSpace or to none, one lemma per action.                 *)
(***************************************************************************)
EXTENDS GCMemoryAllocator, FiniteSetTheorems, TLAPS

Kinds == RegionEnum \ {"LARGE"}
RegionRecord ==
    [type : RegionEnum \cup {None}, start : Chunk \cup {None}, used : Nat, left : SUBSET Nat,
     evacuated : BOOLEAN, mark : {None, M0, M1}]
Steps == {"idle", "try", "new", "publish", "emplace", "push", "query"}
AtRecord ==
    [pc : Steps, type : RegionEnum \cup {None}, object : (Region \X Nat) \cup {None},
     region : Region \cup {None}, new_region : Region \cup {None}]
TypeInv ==
    /\ region \in [Region -> RegionRecord]
    /\ allocating \in [Shared -> Region \cup {None}]
    /\ own \in [Worker -> [BOOLEAN -> Region \cup {None}]]
    /\ regionMap \in [Chunk -> Region \cup {None}]
    /\ mapMtx \in Worker \cup {None}
    /\ regionQue \subseteq Region /\ largeRegionQue \subseteq Region
    /\ evacuationQue \in Seq(Region)
    /\ cms \in {M0, M1}
    /\ gcpc \in {"idle", "marking", "relocate", "free", "clearLarge", "purgeLarge"}
    /\ todo \in [GCThread -> SUBSET Region]
    /\ at \in [Worker -> AtRecord]

Evac == Range(evacuationQue)
Clearing == gcpc \in {"clearLarge", "purgeLarge"}

(* What a call may be doing: only a GC thread relocates, in its own share; *)
(* an allocation has a region of its own from NewRegion to its queue, and  *)
(* the mutex from the publication of a shared one to its entry in the map. *)
Call(w) ==
    /\ At(w, "idle") => at[w] = Idle
    /\ ~At(w, "idle") => at[w].type \in RegionEnum
    /\ at[w].new_region # None <=> at[w].pc \in {"publish", "emplace", "push"}
    /\ At(w, "publish") => at[w].type \in Shared
    /\ At(w, "push") => at[w].type = "LARGE"
    /\ at[w].type = "LARGE" \/ At(w, "query") => w \in Thread /\ ~relocate(w)
    /\ w \in GCThread /\ ~At(w, "idle") => relocate(w) /\ gcpc = "relocate"
    /\ mapMtx = w <=> At(w, "emplace") /\ at[w].type \in Shared

(* A new region is known to its thread alone, but for one that is          *)
(* published. *)
Fresh(w) ==
    LET r == at[w].new_region
    IN  r # None =>
            /\ Start(r) # None /\ ~region[r].evacuated
            /\ region[r].type = at[w].type /\ region[r].mark = None
            /\ r \notin regionQue \cup largeRegionQue \cup Evac
            /\ \A v \in Worker \ {w} : at[v].new_region # r
            /\ At(w, "publish") => region[r].used = 0 /\ r \notin AllocatingRegions
            /\ At(w, "push") => regionMap[Start(r)] = r

(* Regions that are published and whose entry in the map is yet to come.   *)
Emplacing == {at[w].new_region : w \in {v \in Worker : At(v, "emplace") /\ at[v].type \in Shared}}

(* A GCPtr is built in a region that cannot go away. *)
Built(w) ==
    LET r == at[w].region
    IN  At(w, "query") =>
            /\ r # None
            /\ \/ r \in regionQue \cup Emplacing
               \/ r \in largeRegionQue /\ (region[r].mark = None
                                            \/ (gcpc = "marking" /\ region[r].mark = cms))

Calls == \A w \in Worker : Call(w) /\ Fresh(w) /\ Built(w)

QueInv ==
    /\ regionQue \cap largeRegionQue = {}
    /\ Evac \cap (regionQue \cup largeRegionQue) = {}
    /\ \A r \in regionQue :
           /\ Start(r) # None /\ ~region[r].evacuated /\ region[r].type \in Kinds
           /\ regionMap[Start(r)] = r
LargeInv ==
    \A r \in largeRegionQue :
        /\ ~region[r].evacuated
        /\ Start(r) = None => canFree(r) /\ Clearing
        /\ Start(r) # None => regionMap[Start(r)] = r \/ (canFree(r) /\ gcpc = "clearLarge")
        /\ gcpc = "purgeLarge" /\ canFree(r) => Start(r) = None
EvacInv ==
    /\ \A g \in GCThread : todo[g] \subseteq Evac
    /\ \A r \in Evac :
           /\ region[r].evacuated
           /\ Start(r) # None =>
                  /\ region[r].type \in Kinds
                  /\ \/ gcpc = "relocate"
                     \/ gcpc = "free" /\ \E g \in GCThread : r \in todo[g]
(* Memory lies in one region, and the region is somebody's. *)
OwnerInv ==
    \A r \in Region : Start(r) # None =>
        /\ \A s \in Region \ {r} : Start(s) # Start(r)
        /\ \/ r \in regionQue \cup largeRegionQue \cup Evac
           \/ \E w \in Worker : at[w].new_region = r
(* An allocating region takes objects only while it is in its queue, or on *)
(* the way there. *)
AllocInv ==
    /\ \A s \in Shared : LET r == allocating[s]
                         IN  r # None => region[r].evacuated \/ r \in regionQue \cup Emplacing
    /\ \A w \in Worker, b \in BOOLEAN :
           LET r == own[w][b]
           IN  r # None => \/ region[r].evacuated \/ r \in regionQue
                           \/ At(w, "emplace") /\ at[w].type = "SMALL" /\ at[w].new_region = r
(* The map leads to regions that are in a queue or about to be. *)
MapInv ==
    \A a \in Chunk : LET r == regionMap[a]
                     IN  r # None => /\ Start(r) = a
                                     /\ \/ r \in regionQue \cup largeRegionQue
                                        \/ \E w \in Worker : At(w, "push") /\ at[w].new_region = r

Inv == TypeInv /\ Calls /\ QueInv /\ LargeInv /\ EvacInv /\ OwnerInv /\ AllocInv /\ MapInv

-----------------------------------------------------------------------------
(* The names are apart, and the kinds of region are what they are.         *)
LEMMA Names ==
    /\ M0 # M1 /\ Thread \cap GCThread = {} /\ Worker = Thread \cup GCThread
    /\ None \notin Region /\ None \notin Chunk /\ None \notin Worker /\ None \notin RegionEnum
    /\ \A r \in Region, k \in Nat : <<r, k>> # None
    /\ Shared \subseteq Kinds /\ Kinds \subseteq RegionEnum /\ "LARGE" \notin Kinds
    /\ "SMALL" \in Kinds /\ "SMALL" \notin Shared
    /\ Capacity \in Nat \ {0} /\ gcThreadCount \in Nat \ {0}
<1>1. M0 # M1 /\ Thread \cap GCThread = {} /\ Worker = Thread \cup GCThread
    BY NameAssumption DEF Worker
<1>2. /\ None \notin Region /\ None \notin Chunk /\ None \notin Worker /\ None \notin RegionEnum
      /\ \A r \in Region, k \in Nat : <<r, k>> # None
    BY NameAssumption
<1>3. /\ Shared \subseteq Kinds /\ Kinds \subseteq RegionEnum /\ "LARGE" \notin Kinds
      /\ "SMALL" \in Kinds /\ "SMALL" \notin Shared
    BY DEF Shared, Kinds, RegionEnum
<1>4. QED BY <1>1, <1>2, <1>3, CountAssumption

(* What TypeInv says, variable by variable. *)
LEMMA Types ==
    ASSUME TypeInv
    PROVE  /\ \A r \in Region :
                  /\ region[r] \in RegionRecord
                  /\ Start(r) \in Chunk \cup {None} /\ region[r].start = Start(r)
                  /\ region[r].type \in RegionEnum \cup {None} /\ region[r].used \in Nat
                  /\ region[r].left \subseteq Nat /\ region[r].evacuated \in BOOLEAN
                  /\ region[r].mark \in {None, M0, M1}
           /\ \A w \in Worker :
                  /\ at[w] \in AtRecord
                  /\ at[w].pc \in Steps /\ at[w].type \in RegionEnum \cup {None}
                  /\ at[w].object \in (Region \X Nat) \cup {None}
                  /\ at[w].region \in Region \cup {None}
                  /\ at[w].new_region \in Region \cup {None}
           /\ \A s \in Shared : allocating[s] \in Region \cup {None}
           /\ \A w \in Worker, b \in BOOLEAN : own[w][b] \in Region \cup {None}
           /\ \A a \in Chunk : regionMap[a] \in Region \cup {None}
           /\ Evac \subseteq Region /\ regionQue \subseteq Region /\ largeRegionQue \subseteq Region
           /\ Emplacing \subseteq Region \cup {None}
<1>1. \A r \in Region : region[r] \in RegionRecord BY DEF TypeInv
<1>2. \A w \in Worker : at[w] \in AtRecord BY DEF TypeInv
<1>3. Evac \subseteq Region BY DEF TypeInv, Evac, Range
<1>4. \A w \in Worker : at[w].new_region \in Region \cup {None} BY <1>2 DEF AtRecord
<1>5. Emplacing \subseteq Region \cup {None} BY <1>4 DEF Emplacing
<1>6. /\ \A s \in Shared : allocating[s] \in Region \cup {None}
      /\ \A w \in Worker, b \in BOOLEAN : own[w][b] \in Region \cup {None}
      /\ \A a \in Chunk : regionMap[a] \in Region \cup {None}
      /\ regionQue \subseteq Region /\ largeRegionQue \subseteq Region
    BY DEF TypeInv
<1>7. \A r \in Region :
                  /\ Start(r) \in Chunk \cup {None} /\ region[r].start = Start(r)
                  /\ region[r].type \in RegionEnum \cup {None} /\ region[r].used \in Nat
                  /\ region[r].left \subseteq Nat /\ region[r].evacuated \in BOOLEAN
                  /\ region[r].mark \in {None, M0, M1}
    BY <1>1 DEF RegionRecord, Start
<1>8. \A w \in Worker :
                  /\ at[w].pc \in Steps /\ at[w].type \in RegionEnum \cup {None}
                  /\ at[w].object \in (Region \X Nat) \cup {None}
                  /\ at[w].region \in Region \cup {None}
    BY <1>2 DEF AtRecord
<1>9. QED BY <1>1, <1>2, <1>3, <1>4, <1>5, <1>6, <1>7, <1>8

(* The queue of the selection holds what it was made of. *)
LEMMA QueueOfSet ==
    ASSUME NEW S \in SUBSET Region
    PROVE  SetToSeq(S) \in Seq(Region) /\ Range(SetToSeq(S)) = S
<1> DEFINE n == Cardinality(S)
<1>1. IsFiniteSet(S) BY NumberAssumption, FS_Subset
<1>2. n \in Nat /\ ExistsBijection(1..n, S) BY <1>1, FS_CardinalityType
<1>3. PICK f \in Bijection(1..n, S) : TRUE BY <1>2 DEF ExistsBijection
<1>4. f \in [1..n -> S] /\ IsInjective(f) BY <1>3 DEF Bijection, Injection
<1>5. SetToSeq(S) \in [1..n -> S] /\ IsInjective(SetToSeq(S))
    BY <1>4 DEF SetToSeq
<1> DEFINE q == SetToSeq(S)
<1>6. q \in Injection(1..n, S) BY <1>5 DEF Injection
<1>7. IsFiniteSet(1..n) /\ Cardinality(1..n) = n BY <1>2, FS_Interval
<1>8. q \in Surjection(1..n, S) BY <1>1, <1>6, <1>7, FS_Injection
<1>9. Range(q) = S BY <1>5, <1>8 DEF Surjection, Range
<1>10. q \in Seq(Region)
    <2> HIDE DEF q, n
    <2>1. q \in [1..n -> Region] BY <1>5 DEF q
    <2>2. QED BY <1>2, <2>1
<1>11. QED BY <1>9, <1>10

(* The shares are parts of the queue, and together the whole of it.        *)
LEMMA SharesWhole ==
    ASSUME NEW que \in Seq(Region)
    PROVE  /\ Shares(que) \in [GCThread -> SUBSET Region]
           /\ \A g \in GCThread : Shares(que)[g] \subseteq Range(que)
           /\ \A r \in Range(que) : \E g \in GCThread : r \in Shares(que)[g]
<1> DEFINE n == Len(que)
           N == gcThreadCount
           snum == n \div N
<1>1. n \in Nat /\ N \in Nat /\ N > 0 /\ que \in [1..n -> Region] BY Names
<1>2. snum \in Nat /\ N * snum <= n BY <1>1
<1>3. ASSUME NEW g \in 0..(N - 1) PROVE (g + 1) * snum \in Nat /\ g * snum \in Nat /\ (g + 1) * snum <= N * snum
    <2>1. g \in Nat /\ g + 1 <= N BY <1>1
    <2> HIDE DEF snum
    <2>2. (g + 1) * snum \in Nat /\ g * snum \in Nat BY <1>2, <2>1
    <2>3. QED BY <1>1, <1>2, <2>1, <2>2
<1>4. ASSUME NEW g \in GCThread PROVE Share(g, que) \subseteq Range(que) /\ Share(g, que) \subseteq Region
    <2> DEFINE last == IF g = N - 1 THEN n ELSE (g + 1) * snum
    <2>1. last \in Nat /\ last <= n /\ g * snum \in Nat
        <3> HIDE DEF snum, n, N
        <3>1. N = gcThreadCount BY DEF N
        <3>2. g \in 0..(N - 1) BY <3>1 DEF GCThread
        <3>3. (g + 1) * snum \in Nat /\ g * snum \in Nat /\ (g + 1) * snum <= N * snum BY <1>3, <3>2
        <3>4. N * snum \in Nat BY <1>1, <1>2
        <3>5. QED BY <1>1, <1>2, <3>3, <3>4
    <2>2. Share(g, que) = {que[j] : j \in (g * snum + 1)..last} BY DEF Share
    <2>3. \A j \in (g * snum + 1)..last : j \in 1..n
        <3> HIDE DEF snum, last
        <3>1. QED BY <1>1, <2>1
    <2>4. DOMAIN que = 1..n BY <1>1
    <2> HIDE DEF n, N, snum, last
    <2>5. QED BY <1>1, <2>2, <2>3, <2>4 DEF Range
<1>5. ASSUME NEW r \in Range(que) PROVE \E g \in GCThread : r \in Share(g, que)
    <2>1. PICK j \in 1..n : r = que[j] BY <1>1 DEF Range
    <2>2. CASE \E g \in 0..(N - 1) : j \in (g * snum + 1)..((g + 1) * snum)
        <3>1. PICK g \in 0..(N - 1) : j \in (g * snum + 1)..((g + 1) * snum) BY <2>2
        <3>2. g \in GCThread BY <3>1 DEF GCThread
        <3> DEFINE last == IF g = N - 1 THEN n ELSE (g + 1) * snum
        <3>3. j \in (g * snum + 1)..last
            <4> HIDE DEF snum, n
            <4>1. QED BY <1>1, <1>2, <1>3, <2>1, <3>1
        <3>4. Share(g, que) = {que[i] : i \in (g * snum + 1)..last} BY DEF Share
        <3> HIDE DEF last, snum
        <3>5. QED BY <2>1, <3>2, <3>3, <3>4
    <2>3. CASE \A g \in 0..(N - 1) : j \notin (g * snum + 1)..((g + 1) * snum)
        <3> DEFINE g == N - 1
        <3>1. g \in GCThread BY <1>1 DEF GCThread
        <3>2. g * snum + 1 <= j
            <4>1. CASE snum = 0 BY <1>1, <2>1, <4>1
            <4>2. CASE snum # 0
                <5> HIDE DEF n, N, snum, g
                <5>0. g \in Nat /\ N = g + 1 BY <1>1 DEF g
                <5> DEFINE h == (j - 1) \div snum
                <5>1. h \in Nat /\ h * snum <= j - 1 /\ j - 1 < h * snum + snum
                    BY <1>2, <2>1, <4>2
                <5> HIDE DEF h
                <5>2. (h + 1) * snum = h * snum + snum /\ h * snum \in Nat BY <5>1, <1>2
                <5>9. j \in Nat /\ (h + 1) * snum \in Nat BY <1>2, <2>1, <5>1, <5>2
                <5>3. j \in (h * snum + 1)..((h + 1) * snum) BY <1>2, <5>1, <5>2, <5>9
                <5>4. h \notin 0..(N - 1) BY <2>3, <5>3
                <5>5. g <= h BY <1>1, <5>0, <5>1, <5>4
                <5>6. g * snum <= h * snum BY <1>2, <5>0, <5>1, <5>5
                <5>7. g * snum \in Nat BY <1>2, <5>0
                <5>8. QED BY <1>1, <2>1, <5>1, <5>2, <5>6, <5>7
            <4>3. QED BY <4>1, <4>2
        <3>3. Share(g, que) = {que[i] : i \in (g * snum + 1)..n} BY DEF Share
        <3>4. g * snum \in Nat BY <1>1, <1>2, <1>3
        <3> HIDE DEF g, snum
        <3>5. j \in (g * snum + 1)..n BY <1>1, <2>1, <3>2, <3>4
        <3> HIDE DEF n
        <3>6. QED BY <2>1, <3>1, <3>3, <3>5
    <2>4. QED BY <2>2, <2>3
<1>6. Shares(que) \in [GCThread -> SUBSET Region] BY <1>4 DEF Shares
<1>7. QED BY <1>4, <1>5, <1>6 DEF Shares

(* The call of worker w alone goes on; regions keep all but their objects; *)
(* what the program sees is a step of ObjectSpace. *)
Others(w) == at' \in [Worker -> AtRecord] /\ \A v \in Worker \ {w} : at'[v] = at[v]
SameRegions ==
    /\ region' \in [Region -> RegionRecord]
    /\ \A r \in Region :
           /\ Start(r)' = Start(r) /\ region'[r].type = region[r].type
           /\ region'[r].evacuated = region[r].evacuated /\ region'[r].mark = region[r].mark
SpaceStep == [Space!Next]_(Space!spaceVars)

(* The invariant, part by part.                                            *)
LEMMA Facts ==
    ASSUME Inv
    PROVE  /\ \A w \in Worker : Call(w) /\ Fresh(w) /\ Built(w)
           /\ TypeInv /\ QueInv /\ LargeInv /\ EvacInv /\ OwnerInv /\ AllocInv /\ MapInv
BY DEF Inv, Calls

(* A tuple of variables is unchanged when each of them is.                 *)
LEMMA Unpack ==
    /\ heapVars' = heapVars <=> region' = region /\ allocating' = allocating /\ own' = own
    /\ mapVars' = mapVars <=> regionMap' = regionMap /\ mapMtx' = mapMtx
    /\ queVars' = queVars <=> /\ regionQue' = regionQue /\ largeRegionQue' = largeRegionQue
                              /\ evacuationQue' = evacuationQue
    /\ gcVars' = gcVars <=> cms' = cms /\ gcpc' = gcpc /\ todo' = todo
BY DEF heapVars, mapVars, queVars, gcVars

(* Steps that leave memory, objects and the map alone do not show in       *)
(* ObjectSpace.                                                            *)
LEMMA SameSpace ==
    ASSUME \A r \in Region : Start(r)' = Start(r) /\ region'[r].used = region[r].used
                             /\ region'[r].evacuated = region[r].evacuated,
           UNCHANGED <<regionMap, largeRegionQue>>, largeRegionQue \subseteq Region
    PROVE  SpaceStep
<1>1. Objects' = Objects BY DEF Objects, Held
<1>2. Retired' = Retired BY DEF Retired, Held, Erased
<1>3. QED BY <1>1, <1>2 DEF SpaceStep, Space!spaceVars

(* A step of one call that owns no region yet and only takes an object     *)
(* from one keeps the invariant.                                           *)
LEMMA LocalInv ==
    ASSUME Inv, NEW w \in Worker, SameRegions, Others(w),
           UNCHANGED <<allocating, own, mapVars, queVars, gcVars>>,
           \A r \in Region : region'[r].used = region[r].used \/ r \in regionQue \cup Emplacing,
           at[w].new_region = None, at'[w].new_region = None,
           Call(w)', At(w, "query")' => at'[w].region \in (regionQue \cup Emplacing) \ {None}
    PROVE  Inv'
<1>1. /\ allocating' = allocating /\ own' = own /\ regionMap' = regionMap
      /\ mapMtx' = mapMtx /\ regionQue' = regionQue /\ largeRegionQue' = largeRegionQue
      /\ evacuationQue' = evacuationQue /\ cms' = cms /\ gcpc' = gcpc /\ todo' = todo
    BY Unpack
<1>2. /\ \A v \in Worker \ {w} : at'[v] = at[v]
      /\ \A v \in Worker : Call(v) /\ Fresh(v) /\ Built(v)
    BY Facts DEF Others
<1>3. at[w].pc \notin {"publish", "emplace", "push"} /\ at'[w].pc \notin {"publish", "emplace", "push"}
    BY <1>2 DEF Call
<1>4. /\ TypeInv' /\ TypeInv /\ Evac' = Evac /\ Emplacing' = Emplacing
      /\ AllocatingRegions' = AllocatingRegions
      /\ \A r \in Region : Start(r)' = Start(r) /\ canFree(r)' = canFree(r)
    <2>1. TypeInv BY Facts
    <2>2. TypeInv' BY <1>1, <2>1 DEF TypeInv, Others, SameRegions
    <2>3. Evac' = Evac BY <1>1 DEF Evac
    <2>4. AllocatingRegions' = AllocatingRegions BY <1>1 DEF AllocatingRegions
    <2>5. Emplacing' = Emplacing BY <1>2, <1>3 DEF Emplacing, At
    <2>6. \A r \in Region : Start(r)' = Start(r) /\ canFree(r)' = canFree(r)
        BY <1>1 DEF SameRegions, canFree
    <2>7. QED BY <2>1, <2>2, <2>3, <2>4, <2>5, <2>6
<1>5. Calls'
    <2>1. ASSUME NEW v \in Worker PROVE Call(v)'
        BY <1>1, <1>2 DEF Call, At, relocate
    <2>2. ASSUME NEW v \in Worker PROVE Fresh(v)'
        <3>1. CASE v = w BY <3>1 DEF Fresh
        <3>2. CASE v # w
            <4> DEFINE r == at[v].new_region
            <4>1. at'[v] = at[v] /\ at[v].new_region \in Region \cup {None}
                BY <1>2, <1>4, <3>2, Types
            <4>2. At(v, "publish") /\ r # None => r \notin regionQue \cup Emplacing
                BY <1>2, <4>1 DEF Fresh, Emplacing, At
            <4>3. QED BY <1>1, <1>2, <1>4, <4>1, <4>2 DEF Fresh, At, SameRegions
        <3>3. QED BY <3>1, <3>2
    <2>3. ASSUME NEW v \in Worker PROVE Built(v)'
        BY <1>1, <1>2, <1>4, Types DEF Built, At, SameRegions
    <2>4. QED BY <2>1, <2>2, <2>3 DEF Calls
<1>6. QueInv' /\ LargeInv' /\ EvacInv'
    BY <1>1, <1>4, Facts, Types DEF QueInv, LargeInv, EvacInv, Clearing, SameRegions
<1>7. OwnerInv' BY <1>1, <1>2, <1>4, Facts DEF OwnerInv
<1>8. AllocInv' BY <1>1, <1>2, <1>3, <1>4, Facts, Types DEF AllocInv, At, SameRegions
<1>9. MapInv' BY <1>1, <1>2, <1>3, <1>4, Facts, Types DEF MapInv, At
<1>10. QED BY <1>4, <1>5, <1>6, <1>7, <1>8, <1>9 DEF Inv

(* A step that changes nothing keeps everything.                           *)
LEMMA StutterInv ==
    ASSUME Inv, UNCHANGED vars
    PROVE  Inv' /\ SpaceStep
<1>1. /\ region' = region /\ allocating' = allocating /\ own' = own /\ regionMap' = regionMap
      /\ mapMtx' = mapMtx /\ regionQue' = regionQue /\ largeRegionQue' = largeRegionQue
      /\ evacuationQue' = evacuationQue /\ cms' = cms /\ gcpc' = gcpc /\ todo' = todo /\ at' = at
    BY Unpack DEF vars
<1>2. SpaceStep BY <1>1, SameSpace, Facts DEF TypeInv, Start
<1>3. /\ Evac' = Evac /\ Emplacing' = Emplacing /\ AllocatingRegions' = AllocatingRegions
      /\ \A r : Start(r)' = Start(r) /\ canFree(r)' = canFree(r)
    BY <1>1 DEF Evac, Emplacing, AllocatingRegions, Start, canFree, At
<1>4. TypeInv' /\ QueInv' /\ LargeInv' /\ EvacInv' /\ OwnerInv' /\ AllocInv' /\ MapInv'
    BY <1>1, <1>3, Facts DEF TypeInv, QueInv, LargeInv, EvacInv, OwnerInv, AllocInv, MapInv, Clearing, At
<1>5. Calls'
    BY <1>1, <1>3, Facts DEF Calls, Call, Fresh, Built, At, relocate
<1>6. QED BY <1>2, <1>4, <1>5 DEF Inv

(* allocate and relocate begin: what the call is to do is well formed.     *)
LEMMA BeginInv ==
    ASSUME Inv, NEW w \in Worker, NEW type \in RegionEnum, NEW object \in (Region \X Nat) \cup {None},
           Begin(w, type, object),
           object = None => w \in Thread,
           object # None => type \in Kinds /\ (w \in GCThread => gcpc = "relocate")
    PROVE  Inv' /\ SpaceStep
<1> DEFINE rec == [Idle EXCEPT !.pc = "try", !.type = type, !.object = object]
<1>1. /\ At(w, "idle") /\ at' = [at EXCEPT ![w] = rec] /\ UNCHANGED <<heapVars, mapVars, queVars, gcVars>>
      /\ at \in [Worker -> AtRecord] /\ TypeInv
    BY Facts DEF Begin, TypeInv
<1>2. /\ rec \in AtRecord /\ rec.pc = "try" /\ rec.type = type /\ rec.object = object
      /\ rec.region = None /\ rec.new_region = None
    BY DEF Idle, AtRecord, Steps
<1> HIDE DEF rec
<1>3. Others(w) /\ at'[w] = rec BY <1>1, <1>2 DEF Others
<1>4. Call(w) BY Facts
<1>5. at[w].new_region = None BY <1>1, <1>4 DEF Call, At
<1>6. Call(w)'
    <2>1. mapMtx' # w BY <1>1, <1>4, Unpack DEF Call, At
    <2>2. gcpc' = gcpc BY <1>1, Unpack
    <2>3. QED BY <1>2, <1>3, <2>1, <2>2, Names DEF Call, At, relocate
<1>7. region' = region /\ SameRegions /\ UNCHANGED <<allocating, own, regionMap, largeRegionQue>>
    BY <1>1, Unpack DEF SameRegions, TypeInv, Start
<1>8. SpaceStep BY <1>1, <1>7, SameSpace DEF TypeInv, Start
<1>9. QED BY <1>1, <1>2, <1>3, <1>5, <1>6, <1>7, <1>8, LocalInv DEF At

(* A thread makes a new object.                                            *)
LEMMA MakeGCInv ==
    ASSUME Inv, NEW t \in Thread, MakeGC(t)
    PROVE  Inv' /\ SpaceStep
<1>1. PICK type \in Makes[t] : Begin(t, type, None) BY DEF MakeGC
<1>2. type \in RegionEnum BY KindAssumption
<1>3. QED BY <1>1, <1>2, BeginInv, Names DEF Worker

(* An object of a region being evacuated is relocated; those regions have  *)
(* no large kind.                                                          *)
LEMMA RelocateObjectInv ==
    ASSUME Inv, NEW w \in Worker, RelocateObject(w)
    PROVE  Inv' /\ SpaceStep
<1>1. PICK r \in (IF w \in Thread THEN Range(evacuationQue) ELSE todo[w]) :
          /\ Start(r) # None
          /\ \E k \in region[r].left : Begin(w, region[r].type, <<r, k>>)
    BY DEF RelocateObject
<1>2. PICK k \in region[r].left : Begin(w, region[r].type, <<r, k>>) BY <1>1
<1>3. r \in Evac BY <1>1, Facts DEF EvacInv, Evac, Worker
<1>4. r \in Region /\ k \in Nat BY <1>2, <1>3, Types, Facts
<1>5. region[r].type \in Kinds BY <1>1, <1>3, Facts DEF EvacInv
<1>6. w \in GCThread => gcpc = "relocate" BY Names DEF RelocateObject
<1>7. <<r, k>> # None /\ <<r, k>> \in Region \X Nat BY <1>4, Names
<1>8. region[r].type \in RegionEnum BY <1>5, Names
<1>9. QED BY <1>2, <1>5, <1>6, <1>7, <1>8, BeginInv

(* The region a thread takes memory from is in its queue, or on the way    *)
(* there. *)
LEMMA Allocates ==
    ASSUME Inv, NEW w \in Worker, At(w, "try"), AllocatingRegion(w) # None
    PROVE  /\ at[w].type # "LARGE" /\ AllocatingRegion(w) \in Region
           /\ ~region[AllocatingRegion(w)].evacuated => AllocatingRegion(w) \in regionQue \cup Emplacing
<1> DEFINE r == AllocatingRegion(w)
<1>1. at[w].type \in RegionEnum BY Facts DEF Call, At
<1>2. CASE at[w].type = "SMALL"
    <2>1. r = own[w][relocate(w)] /\ relocate(w) \in BOOLEAN BY <1>2 DEF AllocatingRegion, relocate
    <2>2. r \in Region BY <2>1, Types, Facts
    <2>3. QED BY <1>2, <2>1, <2>2, Facts DEF AllocInv, At
<1>3. CASE at[w].type \in Shared
    <2>1. r = allocating[at[w].type] BY <1>3 DEF AllocatingRegion, Shared
    <2>2. r \in Region BY <1>3, <2>1, Types, Facts
    <2>3. QED BY <1>3, <2>1, <2>2, Facts DEF AllocInv, Shared
<1>4. CASE at[w].type = "LARGE" BY <1>4 DEF AllocatingRegion
<1>5. QED BY <1>1, <1>2, <1>3, <1>4 DEF RegionEnum, Shared

(* Where objects are taken from a region that is in the hands of the       *)
(* program, the region has memory that is not retired. *)
LEMMA NotRetired ==
    ASSUME Inv, NEW r \in Region, Start(r) # None, ~region[r].evacuated,
           r \notin largeRegionQue
    PROVE  Start(r) \in Chunk /\ Start(r) \notin Retired
<1>1. Start(r) \in Chunk BY Types, Facts
<1>2. ASSUME Start(r) \in Retired PROVE FALSE
    <2>1. PICK s \in {s \in Held(Region) : region[s].evacuated} \cup {s \in Held(largeRegionQue) : Erased(s)} :
              Start(s) = Start(r)
        BY <1>2 DEF Retired
    <2>2. s \in Region BY <2>1, Types, Facts DEF Held
    <2>3. s = r BY <2>1, <2>2, Facts DEF OwnerInv
    <2>4. QED BY <2>1, <2>3 DEF Held
<1>3. QED BY <1>1, <1>2

(* What is in a small queue, or published and on its way there, has memory *)
(* and is not evacuated.                                                   *)
LEMMA Live ==
    ASSUME Inv, NEW r \in regionQue \cup Emplacing, r # None
    PROVE  /\ r \in Region /\ Start(r) # None /\ ~region[r].evacuated /\ r \notin largeRegionQue
           /\ region[r].type \in Kinds /\ r \notin Evac
<1>1. CASE r \in regionQue BY <1>1, Facts, Types DEF QueInv
<1>2. CASE r \in Emplacing
    <2>1. PICK w \in Worker : r = at[w].new_region /\ at[w].type \in Shared BY <1>2 DEF Emplacing
    <2>2. QED BY <2>1, Facts, Types, Names DEF Fresh
<1>3. QED BY <1>1, <1>2

(* GCRegion::allocate either takes one more object of a live region, an    *)
(* address that is new, or sends the call for a new region.                *)
LEMMA TryInv ==
    ASSUME Inv, NEW w \in Worker, Try(w)
    PROVE  Inv' /\ SpaceStep
<1> DEFINE r == AllocatingRegion(w)
<1>1. At(w, "try") /\ UNCHANGED <<allocating, own, mapVars, queVars, gcVars>> BY DEF Try
<1>2. /\ at \in [Worker -> AtRecord] /\ at[w] \in AtRecord /\ Call(w) /\ region \in [Region -> RegionRecord]
      /\ at[w].object \in (Region \X Nat) \cup {None}
    BY Facts, Types DEF TypeInv
<1>3. /\ at[w].new_region = None /\ at[w].type \in RegionEnum /\ mapMtx # w
      /\ w \in GCThread => relocate(w) /\ gcpc = "relocate"
      /\ at[w].type = "LARGE" => w \in Thread /\ ~relocate(w)
    BY <1>1, <1>2 DEF Call, At
<1>4. /\ mapMtx' = mapMtx /\ gcpc' = gcpc /\ regionMap' = regionMap /\ largeRegionQue' = largeRegionQue
    BY <1>1, Unpack
<1>5. CASE r # None /\ Open(r)
    <2>1. region' = Relocated(w, [region EXCEPT ![r].used = @ + 1]) /\ Returned(w, r)
        BY <1>5 DEF Try
    <2>2. /\ at[w].type # "LARGE" /\ r \in Region /\ r \in regionQue \cup Emplacing
          /\ ~region[r].evacuated /\ region[r].used < Capacity
        BY <1>1, <1>5, Allocates DEF Open
    <2>3. Start(r) # None /\ r \notin largeRegionQue BY <1>5, <2>2, Live
    <2> HIDE DEF r
    <2> DEFINE R1 == [region EXCEPT ![r].used = @ + 1]
               k == region[r].used + 1
    <2>4. k \in Nat /\ region[r].used \in Nat BY <2>2, Types, Facts
    <2>5. /\ R1 \in [Region -> RegionRecord]
          /\ R1[r].used = k /\ \A s \in Region \ {r} : R1[s] = region[s]
          /\ \A s \in Region : /\ R1[s].start = region[s].start /\ R1[s].type = region[s].type
                               /\ R1[s].evacuated = region[s].evacuated /\ R1[s].mark = region[s].mark
        BY <1>2, <2>2, <2>4 DEF RegionRecord
    <2> HIDE DEF R1
    <2>6. /\ region' \in [Region -> RegionRecord]
          /\ \A s \in Region : /\ region'[s].start = R1[s].start /\ region'[s].type = R1[s].type
                               /\ region'[s].evacuated = R1[s].evacuated /\ region'[s].mark = R1[s].mark
                               /\ region'[s].used = R1[s].used
        <3>1. CASE relocate(w)
            <4> DEFINE o == at[w].object[1]
            <4>1. o \in Region BY <1>2, <3>1 DEF relocate
            <4>2. region' = [R1 EXCEPT ![o].left = @ \ {at[w].object[2]}] BY <2>1, <3>1 DEF Relocated, R1
            <4> HIDE DEF o
            <4>3. QED BY <2>5, <4>1, <4>2 DEF RegionRecord
        <3>2. CASE ~relocate(w) BY <2>1, <2>5, <3>2 DEF Relocated, R1
        <3>3. QED BY <3>1, <3>2
    <2>7. SameRegions BY <2>5, <2>6 DEF SameRegions, Start
    <2>8. /\ Others(w) /\ at'[w].new_region = None
          /\ at'[w].pc = "idle" => at'[w] = Idle
          /\ at'[w].pc \in {"idle", "query"}
          /\ at'[w].pc = "query" => /\ ~relocate(w) /\ at'[w].region = r
                                    /\ at'[w].type = at[w].type /\ at'[w].object = at[w].object
        <3>1. CASE relocate(w)
            <4>1. at' = [at EXCEPT ![w] = Idle] BY <2>1, <3>1 DEF Returned
            <4>2. QED BY <1>2, <4>1 DEF Others, Idle, AtRecord, Steps
        <3>2. CASE ~relocate(w)
            <4>1. at' = [at EXCEPT ![w] = [@ EXCEPT !.pc = "query", !.region = r, !.new_region = None]]
                BY <2>1, <3>2 DEF Returned
            <4>2. QED BY <1>2, <2>2, <3>2, <4>1 DEF Others, AtRecord, Steps
        <3>3. QED BY <3>1, <3>2
    <2>9. Call(w)'
        <3>1. CASE at'[w].pc = "idle"
            <4>1. at'[w].type = None /\ at'[w].new_region = None BY <2>8, <3>1 DEF Idle
            <4>2. mapMtx' # w BY <1>3, <1>4
            <4>3. None # "LARGE" BY Names DEF RegionEnum
            <4>4. QED BY <2>8, <3>1, <4>1, <4>2, <4>3 DEF Call, At
        <3>2. CASE at'[w].pc = "query"
            BY <1>3, <1>4, <2>2, <2>8, <3>2, Names DEF Call, At, relocate, Worker
        <3>3. QED BY <2>8, <3>1, <3>2
    <2>10. Inv'
        BY <1>1, <1>3, <2>2, <2>5, <2>6, <2>7, <2>8, <2>9, <1>5, LocalInv DEF At, r
    <2>11. SpaceStep
        <3>1. Start(r) \in Chunk /\ Start(r) \notin Retired BY <2>2, <2>3, NotRetired
        <3>2. \A s \in Region : Start(s)' = Start(s) BY <2>7 DEF SameRegions
        <3>3. \A s \in Region \ {r} : Start(s) # None => Start(s) # Start(r)
            BY <2>2, <2>3, Facts DEF OwnerInv
        <3> DEFINE Small == UNION {{Start(s)} \X (1..region[s].used) : s \in Held(Region)}
                   Large == {<<Start(s), 0>> : s \in Held(largeRegionQue)}
        <3>0. Objects = Small \cup Large /\ Objects' = Small' \cup Large' BY DEF Objects
        <3>4. <<Start(r), k>> \notin Objects
            <4>1. ASSUME <<Start(r), k>> \in Small PROVE FALSE
                <5>1. PICK s \in Held(Region) : <<Start(r), k>> \in {Start(s)} \X (1..region[s].used)
                    BY <4>1
                <5>2. s = r BY <3>3, <5>1 DEF Held
                <5>3. QED BY <2>4, <5>1, <5>2
            <4>2. <<Start(r), k>> \notin Large BY <2>4
            <4> HIDE DEF Small, Large
            <4>3. QED BY <3>0, <4>1, <4>2
        <3>5. Held(Region)' = Held(Region) /\ Held(largeRegionQue)' = Held(largeRegionQue)
              /\ Held(Region) \subseteq Region /\ Held(largeRegionQue) \subseteq Region
            BY <1>4, <3>2, Types, Facts DEF Held
        <3>6. Objects' = Objects \cup {<<Start(r), k>>}
            <4>1. Large' = Large BY <3>2, <3>5
            <4>2. r \in Held(Region) BY <2>2, <2>3 DEF Held
            <4>3. 1..k = (1..region[r].used) \cup {k} BY <2>4
            <4>4. \A s \in Region : region'[s].used = IF s = r THEN k ELSE region[s].used
                BY <2>5, <2>6
            <4> DEFINE Of(s) == {Start(s)} \X (1..region[s].used)
                       New(s) == {Start(s)} \X (1..(IF s = r THEN k ELSE region[s].used))
            <4>5. \A s \in Held(Region) : New(s) = IF s = r THEN Of(r) \cup {<<Start(r), k>>} ELSE Of(s)
                <5>1. {Start(r)} \X (1..k) = Of(r) \cup {<<Start(r), k>>} BY <4>3
                <5>2. QED BY <5>1
            <4>6. Small' = UNION {New(s) : s \in Held(Region)}
                <5>1. \A s \in Held(Region) : Of(s)' = New(s) BY <3>2, <3>5, <4>4
                <5> HIDE DEF New
                <5>2. QED BY <3>5, <5>1
            <4>7. Small = UNION {Of(s) : s \in Held(Region)} OBVIOUS
            <4> HIDE DEF New, Of, Small, Large
            <4>8. Small' = Small \cup {<<Start(r), k>>} BY <4>2, <4>5, <4>6, <4>7
            <4>9. QED BY <3>0, <4>1, <4>8
        <3>7. Retired' = Retired
            BY <1>4, <2>7, <3>2, <3>5 DEF Retired, Erased, SameRegions
        <3>8. k \in 0..Capacity BY <2>2, <2>4, Names
        <3>9. Space!Allocate(Start(r), k) BY <3>1, <3>4, <3>6, <3>7 DEF Space!Allocate
        <3>10. QED BY <3>1, <3>8, <3>9 DEF SpaceStep, Space!Next
    <2>12. QED BY <2>10, <2>11
<1>6. CASE ~(r # None /\ Open(r))
    <2>1. at' = [at EXCEPT ![w].region = r, ![w].pc = "new"] /\ region' = region
        BY <1>6 DEF Try
    <2>2. r \in Region \cup {None} BY <1>1, Allocates
    <2> HIDE DEF r
    <2>3. /\ Others(w) /\ at'[w].new_region = None /\ at'[w].pc = "new"
          /\ at'[w].type = at[w].type /\ at'[w].object = at[w].object
        BY <1>2, <1>3, <2>1, <2>2 DEF Others, AtRecord, Steps
    <2>4. Call(w)' BY <1>3, <1>4, <2>3 DEF Call, At, relocate
    <2>5. SameRegions BY <1>2, <2>1 DEF SameRegions, Start
    <2>6. Inv' BY <1>1, <1>3, <2>1, <2>3, <2>4, <2>5, LocalInv DEF At
    <2>7. SpaceStep BY <1>4, <2>1, SameSpace, Types, Facts DEF Start
    <2>8. QED BY <2>6, <2>7
<1>7. QED BY <1>5, <1>6

(* What the program sees does not change when a region without objects     *)
(* comes or goes. *)
LEMMA SameView ==
    ASSUME largeRegionQue \subseteq Region, largeRegionQue' = largeRegionQue,
           \A s \in Region :
               \/ /\ Start(s)' = Start(s) /\ region'[s].used = region[s].used
                  /\ region'[s].evacuated = region[s].evacuated
                  /\ s \in largeRegionQue => Erased(s)' = Erased(s)
               \/ /\ s \notin largeRegionQue
                  /\ Start(s) = None \/ (region[s].used = 0 /\ ~region[s].evacuated)
                  /\ Start(s)' = None \/ (region'[s].used = 0 /\ ~region'[s].evacuated)
    PROVE  SpaceStep
<1> DEFINE Of(s) == IF Start(s) # None THEN {Start(s)} \X (1..region[s].used) ELSE {}
           Large == {<<Start(s), 0>> : s \in Held(largeRegionQue)}
           Small == UNION {{Start(s)} \X (1..region[s].used) : s \in Held(Region)}
<1>1. Small = UNION {Of(s) : s \in Region}
    BY DEF Held
<1>2. Small' = UNION {Of(s)' : s \in Region}
    BY DEF Held
<1>3. ASSUME NEW s \in Region PROVE Of(s)' = Of(s)
    <2>1. 1..0 = {} OBVIOUS
    <2>2. QED BY <2>1
<1>4. \A s \in largeRegionQue : Start(s)' = Start(s) /\ Erased(s)' = Erased(s)
    OBVIOUS
<1>5. Large' = Large BY <1>4 DEF Held
<1>6. Objects = Small \cup Large /\ Objects' = Small' \cup Large' BY DEF Objects
<1>7. Retired' = Retired
    <2> DEFINE A == {s \in Held(Region) : region[s].evacuated}
               B == {s \in Held(largeRegionQue) : Erased(s)}
    <2>1. A' = A BY DEF Held
    <2>2. B' = B BY <1>4 DEF Held
    <2>3. A \cup B \subseteq Region /\ \A s \in A \cup B : Start(s)' = Start(s) BY DEF Held
    <2>4. Retired = {Start(s) : s \in A \cup B} /\ Retired' = {Start(s)' : s \in A' \cup B'} BY DEF Retired
    <2> HIDE DEF A, B
    <2>5. QED BY <2>1, <2>2, <2>3, <2>4
<1> HIDE DEF Of, Small, Large
<1>8. Objects' = Objects BY <1>1, <1>2, <1>3, <1>5, <1>6
<1>9. QED BY <1>7, <1>8 DEF SpaceStep, Space!spaceVars

(* A new region has a number nobody refers to and memory nobody has.       *)
LEMMA NewRegionInv ==
    ASSUME Inv, NEW w \in Worker, NewRegion(w)
    PROVE  Inv' /\ SpaceStep
<1>1. PICK r \in Region \ Referenced, a \in FreeChunk :
          /\ region' = [region EXCEPT ![r] = [NoMemory EXCEPT !.type = at[w].type, !.start = a]]
          /\ own' = IF at[w].type = "SMALL" THEN [own EXCEPT ![w][relocate(w)] = r] ELSE own
          /\ at' = [at EXCEPT ![w].new_region = r,
                              ![w].pc = IF at[w].type \in Shared THEN "publish" ELSE "emplace"]
    BY DEF NewRegion
<1>2. At(w, "new") /\ UNCHANGED <<allocating, mapVars, queVars, gcVars>> BY DEF NewRegion
<1>3. /\ TypeInv /\ region \in [Region -> RegionRecord] /\ at \in [Worker -> AtRecord]
      /\ own \in [Worker -> [BOOLEAN -> Region \cup {None}]]
      /\ \A v \in Worker : at[v] \in AtRecord
    BY Facts, Types DEF TypeInv
<1>4. /\ allocating' = allocating /\ regionMap' = regionMap
      /\ mapMtx' = mapMtx /\ regionQue' = regionQue /\ largeRegionQue' = largeRegionQue
      /\ evacuationQue' = evacuationQue /\ cms' = cms /\ gcpc' = gcpc /\ todo' = todo
      /\ Evac' = Evac
    BY <1>2, Unpack DEF Evac
<1>5. /\ r \in Region /\ r # None /\ r \notin regionQue \cup largeRegionQue \cup Evac \cup AllocatingRegions
      /\ \A v \in Worker : at[v].region # r /\ at[v].new_region # r
    BY Names DEF Referenced, Evac
<1>6. a \in Chunk /\ a # None /\ \A s \in Region : Start(s) # a BY Names DEF FreeChunk
<1>7. Start(r) = None BY <1>5, Facts DEF OwnerInv
<1>8. /\ at[w].type \in RegionEnum /\ at[w].new_region = None /\ mapMtx # w
      /\ w \in GCThread => relocate(w) /\ gcpc = "relocate"
      /\ at[w].type = "LARGE" => w \in Thread /\ ~relocate(w)
    BY <1>2, Facts DEF Call, At
<1>9. /\ at' \in [Worker -> AtRecord] /\ \A v \in Worker \ {w} : at'[v] = at[v]
      /\ at'[w].new_region = r /\ at'[w].type = at[w].type /\ at'[w].object = at[w].object
      /\ at'[w].pc = IF at[w].type \in Shared THEN "publish" ELSE "emplace"
    <2> DEFINE p == IF at[w].type \in Shared THEN "publish" ELSE "emplace"
               rec == [at[w] EXCEPT !.new_region = r, !.pc = p]
    <2>1. at[w] \in AtRecord /\ p \in Steps BY <1>3 DEF Steps
    <2> HIDE DEF p
    <2>2. /\ rec \in AtRecord /\ rec.new_region = r /\ rec.type = at[w].type
          /\ rec.object = at[w].object /\ rec.pc = p
        BY <1>5, <2>1 DEF AtRecord
    <2>3. at' = [at EXCEPT ![w] = rec] BY <1>1, <1>3 DEF p
    <2> HIDE DEF rec
    <2>4. QED BY <1>3, <2>2, <2>3 DEF p
<1>10. /\ region' \in [Region -> RegionRecord] /\ \A s \in Region \ {r} : region'[s] = region[s]
       /\ region'[r].type = at[w].type /\ region'[r].start = a /\ region'[r].used = 0
       /\ ~region'[r].evacuated /\ region'[r].mark = None
    <2> DEFINE rec == [NoMemory EXCEPT !.type = at[w].type, !.start = a]
    <2>1. /\ rec \in RegionRecord /\ rec.type = at[w].type /\ rec.start = a /\ rec.used = 0
          /\ ~rec.evacuated /\ rec.mark = None
        BY <1>6, <1>8 DEF NoMemory, RegionRecord
    <2>2. region' = [region EXCEPT ![r] = rec] BY <1>1
    <2> HIDE DEF rec
    <2>3. QED BY <1>3, <1>5, <2>1, <2>2
<1>11. /\ \A s \in Region \ {r} : Start(s)' = Start(s) /\ canFree(s)' = canFree(s)
       /\ Start(r)' = a
    BY <1>4, <1>10 DEF Start, canFree
<1>12. Emplacing' = Emplacing
    <2>1. \A v \in Worker : (At(v, "emplace") /\ at[v].type \in Shared)'
                            <=> At(v, "emplace") /\ at[v].type \in Shared
        BY <1>2, <1>9 DEF At
    <2>2. \A v \in Worker : At(v, "emplace") => at'[v] = at[v] BY <1>2, <1>9 DEF At
    <2>3. QED BY <2>1, <2>2 DEF Emplacing
<1>13. /\ own' \in [Worker -> [BOOLEAN -> Region \cup {None}]]
       /\ \A v \in Worker, b \in BOOLEAN :
              own'[v][b] = IF at[w].type = "SMALL" /\ v = w /\ b = relocate(w) THEN r ELSE own[v][b]
    BY <1>1, <1>3, <1>5 DEF relocate
<1>14. AllocatingRegions' \subseteq AllocatingRegions \cup {r}
       /\ (at[w].type \in Shared => AllocatingRegions' = AllocatingRegions)
    BY <1>1, <1>4, <1>13, Names DEF AllocatingRegions
<1>15. TypeInv' BY <1>3, <1>4, <1>9, <1>10, <1>13 DEF TypeInv
<1>16. Calls'
    <2>1. ASSUME NEW v \in Worker PROVE Call(v)'
        <3>1. CASE v = w BY <1>4, <1>5, <1>8, <1>9, <3>1 DEF Call, At, relocate, Shared, RegionEnum
        <3>2. CASE v # w BY <1>4, <1>9, <3>2, Facts DEF Call, At, relocate
        <3>3. QED BY <3>1, <3>2
    <2>2. ASSUME NEW v \in Worker PROVE Fresh(v)'
        <3>1. CASE v = w
            BY <1>4, <1>5, <1>6, <1>9, <1>10, <1>11, <1>14, <3>1 DEF Fresh, At
        <3>2. CASE v # w
            <4>1. at'[v] = at[v] /\ at[v].new_region # r /\ at[v].new_region \in Region \cup {None}
                BY <1>5, <1>9, <1>3, <3>2, Types
            <4>2. Fresh(v) BY Facts
            <4>3. QED BY <1>4, <1>9, <1>10, <1>11, <1>14, <4>1, <4>2 DEF Fresh, At
        <3>3. QED BY <3>1, <3>2
    <2>3. ASSUME NEW v \in Worker PROVE Built(v)'
        <3>1. CASE v = w BY <1>9, <3>1 DEF Built, At
        <3>2. CASE v # w
            <4>1. at'[v] = at[v] /\ at[v].region # r /\ at[v].region \in Region \cup {None}
                BY <1>5, <1>9, <1>3, <3>2, Types
            <4>2. Built(v) BY Facts
            <4>3. QED BY <1>4, <1>10, <1>12, <4>1, <4>2 DEF Built, At
        <3>3. QED BY <3>1, <3>2
    <2>4. QED BY <2>1, <2>2, <2>3 DEF Calls
<1>17. QueInv' BY <1>4, <1>5, <1>10, <1>11, Facts, Types DEF QueInv
<1>18. LargeInv' BY <1>4, <1>5, <1>10, <1>11, Facts, Types DEF LargeInv, Clearing
<1>19. EvacInv' BY <1>4, <1>5, <1>10, <1>11, Facts, Types DEF EvacInv
<1>20. OwnerInv'
    <2>1. ASSUME NEW s \in Region, Start(s)' # None, NEW z \in Region \ {s} PROVE Start(z)' # Start(s)'
        BY <1>6, <1>11, <2>1, Facts DEF OwnerInv
    <2>2. ASSUME NEW s \in Region, Start(s)' # None
          PROVE  s \in regionQue \cup largeRegionQue \cup Evac \/ \E v \in Worker : at'[v].new_region = s
        <3>1. CASE s = r BY <1>9, <3>1
        <3>2. CASE s # r BY <1>8, <1>9, <1>11, <2>2, <3>2, Facts, Names DEF OwnerInv
        <3>3. QED BY <3>1, <3>2
    <2>3. QED BY <1>4, <2>1, <2>2 DEF OwnerInv
<1>21. AllocInv'
    <2>1. ASSUME NEW s \in Shared, allocating[s] # None
          PROVE  region'[allocating[s]].evacuated \/ allocating[s] \in regionQue \cup Emplacing
        <3>1. allocating[s] \in Region /\ allocating[s] # r
            BY <1>3, <1>5, <2>1, Types DEF AllocatingRegions
        <3>2. QED BY <1>10, <2>1, <3>1, Facts DEF AllocInv
    <2>2. ASSUME NEW v \in Worker, NEW b \in BOOLEAN, own'[v][b] # None
          PROVE  \/ region'[own'[v][b]].evacuated \/ own'[v][b] \in regionQue
                 \/ at'[v].pc = "emplace" /\ at'[v].type = "SMALL" /\ at'[v].new_region = own'[v][b]
        <3>1. CASE at[w].type = "SMALL" /\ v = w /\ b = relocate(w)
            BY <1>9, <1>13, <3>1 DEF Shared
        <3>2. CASE ~(at[w].type = "SMALL" /\ v = w /\ b = relocate(w))
            <4>1. own'[v][b] = own[v][b] BY <1>13, <3>2
            <4>2. own[v][b] \in Region /\ own[v][b] # r
                BY <1>3, <1>5, <2>2, <4>1, Types DEF AllocatingRegions
            <4>3. \/ region[own[v][b]].evacuated \/ own[v][b] \in regionQue
                  \/ v # w /\ at[v].pc = "emplace" /\ at[v].type = "SMALL" /\ at[v].new_region = own[v][b]
                BY <1>2, <2>2, <4>1, Facts DEF AllocInv, At
            <4>4. QED BY <1>9, <1>10, <4>1, <4>2, <4>3
        <3>3. QED BY <3>1, <3>2
    <2>3. QED BY <1>4, <1>12, <2>1, <2>2 DEF AllocInv, At
<1>22. MapInv'
    <2>1. ASSUME NEW c \in Chunk, regionMap[c] # None
          PROVE  /\ Start(regionMap[c])' = c
                 /\ \/ regionMap[c] \in regionQue \cup largeRegionQue
                    \/ \E v \in Worker : at'[v].pc = "push" /\ at'[v].new_region = regionMap[c]
        <3>1. regionMap[c] \in Region BY <1>3, <2>1, Types
        <3>2. /\ Start(regionMap[c]) = c
              /\ \/ regionMap[c] \in regionQue \cup largeRegionQue
                 \/ \E v \in Worker \ {w} : at[v].pc = "push" /\ at[v].new_region = regionMap[c]
            BY <1>2, <2>1, Facts DEF MapInv, At
        <3>3. regionMap[c] # r BY <1>5, <3>2
        <3>4. Start(regionMap[c])' = c BY <1>4, <1>11, <3>1, <3>2, <3>3 DEF Start
        <3>5. QED BY <1>9, <3>2, <3>4
    <2>2. QED BY <1>4, <2>1 DEF MapInv, At
<1>23. SpaceStep
    <2>1. \A s \in Region \ {r} : Erased(s)' = Erased(s) BY <1>4, <1>11 DEF Erased
    <2>2. QED BY <1>3, <1>4, <1>5, <1>7, <1>10, <1>11, <2>1, SameView DEF TypeInv
<1>24. QED BY <1>15, <1>16, <1>17, <1>18, <1>19, <1>20, <1>21, <1>22, <1>23 DEF Inv

(* Without memory the call goes on trying.                                 *)
LEMMA ExhaustedInv ==
    ASSUME Inv, NEW w \in Worker, Exhausted(w)
    PROVE  Inv' /\ SpaceStep
BY StutterInv DEF Exhausted

(* The first to come publishes its empty region and keeps the mutex.       *)
LEMMA PublishFirstInv ==
    ASSUME Inv, NEW w \in Worker, Publish(w), First(w)
    PROVE  Inv' /\ SpaceStep
<1> DEFINE r == at[w].new_region
           k == at[w].type
<1>1. /\ At(w, "publish") /\ mapMtx = None
      /\ allocating' = [allocating EXCEPT ![k] = r]
      /\ mapMtx' = w /\ at' = [at EXCEPT ![w].pc = "emplace"] /\ region' = region
      /\ UNCHANGED <<own, regionMap, queVars, gcVars>>
    BY DEF Publish, Goto
<1>2. /\ TypeInv /\ at \in [Worker -> AtRecord] /\ allocating \in [Shared -> Region \cup {None}]
      /\ \A v \in Worker : at[v] \in AtRecord
    BY Facts, Types DEF TypeInv
<1>3. /\ own' = own /\ regionMap' = regionMap
      /\ regionQue' = regionQue /\ largeRegionQue' = largeRegionQue
      /\ evacuationQue' = evacuationQue /\ cms' = cms /\ gcpc' = gcpc /\ todo' = todo
      /\ Evac' = Evac
    BY <1>1, Unpack DEF Evac
<1>4. Call(w) /\ Fresh(w) /\ \A v \in Worker : Call(v) BY Facts
<1>5. r # None /\ k \in Shared /\ r \in Region BY <1>1, <1>2, <1>4, Types DEF Call, At
<1>6. /\ Start(r) # None /\ ~region[r].evacuated
      /\ region[r].type = k /\ region[r].mark = None
      /\ r \notin regionQue \cup largeRegionQue \cup Evac
      /\ \A v \in Worker \ {w} : at[v].new_region # r
    BY <1>4, <1>5 DEF Fresh
<1>7. /\ at' \in [Worker -> AtRecord] /\ \A v \in Worker \ {w} : at'[v] = at[v]
      /\ at'[w].new_region = r /\ at'[w].type = k /\ at'[w].object = at[w].object
      /\ at'[w].pc = "emplace" /\ at'[w].region = at[w].region
    BY <1>1, <1>2 DEF AtRecord, Steps
<1>8. \A s \in Region : Start(s)' = Start(s) /\ canFree(s)' = canFree(s)
    BY <1>1, <1>3 DEF Start, canFree
<1>9. Emplacing' = Emplacing \cup {r}
    <2>1. \A v \in Worker \ {w} : at'[v] = at[v] BY <1>7
    <2>2. Emplacing = {at[v].new_region : v \in {v \in Worker \ {w} : At(v, "emplace") /\ at[v].type \in Shared}}
        BY <1>1 DEF Emplacing, At
    <2>3. Emplacing' = {at'[v].new_region : v \in {v \in Worker : at'[v].pc = "emplace" /\ at'[v].type \in Shared}}
        BY DEF Emplacing, At
    <2> HIDE DEF r, k
    <2>4. QED BY <1>5, <1>7, <2>1, <2>2, <2>3 DEF At
<1>10. /\ allocating' \in [Shared -> Region \cup {None}]
       /\ \A s \in Shared : allocating'[s] = IF s = k THEN r ELSE allocating[s]
    BY <1>1, <1>2, <1>5
<1> HIDE DEF r, k
<1>11. AllocatingRegions' \subseteq AllocatingRegions \cup {r}
    BY <1>3, <1>10 DEF AllocatingRegions
<1>12. TypeInv'
    <2>1. region' \in [Region -> RegionRecord] /\ mapMtx' \in Worker BY <1>1, <1>2 DEF TypeInv
    <2>2. QED BY <1>2, <1>3, <1>7, <1>10, <2>1 DEF TypeInv
<1>13. Calls'
    <2>1. ASSUME NEW v \in Worker PROVE Call(v)'
        <3>1. CASE v = w
            <4>1. at[w].new_region = r /\ at[w].type = k /\ at[w].pc = "publish" BY <1>1 DEF At, r, k
            <4>2. k # "LARGE" /\ k \in RegionEnum BY <1>5, Names
            <4>3. QED BY <1>1, <1>3, <1>4, <1>5, <1>7, <3>1, <4>1, <4>2 DEF Call, At, relocate
        <3>2. CASE v # w
            <4>1. v # None /\ Call(v) BY <1>4, Names
            <4>2. QED BY <1>1, <1>3, <1>7, <3>2, <4>1 DEF Call, At, relocate
        <3>3. QED BY <3>1, <3>2
    <2>2. ASSUME NEW v \in Worker PROVE Fresh(v)'
        <3>1. CASE v = w
            BY <1>1, <1>3, <1>6, <1>7, <1>8, <1>5, <3>1 DEF Fresh, At
        <3>2. CASE v # w
            <4>1. at'[v] = at[v] /\ at[v].new_region # r /\ at[v].new_region \in Region \cup {None}
                BY <1>2, <1>6, <1>7, <3>2, Types
            <4>2. Fresh(v) BY Facts
            <4>3. at[v].new_region # None => \A x \in Worker \ {v} : at'[x].new_region # at[v].new_region
                BY <1>7, <4>1, <4>2 DEF Fresh
            <4>4. QED BY <1>1, <1>3, <1>8, <1>11, <4>1, <4>2, <4>3 DEF Fresh, At
        <3>3. QED BY <3>1, <3>2
    <2>3. ASSUME NEW v \in Worker PROVE Built(v)'
        <3>1. CASE v = w BY <1>7, <3>1 DEF Built, At
        <3>2. CASE v # w
            <4>1. at'[v] = at[v] /\ Built(v) BY <1>7, <3>2, Facts
            <4>2. QED BY <1>1, <1>3, <1>9, <4>1 DEF Built, At
        <3>3. QED BY <3>1, <3>2
    <2>4. QED BY <2>1, <2>2, <2>3 DEF Calls
<1>14. QueInv' /\ LargeInv' /\ EvacInv'
    BY <1>1, <1>2, <1>3, <1>8, Facts, Types DEF QueInv, LargeInv, EvacInv, Clearing
<1>15. OwnerInv'
    <2>1. \A v \in Worker : at'[v].new_region = at[v].new_region BY <1>7 DEF r
    <2>2. QED BY <1>3, <1>8, <2>1, Facts DEF OwnerInv
<1>16. AllocInv'
    <2>1. ASSUME NEW s \in Shared, allocating'[s] # None
          PROVE  region[allocating'[s]].evacuated \/ allocating'[s] \in regionQue \cup Emplacing'
        BY <1>9, <1>10, <2>1, Facts DEF AllocInv
    <2>2. ASSUME NEW v \in Worker, NEW b \in BOOLEAN, own[v][b] # None
          PROVE  \/ region[own[v][b]].evacuated \/ own[v][b] \in regionQue
                 \/ at'[v].pc = "emplace" /\ at'[v].type = "SMALL" /\ at'[v].new_region = own[v][b]
        BY <1>1, <1>7, <2>2, Facts DEF AllocInv, At
    <2>3. QED BY <1>1, <1>3, <2>1, <2>2 DEF AllocInv, At
<1>17. MapInv'
    <2>1. ASSUME NEW c \in Chunk, regionMap[c] # None
          PROVE  /\ Start(regionMap[c])' = c
                 /\ \/ regionMap[c] \in regionQue \cup largeRegionQue
                    \/ \E v \in Worker : at'[v].pc = "push" /\ at'[v].new_region = regionMap[c]
        BY <1>1, <1>3, <1>7, <2>1, Facts DEF MapInv, At, Start
    <2>2. QED BY <1>3, <2>1 DEF MapInv, At
<1>18. SpaceStep BY <1>1, <1>2, <1>3, SameSpace DEF TypeInv, Start
<1>19. QED BY <1>12, <1>13, <1>14, <1>15, <1>16, <1>17, <1>18 DEF Inv

(* The others drop theirs, which nobody else has seen.                     *)
LEMMA DiscardInv ==
    ASSUME Inv, NEW w \in Worker, Publish(w), ~First(w)
    PROVE  Inv' /\ SpaceStep
<1>0. PICK r : r = at[w].new_region OBVIOUS
<1>1. /\ At(w, "publish") /\ mapMtx = None
      /\ at' = [at EXCEPT ![w].pc = "try", ![w].new_region = None]
      /\ region' = [region EXCEPT ![r] = NoMemory]
      /\ UNCHANGED <<allocating, mapMtx>> /\ UNCHANGED <<own, regionMap, queVars, gcVars>>
    BY <1>0 DEF Publish, Discard, Again
<1>2. /\ TypeInv /\ at \in [Worker -> AtRecord] /\ region \in [Region -> RegionRecord]
      /\ \A v \in Worker : at[v] \in AtRecord
    BY Facts, Types DEF TypeInv
<1>3. /\ own' = own /\ regionMap' = regionMap /\ allocating' = allocating /\ mapMtx' = mapMtx
      /\ regionQue' = regionQue /\ largeRegionQue' = largeRegionQue
      /\ evacuationQue' = evacuationQue /\ cms' = cms /\ gcpc' = gcpc /\ todo' = todo
      /\ Evac' = Evac
      /\ AllocatingRegions' = AllocatingRegions
    BY <1>1, Unpack DEF Evac, AllocatingRegions
<1>4. Call(w) /\ Fresh(w) /\ \A v \in Worker : Call(v) BY Facts
<1>5. r # None /\ r \in Region BY <1>0, <1>1, <1>2, <1>4, Types DEF Call, At
<1>6. /\ ~region[r].evacuated /\ region[r].used = 0
      /\ r \notin regionQue \cup largeRegionQue \cup Evac \cup AllocatingRegions
      /\ \A v \in Worker \ {w} : at[v].new_region # r
    BY <1>0, <1>1, <1>4, <1>5 DEF Fresh
<1>7. /\ at' \in [Worker -> AtRecord] /\ \A v \in Worker \ {w} : at'[v] = at[v]
      /\ at'[w].new_region = None /\ at'[w].type = at[w].type /\ at'[w].object = at[w].object
      /\ at'[w].pc = "try"
    BY <1>1, <1>2 DEF AtRecord, Steps
<1>8. /\ region' \in [Region -> RegionRecord] /\ \A s \in Region \ {r} : region'[s] = region[s]
      /\ region'[r].start = None
    BY <1>1, <1>2, <1>5 DEF NoMemory, RegionRecord
<1>9. /\ \A s \in Region \ {r} : Start(s)' = Start(s) /\ canFree(s)' = canFree(s)
      /\ Start(r)' = None
    BY <1>3, <1>8 DEF Start, canFree
<1>10. Emplacing' = Emplacing
    <2>1. \A v \in Worker : (At(v, "emplace") /\ at[v].type \in Shared)'
                            <=> At(v, "emplace") /\ at[v].type \in Shared
        BY <1>1, <1>7 DEF At
    <2>2. \A v \in Worker : At(v, "emplace") => at'[v] = at[v] BY <1>1, <1>7 DEF At
    <2>3. QED BY <2>1, <2>2 DEF Emplacing
<1>11. r \notin Emplacing
    BY <1>1, <1>6 DEF Emplacing, At
<1>12. TypeInv' BY <1>2, <1>3, <1>7, <1>8 DEF TypeInv
<1>13. Calls'
    <2>1. ASSUME NEW v \in Worker PROVE Call(v)'
        <3>1. CASE v = w
            <4>1. mapMtx' # w BY <1>1, <1>3, Names
            <4>2. QED BY <1>1, <1>3, <1>4, <1>7, <3>1, <4>1 DEF Call, At, relocate
        <3>2. CASE v # w BY <1>3, <1>4, <1>7, <3>2 DEF Call, At, relocate
        <3>3. QED BY <3>1, <3>2
    <2>2. ASSUME NEW v \in Worker PROVE Fresh(v)'
        <3>1. CASE v = w BY <1>7, <3>1 DEF Fresh
        <3>2. CASE v # w
            <4>1. at'[v] = at[v] /\ at[v].new_region # r /\ at[v].new_region \in Region \cup {None}
                BY <1>2, <1>6, <1>7, <3>2, Types
            <4>2. Fresh(v) BY Facts
            <4>3. at[v].new_region # None => \A x \in Worker \ {v} : at'[x].new_region # at[v].new_region
                BY <1>7, <4>1, <4>2 DEF Fresh
            <4>4. QED BY <1>3, <1>8, <1>9, <4>1, <4>2, <4>3 DEF Fresh, At
        <3>3. QED BY <3>1, <3>2
    <2>3. ASSUME NEW v \in Worker PROVE Built(v)'
        <3>1. CASE v = w BY <1>7, <3>1 DEF Built, At
        <3>2. CASE v # w
            <4>1. at'[v] = at[v] /\ Built(v) /\ at[v].region \in Region \cup {None} BY <1>2, <1>7, <3>2, Facts, Types
            <4>2. QED BY <1>3, <1>6, <1>8, <1>10, <1>11, <4>1 DEF Built, At
        <3>3. QED BY <3>1, <3>2
    <2>4. QED BY <2>1, <2>2, <2>3 DEF Calls
<1>14. QueInv' BY <1>2, <1>3, <1>6, <1>8, <1>9, Facts, Types DEF QueInv
<1>15. LargeInv' BY <1>2, <1>3, <1>6, <1>8, <1>9, Facts, Types DEF LargeInv, Clearing
<1>16. EvacInv' BY <1>2, <1>3, <1>6, <1>8, <1>9, Facts, Types DEF EvacInv
<1>17. OwnerInv'
    <2>1. ASSUME NEW s \in Region, Start(s)' # None
          PROVE  /\ \A z \in Region \ {s} : Start(z)' # Start(s)'
                 /\ \/ s \in regionQue \cup largeRegionQue \cup Evac
                    \/ \E v \in Worker : at'[v].new_region = s
        <3>1. s # r /\ Start(s)' = Start(s) BY <1>9, <2>1
        <3>2. \A z \in Region \ {s} : Start(z)' # Start(s)' BY <1>9, <2>1, <3>1, Facts DEF OwnerInv
        <3>3. ASSUME NEW v \in Worker, at[v].new_region = s PROVE v # w BY <1>0, <3>1, <3>3
        <3>4. QED BY <1>7, <2>1, <3>1, <3>2, <3>3, Facts DEF OwnerInv
    <2>2. QED BY <1>3, <2>1 DEF OwnerInv
<1>18. AllocInv'
    <2>1. ASSUME NEW s \in Shared, allocating[s] # None
          PROVE  region'[allocating[s]].evacuated \/ allocating[s] \in regionQue \cup Emplacing
        <3>1. allocating[s] \in Region /\ allocating[s] # r
            BY <1>2, <1>6, <2>1, Types DEF AllocatingRegions
        <3>2. QED BY <1>8, <2>1, <3>1, Facts DEF AllocInv
    <2>2. ASSUME NEW v \in Worker, NEW b \in BOOLEAN, own[v][b] # None
          PROVE  \/ region'[own[v][b]].evacuated \/ own[v][b] \in regionQue
                 \/ at'[v].pc = "emplace" /\ at'[v].type = "SMALL" /\ at'[v].new_region = own[v][b]
        <3>1. own[v][b] \in Region /\ own[v][b] # r
            BY <1>2, <1>6, <2>2, Types DEF AllocatingRegions
        <3>2. QED BY <1>1, <1>7, <1>8, <2>2, <3>1, Facts DEF AllocInv, At
    <2>3. QED BY <1>3, <1>10, <2>1, <2>2 DEF AllocInv, At
<1>19. MapInv'
    <2>1. ASSUME NEW c \in Chunk, regionMap[c] # None
          PROVE  /\ Start(regionMap[c])' = c
                 /\ \/ regionMap[c] \in regionQue \cup largeRegionQue
                    \/ \E v \in Worker : at'[v].pc = "push" /\ at'[v].new_region = regionMap[c]
        <3>1. regionMap[c] \in Region BY <1>2, <2>1, Types
        <3>2. /\ Start(regionMap[c]) = c
              /\ \/ regionMap[c] \in regionQue \cup largeRegionQue
                 \/ \E v \in Worker \ {w} : at[v].pc = "push" /\ at[v].new_region = regionMap[c]
            BY <1>1, <2>1, Facts DEF MapInv, At
        <3>3. regionMap[c] # r BY <1>6, <3>2
        <3>4. Start(regionMap[c])' = c BY <1>3, <1>9, <3>1, <3>2, <3>3 DEF Start
        <3>5. QED BY <1>7, <3>2, <3>4
    <2>2. QED BY <1>3, <2>1 DEF MapInv, At
<1>20. SpaceStep
    <2>1. \A s \in Region \ {r} : Erased(s)' = Erased(s) BY <1>3, <1>9 DEF Erased
    <2>2. QED BY <1>2, <1>3, <1>5, <1>6, <1>8, <1>9, <2>1, SameView DEF TypeInv
<1>21. QED BY <1>12, <1>13, <1>14, <1>15, <1>16, <1>17, <1>18, <1>19, <1>20 DEF Inv

(* A GCPtr has asked whether it is a root, and the call is over.           *)
LEMMA IsRootInv ==
    ASSUME Inv, NEW w \in Worker, is_root(w)
    PROVE  Inv' /\ SpaceStep
<1>1. /\ At(w, "query") /\ mapMtx = None /\ at' = [at EXCEPT ![w] = Idle]
      /\ UNCHANGED <<heapVars, mapVars, queVars, gcVars>>
    BY DEF is_root, Asks
<1>2. at \in [Worker -> AtRecord] /\ TypeInv /\ Call(w) BY Facts DEF TypeInv
<1>3. Idle \in AtRecord /\ Idle.pc = "idle" /\ Idle.new_region = None /\ Idle.type = None
    BY DEF Idle, AtRecord, Steps
<1>4. Others(w) /\ at'[w] = Idle BY <1>1, <1>2, <1>3 DEF Others
<1>5. region' = region /\ SameRegions /\ regionMap' = regionMap /\ largeRegionQue' = largeRegionQue
      /\ mapMtx' = None
    BY <1>1, <1>2, Unpack DEF SameRegions, TypeInv, Start
<1>6. at[w].new_region = None BY <1>1, <1>2 DEF Call, At
<1>7. Call(w)'
    <2>1. None # "LARGE" BY Names DEF RegionEnum
    <2>2. QED BY <1>3, <1>4, <1>5, <2>1, Names DEF Call, At
<1>8. UNCHANGED <<allocating, own, mapVars, queVars, gcVars>> BY <1>1, Unpack
<1>9. Inv' BY <1>3, <1>4, <1>5, <1>6, <1>7, <1>8, LocalInv DEF At
<1>10. SpaceStep BY <1>2, <1>5, SameSpace DEF TypeInv, Start
<1>11. QED BY <1>9, <1>10

(* What emplacing leaves alone, and what it makes of the map. *)
LEMMA EmplaceFacts ==
    ASSUME Inv, NEW w \in Worker, Emplace(w), NEW r, r = at[w].new_region
    PROVE  /\ At(w, "emplace") /\ r \in Region /\ r # None /\ at[w].type \in RegionEnum
           /\ Start(r) # None /\ Start(r) \in Chunk /\ ~region[r].evacuated
           /\ region[r].type = at[w].type /\ region[r].mark = None
           /\ r \notin regionQue \cup largeRegionQue \cup Evac
           /\ \A v \in Worker \ {w} : at[v].new_region # r
           /\ region' = region /\ allocating' = allocating /\ own' = own /\ mapMtx' = None
           /\ largeRegionQue' = largeRegionQue
           /\ evacuationQue' = evacuationQue /\ cms' = cms /\ gcpc' = gcpc /\ todo' = todo
           /\ Evac' = Evac /\ AllocatingRegions' = AllocatingRegions
           /\ \A s \in Region : Start(s)' = Start(s) /\ canFree(s)' = canFree(s)
           /\ regionMap' \in [Chunk -> Region \cup {None}]
           /\ \A a \in Chunk : regionMap'[a] = IF a = Start(r) THEN r ELSE regionMap[a]
           /\ \A v \in Worker \ {w} : ~(at[v].pc = "emplace" /\ at[v].type \in Shared)
           /\ mapMtx \in {None, w}
           /\ SpaceStep
<1>1. /\ At(w, "emplace") /\ mapMtx \in {None, w} /\ mapMtx' = None
      /\ regionMap' = IF regionMap[Start(r)] = None THEN [regionMap EXCEPT ![Start(r)] = r]
                      ELSE regionMap
      /\ UNCHANGED <<heapVars, largeRegionQue, evacuationQue, gcVars>>
    BY DEF Emplace
<1>2. /\ region' = region /\ allocating' = allocating /\ own' = own
      /\ largeRegionQue' = largeRegionQue
      /\ evacuationQue' = evacuationQue /\ cms' = cms /\ gcpc' = gcpc /\ todo' = todo
      /\ Evac' = Evac /\ AllocatingRegions' = AllocatingRegions
    BY <1>1, Unpack DEF Evac, AllocatingRegions
<1>3. \A s : Start(s)' = region[s].start BY <1>2 DEF Start
<1>4. \A s \in Region : Start(s)' = Start(s) /\ canFree(s)' = canFree(s)
    BY <1>2 DEF Start, canFree
<1>5. Call(w) /\ Fresh(w) /\ TypeInv BY Facts
<1>6. r # None /\ r \in Region BY <1>1, <1>5, Types DEF Call, At
<1>7. /\ Start(r) # None /\ ~region[r].evacuated
      /\ region[r].type = at[w].type /\ region[r].mark = None
      /\ r \notin regionQue \cup largeRegionQue \cup Evac
      /\ \A v \in Worker \ {w} : at[v].new_region # r
    BY <1>5, <1>6 DEF Fresh
<1>8. Start(r) \in Chunk BY <1>5, <1>6, <1>7, Types
<1>9. regionMap[Start(r)] = None
    <2>1. ASSUME regionMap[Start(r)] # None PROVE FALSE
        <3> DEFINE q == regionMap[Start(r)]
        <3>1. q \in Region BY <1>5, <1>8, <2>1, Types
        <3>2. /\ Start(q) = Start(r)
              /\ \/ q \in regionQue \cup largeRegionQue
                 \/ \E v \in Worker : At(v, "push") /\ at[v].new_region = q
            BY <1>8, <2>1, Facts DEF MapInv
        <3>3. q = r BY <1>6, <1>7, <3>1, <3>2, Facts DEF OwnerInv
        <3>4. QED BY <1>1, <1>7, <3>2, <3>3 DEF At
    <2>2. QED BY <2>1
<1>10. /\ regionMap' \in [Chunk -> Region \cup {None}]
       /\ \A a \in Chunk : regionMap'[a] = IF a = Start(r) THEN r ELSE regionMap[a]
    BY <1>1, <1>5, <1>6, <1>8, <1>9 DEF TypeInv
<1>11. \A v \in Worker \ {w} : ~(at[v].pc = "emplace" /\ at[v].type \in Shared)
    BY <1>1, Facts, Names DEF Call, At
<1>12. SpaceStep
    <2>1. \A s \in largeRegionQue : Erased(s)' = Erased(s)
        <3>1. ASSUME NEW s \in largeRegionQue PROVE regionMap'[Start(s)] = regionMap[Start(s)]
            <4>1. s \in Region /\ s # r BY <1>5, <1>7, Types
            <4>2. Start(s) # Start(r) BY <1>6, <1>7, <4>1, Facts DEF OwnerInv
            <4>3. QED BY <1>1, <1>5, <1>8, <4>2 DEF TypeInv
        <3>2. QED BY <1>3, <3>1 DEF Erased, Start
    <2>2. QED BY <1>2, <1>4, <1>5, <2>1, SameView DEF TypeInv
<1>13. at[w].type \in RegionEnum BY <1>1, <1>5 DEF Call, At
<1>14. QED BY <1>1, <1>2, <1>4, <1>6, <1>7, <1>8, <1>10, <1>11, <1>12, <1>13

(* A large region enters the map before its queue.                         *)
LEMMA EmplaceLargeInv ==
    ASSUME Inv, NEW w \in Worker, Emplace(w), at[w].type = "LARGE"
    PROVE  Inv' /\ SpaceStep
<1>0. PICK r : r = at[w].new_region OBVIOUS
<1>1. at' = [at EXCEPT ![w].pc = "push"] /\ regionQue' = regionQue
    BY DEF Emplace, Goto
<1>2. TypeInv /\ at \in [Worker -> AtRecord] /\ \A v \in Worker : at[v] \in AtRecord
    BY Facts, Types DEF TypeInv
<1>3. /\ at' \in [Worker -> AtRecord] /\ \A v \in Worker \ {w} : at'[v] = at[v]
      /\ at'[w].new_region = r /\ at'[w].type = "LARGE" /\ at'[w].object = at[w].object
      /\ at'[w].pc = "push"
    BY <1>0, <1>1, <1>2 DEF AtRecord, Steps
<1>4. At(w, "emplace") /\ "LARGE" \notin Shared BY <1>0, EmplaceFacts, Names
<1>5. Emplacing' = Emplacing
    <2>1. \A v \in Worker : (At(v, "emplace") /\ at[v].type \in Shared)'
                            <=> At(v, "emplace") /\ at[v].type \in Shared
        BY <1>3, <1>4 DEF At
    <2>2. \A v \in Worker : At(v, "emplace") /\ at[v].type \in Shared => at'[v] = at[v] BY <1>3, <1>4 DEF At
    <2>3. QED BY <2>1, <2>2 DEF Emplacing
<1>6. TypeInv' BY <1>0, <1>1, <1>2, <1>3, EmplaceFacts DEF TypeInv
<1>7. Calls'
    <2>1. ASSUME NEW v \in Worker PROVE Call(v)'
        <3>1. Call(v) /\ v # None BY Facts, Names
        <3>2. CASE v = w
            BY <1>0, <1>3, <1>4, <3>1, <3>2, EmplaceFacts, Names DEF Call, At, relocate
        <3>3. CASE v # w
            BY <1>0, <1>3, <1>4, <3>1, <3>3, EmplaceFacts DEF Call, At, relocate
        <3>4. QED BY <3>2, <3>3
    <2>2. ASSUME NEW v \in Worker PROVE Fresh(v)'
        <3>1. CASE v = w
            <4>1. region'[r].start = Start(r) BY <1>0, EmplaceFacts DEF Start
            <4>2. QED BY <1>0, <1>1, <1>3, <3>1, <4>1, EmplaceFacts DEF Fresh, At, Start
        <3>2. CASE v # w
            <4> DEFINE q == at[v].new_region
            <4>1. at'[v] = at[v] /\ q # r /\ q \in Region \cup {None} /\ Fresh(v)
                BY <1>0, <1>2, <1>3, <3>2, Types, Facts, EmplaceFacts
            <4>2. q # None => \A x \in Worker \ {v} : at'[x].new_region # q
                BY <1>0, <1>3, <4>1 DEF Fresh
            <4>3. q # None => Start(q) # Start(r) /\ Start(q) \in Chunk
                BY <1>0, <1>2, <4>1, Types, Facts, EmplaceFacts DEF Fresh, OwnerInv
            <4>4. q # None => regionMap'[region[q].start] = regionMap[Start(q)]
                BY <1>0, <4>3, EmplaceFacts DEF Start
            <4>5. QED BY <1>0, <1>1, <4>1, <4>2, <4>4, EmplaceFacts DEF Fresh, At, Start
        <3>3. QED BY <3>1, <3>2
    <2>3. ASSUME NEW v \in Worker PROVE Built(v)'
        <3>1. CASE v = w BY <1>3, <3>1 DEF Built, At
        <3>2. CASE v # w
            <4>1. at'[v] = at[v] /\ Built(v) BY <1>3, <3>2, Facts
            <4>2. QED BY <1>0, <1>1, <1>5, <4>1, EmplaceFacts DEF Built, At
        <3>3. QED BY <3>1, <3>2
    <2>4. QED BY <2>1, <2>2, <2>3 DEF Calls
<1>8. ASSUME NEW s \in Region, s # r, Start(s) # None
      PROVE  regionMap'[region'[s].start] = regionMap[Start(s)]
    <2>1. Start(s) # Start(r) /\ Start(s) \in Chunk
        BY <1>0, <1>2, <1>8, Types, Facts, EmplaceFacts DEF OwnerInv
    <2>2. QED BY <1>0, <2>1, EmplaceFacts DEF Start
<1>9. QueInv'
    <2>1. QueInv BY Facts
    <2>2. \A s \in regionQue : s \in Region /\ s # r BY <1>0, <1>2, Types, EmplaceFacts
    <2>3. QED BY <1>0, <1>1, <1>8, <2>1, <2>2, EmplaceFacts DEF QueInv, Start
<1>10. LargeInv'
    <2>1. LargeInv BY Facts
    <2>2. \A s \in largeRegionQue : s \in Region /\ s # r BY <1>0, <1>2, Types, EmplaceFacts
    <2>3. QED BY <1>0, <1>1, <1>8, <2>1, <2>2, EmplaceFacts DEF LargeInv, Clearing, Start, canFree
<1>11. EvacInv' BY <1>0, <1>2, Facts, Types, EmplaceFacts DEF EvacInv, Start
<1>12. OwnerInv'
    <2>1. \A v \in Worker : at'[v].new_region = at[v].new_region BY <1>0, <1>3
    <2>2. QED BY <1>0, <1>1, <2>1, Facts, EmplaceFacts DEF OwnerInv
<1>13. AllocInv'
    <2>1. \A v \in Worker : at[v].pc = "emplace" /\ at[v].type = "SMALL" => at'[v] = at[v]
        BY <1>3
    <2>2. AllocInv BY Facts
    <2>3. QED BY <1>0, <1>1, <1>5, <2>1, <2>2, EmplaceFacts DEF AllocInv, At
<1>14. MapInv'
    <2>1. ASSUME NEW c \in Chunk, regionMap'[c] # None
          PROVE  /\ region'[regionMap'[c]].start = c
                 /\ \/ regionMap'[c] \in regionQue \cup largeRegionQue
                    \/ \E v \in Worker : at'[v].pc = "push" /\ at'[v].new_region = regionMap'[c]
        <3>1. CASE c = Start(r)
            <4>1. regionMap'[c] = r BY <1>0, <3>1, EmplaceFacts
            <4>2. region'[r].start = c BY <1>0, <3>1, EmplaceFacts DEF Start
            <4>3. QED BY <1>3, <4>1, <4>2
        <3>2. CASE c # Start(r)
            <4>1. regionMap'[c] = regionMap[c] BY <1>0, <3>2, EmplaceFacts
            <4>2. /\ region[regionMap[c]].start = c
                  /\ \/ regionMap[c] \in regionQue \cup largeRegionQue
                     \/ \E v \in Worker \ {w} : at[v].pc = "push" /\ at[v].new_region = regionMap[c]
                BY <1>4, <2>1, <4>1, Facts DEF MapInv, At, Start
            <4>3. region' = region BY <1>0, EmplaceFacts
            <4>4. QED BY <1>3, <4>1, <4>2, <4>3
        <3>3. QED BY <3>1, <3>2
    <2>2. largeRegionQue' = largeRegionQue BY <1>0, EmplaceFacts
    <2>3. QED BY <1>1, <2>1, <2>2 DEF MapInv, At, Start
<1>15. SpaceStep BY <1>0, EmplaceFacts
<1>16. QED BY <1>6, <1>7, <1>9, <1>10, <1>11, <1>12, <1>13, <1>14, <1>15 DEF Inv

(* The others enter the map and their queue, and lose their thread.        *)
LEMMA EmplaceOtherInv ==
    ASSUME Inv, NEW w \in Worker, Emplace(w), at[w].type # "LARGE"
    PROVE  Inv' /\ SpaceStep
<1>0. PICK r : r = at[w].new_region OBVIOUS
<1>1. at' = [at EXCEPT ![w].pc = "try", ![w].new_region = None] /\ regionQue' = regionQue \cup {r}
    BY <1>0 DEF Emplace, Again
<1>2. TypeInv /\ at \in [Worker -> AtRecord] /\ \A v \in Worker : at[v] \in AtRecord
    BY Facts, Types DEF TypeInv
<1>3. /\ at' \in [Worker -> AtRecord] /\ \A v \in Worker \ {w} : at'[v] = at[v]
      /\ at'[w].new_region = None /\ at'[w].type = at[w].type /\ at'[w].object = at[w].object
      /\ at'[w].pc = "try"
    BY <1>0, <1>1, <1>2 DEF AtRecord, Steps
<1>4. At(w, "emplace") BY <1>0, EmplaceFacts
<1>20. /\ region' = region /\ allocating' = allocating /\ own' = own
       /\ largeRegionQue' = largeRegionQue /\ Evac' = Evac /\ AllocatingRegions' = AllocatingRegions
       /\ \A s \in Region : Start(s)' = Start(s)
    BY <1>0, EmplaceFacts
<1>5. Emplacing' \subseteq Emplacing /\ Emplacing \subseteq Emplacing' \cup {r}
    <2>1. ASSUME NEW q \in Emplacing' PROVE q \in Emplacing
        <3>1. PICK v \in Worker : at'[v].pc = "emplace" /\ at'[v].type \in Shared /\ q = at'[v].new_region
            BY DEF Emplacing, At
        <3>2. v # w /\ at'[v] = at[v] BY <1>3, <3>1
        <3>3. QED BY <3>1, <3>2 DEF Emplacing, At
    <2>2. ASSUME NEW q \in Emplacing PROVE q \in Emplacing' \cup {r}
        <3>1. PICK v \in Worker : at[v].pc = "emplace" /\ at[v].type \in Shared /\ q = at[v].new_region
            BY DEF Emplacing, At
        <3>2. CASE v = w BY <1>0, <3>1, <3>2
        <3>3. CASE v # w BY <1>3, <3>1, <3>3 DEF Emplacing, At
        <3>4. QED BY <3>2, <3>3
    <2>3. QED BY <2>1, <2>2
<1>6. TypeInv' BY <1>0, <1>1, <1>2, <1>3, EmplaceFacts DEF TypeInv
<1>7. Calls'
    <2>1. ASSUME NEW v \in Worker PROVE Call(v)'
        <3>1. Call(v) /\ v # None BY Facts, Names
        <3>2. CASE v = w
            BY <1>0, <1>3, <1>4, <3>1, <3>2, EmplaceFacts, Names DEF Call, At, relocate
        <3>3. CASE v # w
            BY <1>0, <1>3, <1>4, <3>1, <3>3, EmplaceFacts DEF Call, At, relocate
        <3>4. QED BY <3>2, <3>3
    <2>2. ASSUME NEW v \in Worker PROVE Fresh(v)'
        <3>1. CASE v = w BY <1>3, <3>1 DEF Fresh
        <3>2. CASE v # w
            <4> DEFINE q == at[v].new_region
            <4>1. at'[v] = at[v] /\ q # r /\ q \in Region \cup {None} /\ Fresh(v)
                BY <1>0, <1>2, <1>3, <3>2, Types, Facts, EmplaceFacts
            <4>2. q # None => \A x \in Worker \ {v} : at'[x].new_region # q
                BY <1>0, <1>3, <4>1 DEF Fresh
            <4>3. q # None => Start(q) # Start(r) /\ Start(q) \in Chunk
                BY <1>0, <1>2, <4>1, Types, Facts, EmplaceFacts DEF Fresh, OwnerInv
            <4>4. q # None => regionMap'[region[q].start] = regionMap[Start(q)]
                BY <1>0, <4>3, EmplaceFacts DEF Start
            <4>5. q # None => q \notin regionQue' \cup largeRegionQue' \cup Evac'
                BY <1>1, <1>20, <4>1 DEF Fresh
            <4>6. QED BY <1>20, <4>1, <4>2, <4>4, <4>5 DEF Fresh, At, Start
        <3>3. QED BY <3>1, <3>2
    <2>3. ASSUME NEW v \in Worker PROVE Built(v)'
        <3>1. CASE v = w BY <1>3, <3>1 DEF Built, At
        <3>2. CASE v # w
            <4>1. at'[v] = at[v] /\ Built(v) BY <1>3, <3>2, Facts
            <4>2. QED BY <1>0, <1>1, <1>5, <4>1, EmplaceFacts DEF Built, At
        <3>3. QED BY <3>1, <3>2
    <2>4. QED BY <2>1, <2>2, <2>3 DEF Calls
<1>8. ASSUME NEW s \in Region, s # r, Start(s) # None
      PROVE  regionMap'[region'[s].start] = regionMap[Start(s)]
    <2>1. Start(s) # Start(r) /\ Start(s) \in Chunk
        BY <1>0, <1>2, <1>8, Types, Facts, EmplaceFacts DEF OwnerInv
    <2>2. QED BY <1>0, <2>1, EmplaceFacts DEF Start
<1>9. QueInv'
    <2>1. QueInv BY Facts
    <2>2. \A s \in regionQue : s \in Region /\ s # r BY <1>0, <1>2, Types, EmplaceFacts
    <2>3. region[r].type \in Kinds BY <1>0, EmplaceFacts DEF Kinds
    <2>4. region'[r].start = Start(r) /\ regionMap'[Start(r)] = r BY <1>0, EmplaceFacts DEF Start
    <2>5. \A s \in regionQue : regionMap'[region'[s].start] = s
        BY <1>8, <2>1, <2>2 DEF QueInv
    <2>6. QED BY <1>0, <1>1, <2>1, <2>2, <2>3, <2>4, <2>5, EmplaceFacts DEF QueInv, Start
<1>10. LargeInv'
    <2>1. LargeInv BY Facts
    <2>2. \A s \in largeRegionQue : s \in Region /\ s # r BY <1>0, <1>2, Types, EmplaceFacts
    <2>3. QED BY <1>0, <1>1, <1>8, <2>1, <2>2, EmplaceFacts DEF LargeInv, Clearing, Start, canFree
<1>11. EvacInv' BY <1>0, <1>2, Facts, Types, EmplaceFacts DEF EvacInv, Start
<1>12. OwnerInv'
    <2>1. \A v \in Worker : at[v].new_region = r \/ at'[v].new_region = at[v].new_region BY <1>0, <1>3
    <2>2. OwnerInv BY Facts
    <2>3. ASSUME NEW s \in Region, Start(s) # None
          PROVE  \/ s \in regionQue' \cup largeRegionQue' \cup Evac'
                 \/ \E v \in Worker : at'[v].new_region = s
        BY <1>1, <1>20, <2>1, <2>2, <2>3 DEF OwnerInv
    <2>4. QED BY <1>20, <2>2, <2>3 DEF OwnerInv
<1>13. AllocInv'
    <2>1. \A v \in Worker : at[v].new_region = r \/ at'[v] = at[v]
        BY <1>0, <1>3
    <2>2. AllocInv BY Facts
    <2>3. QED BY <1>1, <1>5, <1>20, <2>1, <2>2 DEF AllocInv, At
<1>14. MapInv'
    <2>1. ASSUME NEW c \in Chunk, regionMap'[c] # None
          PROVE  /\ region'[regionMap'[c]].start = c
                 /\ \/ regionMap'[c] \in regionQue' \cup largeRegionQue
                    \/ \E v \in Worker : at'[v].pc = "push" /\ at'[v].new_region = regionMap'[c]
        <3>1. CASE c = Start(r)
            <4>1. regionMap'[c] = r BY <1>0, <3>1, EmplaceFacts
            <4>2. region'[r].start = c BY <1>0, <3>1, EmplaceFacts DEF Start
            <4>3. QED BY <1>1, <4>1, <4>2
        <3>2. CASE c # Start(r)
            <4>1. regionMap'[c] = regionMap[c] BY <1>0, <3>2, EmplaceFacts
            <4>2. /\ region[regionMap[c]].start = c
                  /\ \/ regionMap[c] \in regionQue \cup largeRegionQue
                     \/ \E v \in Worker \ {w} : at[v].pc = "push" /\ at[v].new_region = regionMap[c]
                BY <1>4, <2>1, <4>1, Facts DEF MapInv, At, Start
            <4>3. region' = region BY <1>0, EmplaceFacts
            <4>4. QED BY <1>1, <1>3, <4>1, <4>2, <4>3
        <3>3. QED BY <3>1, <3>2
    <2>2. largeRegionQue' = largeRegionQue BY <1>0, EmplaceFacts
    <2>3. QED BY <1>1, <2>1, <2>2 DEF MapInv, At, Start
<1>15. SpaceStep BY <1>0, EmplaceFacts
<1>16. QED BY <1>6, <1>7, <1>9, <1>10, <1>11, <1>12, <1>13, <1>14, <1>15 DEF Inv

(* A large region enters its queue and its object is handed out; nothing   *)
(* has marked it, so that no clearing under way takes it.                  *)
LEMMA PushLargeInv ==
    ASSUME Inv, NEW w \in Worker, PushLarge(w)
    PROVE  Inv' /\ SpaceStep
<1>0. PICK r : r = at[w].new_region OBVIOUS
<1>1. /\ At(w, "push") /\ gcpc # "clearLarge" /\ largeRegionQue' = largeRegionQue \cup {r}
      /\ Returned(w, r) /\ UNCHANGED <<heapVars, mapVars, regionQue, evacuationQue, gcVars>>
    BY <1>0 DEF PushLarge
<1>2. TypeInv /\ at \in [Worker -> AtRecord] /\ \A v \in Worker : at[v] \in AtRecord
    BY Facts, Types DEF TypeInv
<1>3. /\ region' = region /\ allocating' = allocating /\ own' = own
      /\ regionMap' = regionMap /\ mapMtx' = mapMtx /\ regionQue' = regionQue
      /\ evacuationQue' = evacuationQue /\ cms' = cms /\ gcpc' = gcpc /\ todo' = todo
      /\ Evac' = Evac /\ AllocatingRegions' = AllocatingRegions
      /\ \A s \in Region : Start(s)' = Start(s) /\ canFree(s)' = canFree(s)
    BY <1>1, Unpack DEF Evac, AllocatingRegions, Start, canFree
<1>4. Call(w) /\ Fresh(w) /\ \A v \in Worker : Call(v) BY Facts
<1>5. /\ r # None /\ r \in Region /\ at[w].type = "LARGE" /\ w \in Thread /\ ~relocate(w)
      /\ mapMtx # w
    BY <1>0, <1>1, <1>2, <1>4, Types DEF Call, At
<1>6. /\ Start(r) # None /\ ~region[r].evacuated
      /\ region[r].type = "LARGE" /\ region[r].mark = None
      /\ r \notin regionQue \cup largeRegionQue \cup Evac
      /\ \A v \in Worker \ {w} : at[v].new_region # r
      /\ regionMap[Start(r)] = r
    BY <1>0, <1>1, <1>4, <1>5 DEF Fresh
<1>7. /\ at' \in [Worker -> AtRecord] /\ \A v \in Worker \ {w} : at'[v] = at[v]
      /\ at'[w].new_region = None /\ at'[w].type = "LARGE" /\ at'[w].object = at[w].object
      /\ at'[w].pc = "query" /\ at'[w].region = r
    <2>1. at' = [at EXCEPT ![w] = [@ EXCEPT !.pc = "query", !.region = r, !.new_region = None]]
        BY <1>1, <1>5 DEF Returned
    <2>2. QED BY <1>2, <1>5, <2>1 DEF AtRecord, Steps
<1>8. Emplacing' = Emplacing
    <2>1. \A v \in Worker : (At(v, "emplace") /\ at[v].type \in Shared)'
                            <=> At(v, "emplace") /\ at[v].type \in Shared
        BY <1>1, <1>7 DEF At
    <2>2. \A v \in Worker : At(v, "emplace") => at'[v] = at[v] BY <1>1, <1>7 DEF At
    <2>3. QED BY <2>1, <2>2 DEF Emplacing
<1>9. TypeInv' BY <1>1, <1>2, <1>3, <1>5, <1>7 DEF TypeInv
<1>10. Calls'
    <2>1. ASSUME NEW v \in Worker PROVE Call(v)'
        <3>1. CASE v = w BY <1>3, <1>4, <1>5, <1>7, <3>1, Names DEF Call, At, relocate, RegionEnum
        <3>2. CASE v # w BY <1>3, <1>4, <1>7, <3>2 DEF Call, At, relocate
        <3>3. QED BY <3>1, <3>2
    <2>2. ASSUME NEW v \in Worker PROVE Fresh(v)'
        <3>1. CASE v = w BY <1>7, <3>1 DEF Fresh
        <3>2. CASE v # w
            <4> DEFINE q == at[v].new_region
            <4>1. at'[v] = at[v] /\ q # r /\ q \in Region \cup {None}
                BY <1>2, <1>6, <1>7, <3>2, Types
            <4>2. Fresh(v) BY Facts
            <4>3. q # None => \A x \in Worker \ {v} : at'[x].new_region # q
                BY <1>7, <4>1, <4>2 DEF Fresh
            <4>4. q # None => q \notin regionQue' \cup largeRegionQue' \cup Evac'
                BY <1>1, <1>3, <4>1, <4>2 DEF Fresh
            <4>5. QED BY <1>3, <4>1, <4>2, <4>3, <4>4 DEF Fresh, At, Start
        <3>3. QED BY <3>1, <3>2
    <2>3. ASSUME NEW v \in Worker PROVE Built(v)'
        <3>1. CASE v = w BY <1>1, <1>3, <1>5, <1>6, <1>7, <3>1 DEF Built, At
        <3>2. CASE v # w
            <4>1. at'[v] = at[v] /\ Built(v) BY <1>7, <3>2, Facts
            <4>2. QED BY <1>1, <1>3, <1>8, <4>1 DEF Built, At
        <3>3. QED BY <3>1, <3>2
    <2>4. QED BY <2>1, <2>2, <2>3 DEF Calls
<1>11. QueInv' BY <1>1, <1>2, <1>3, <1>6, Facts, Types DEF QueInv
<1>12. LargeInv'
    <2>1. LargeInv BY Facts
    <2>2. ~canFree(r) BY <1>6 DEF canFree
    <2>3. QED BY <1>1, <1>2, <1>3, <1>5, <1>6, <2>1, <2>2, Types DEF LargeInv, Clearing
<1>13. EvacInv' BY <1>2, <1>3, Facts, Types DEF EvacInv
<1>14. OwnerInv'
    <2>1. OwnerInv BY Facts
    <2>2. \A v \in Worker : at[v].new_region = r \/ at'[v] = at[v] BY <1>0, <1>7
    <2>3. ASSUME NEW s \in Region, Start(s) # None
          PROVE  \/ s \in regionQue' \cup largeRegionQue' \cup Evac'
                 \/ \E v \in Worker : at'[v].new_region = s
        BY <1>1, <1>3, <2>1, <2>2, <2>3 DEF OwnerInv
    <2>4. QED BY <1>3, <2>1, <2>3 DEF OwnerInv
<1>15. AllocInv'
    <2>1. \A v \in Worker : at[v].pc = "emplace" => at'[v] = at[v] BY <1>1, <1>7 DEF At
    <2>2. QED BY <1>3, <1>8, <2>1, Facts DEF AllocInv, At
<1>16. MapInv'
    <2>1. ASSUME NEW c \in Chunk, regionMap[c] # None
          PROVE  /\ region[regionMap[c]].start = c
                 /\ \/ regionMap[c] \in regionQue' \cup largeRegionQue'
                    \/ \E v \in Worker : at'[v].pc = "push" /\ at'[v].new_region = regionMap[c]
        <3>1. \A v \in Worker : at[v].new_region = r \/ at'[v] = at[v] BY <1>0, <1>7
        <3>2. QED BY <1>1, <1>3, <2>1, <3>1, Facts DEF MapInv, At, Start
    <2>2. QED BY <1>3, <2>1 DEF MapInv, At, Start
<1>17. SpaceStep
    <2>1. Start(r) \in Chunk /\ Start(r) \notin Retired BY <1>5, <1>6, NotRetired
    <2> DEFINE Small == UNION {{Start(s)} \X (1..region[s].used) : s \in Held(Region)}
               Large == {<<Start(s), 0>> : s \in Held(largeRegionQue)}
    <2>2. Objects = Small \cup Large /\ Objects' = Small' \cup Large' BY DEF Objects
    <2>3. \A s \in Region \ {r} : Start(s) # None => Start(s) # Start(r)
        BY <1>5, <1>6, Facts DEF OwnerInv
    <2>4. <<Start(r), 0>> \notin Objects
        <3>1. <<Start(r), 0>> \notin Small
            <4>1. ASSUME NEW s \in Held(Region) PROVE <<Start(r), 0>> \notin {Start(s)} \X (1..region[s].used)
                BY <4>1
            <4>2. QED BY <4>1
        <3>2. <<Start(r), 0>> \notin Large BY <1>2, <1>6, <2>3 DEF TypeInv, Held
        <3> HIDE DEF Small, Large
        <3>3. QED BY <2>2, <3>1, <3>2
    <2>5. Held(Region)' = Held(Region) /\ Held(largeRegionQue)' = Held(largeRegionQue) \cup {r}
        BY <1>1, <1>2, <1>3, <1>5, <1>6 DEF Held, TypeInv
    <2>6. Small' = Small BY <1>3, <2>5 DEF Start
    <2>7. Large' = Large \cup {<<Start(r), 0>>} BY <1>3, <2>5 DEF Start
    <2>8. Objects' = Objects \cup {<<Start(r), 0>>}
        <3> HIDE DEF Small, Large
        <3>1. QED BY <2>2, <2>6, <2>7
    <2>9. Retired' = Retired
        <3> DEFINE A == {s \in Held(Region) : region[s].evacuated}
                   B == {s \in Held(largeRegionQue) : Erased(s)}
        <3>1. A' = A BY <1>3, <2>5
        <3>2. ~Erased(r) BY <1>6 DEF Erased
        <3>3. \A s : Erased(s)' <=> Erased(s) BY <1>3 DEF Erased, Start
        <3>4. B' = B BY <2>5, <3>2, <3>3
        <3>5. Retired = {Start(s) : s \in A \cup B} /\ Retired' = {Start(s)' : s \in A' \cup B'} BY DEF Retired
        <3>6. \A s : Start(s)' = Start(s) BY <1>3 DEF Start
        <3> HIDE DEF A, B
        <3>7. QED BY <3>1, <3>4, <3>5, <3>6
    <2>10. 0 \in 0..Capacity BY Names
    <2>11. Space!Allocate(Start(r), 0) BY <2>1, <2>4, <2>8, <2>9 DEF Space!Allocate
    <2>12. QED BY <2>1, <2>10, <2>11 DEF SpaceStep, Space!Next
<1>18. QED BY <1>9, <1>10, <1>11, <1>12, <1>13, <1>14, <1>15, <1>16, <1>17 DEF Inv

(* A cycle begins: no clearing is under way, so that every large region    *)
(* has its memory and its entry whatever mark it bears now.                *)
LEMMA SwitchMarkStateInv ==
    ASSUME Inv, SwitchMarkState
    PROVE  Inv' /\ SpaceStep
<1>1. /\ gcpc = "idle" /\ gcpc' = "marking" /\ cms' = (IF cms = M0 THEN M1 ELSE M0)
      /\ region' = region /\ allocating' = allocating /\ own' = own
      /\ regionMap' = regionMap /\ mapMtx' = mapMtx /\ regionQue' = regionQue
      /\ largeRegionQue' = largeRegionQue /\ evacuationQue' = evacuationQue
      /\ todo' = todo /\ at' = at
    BY Unpack DEF SwitchMarkState
<1>2. TypeInv BY Facts
<1>3. /\ Evac' = Evac /\ Emplacing' = Emplacing /\ AllocatingRegions' = AllocatingRegions
      /\ \A r \in Region : Start(r)' = Start(r)
    BY <1>1 DEF Evac, Emplacing, AllocatingRegions, Start, At
<1>4. TypeInv' BY <1>1, <1>2 DEF TypeInv
<1>5. Calls'
    <2>1. ASSUME NEW v \in Worker PROVE Call(v)' /\ Fresh(v)' /\ Built(v)'
        <3>1. Call(v) /\ Fresh(v) /\ Built(v) BY Facts
        <3>2. Call(v)' BY <1>1, <3>1 DEF Call, At, relocate
        <3>3. Fresh(v)' BY <1>1, <1>3, <3>1 DEF Fresh, At, Start
        <3>4. Built(v)' BY <1>1, <1>3, <3>1 DEF Built, At
        <3>5. QED BY <3>2, <3>3, <3>4
    <2>2. QED BY <2>1 DEF Calls
<1>6. QueInv' /\ OwnerInv' /\ AllocInv' /\ MapInv'
    BY <1>1, <1>3, Facts DEF QueInv, OwnerInv, AllocInv, MapInv, At, Start
<1>7. LargeInv' BY <1>1, <1>3, Facts DEF LargeInv, Clearing, Start
<1>8. EvacInv' BY <1>1, <1>3, Facts DEF EvacInv, Start
<1>9. SpaceStep BY <1>1, <1>2, SameSpace DEF TypeInv, Start
<1>10. QED BY <1>4, <1>5, <1>6, <1>7, <1>8, <1>9 DEF Inv

(* Marking a large region keeps it.                                        *)
LEMMA MarkInv ==
    ASSUME Inv, NEW r \in Region, Mark(r)
    PROVE  Inv' /\ SpaceStep
<1>1. /\ gcpc = "marking" /\ r \in largeRegionQue
      /\ region' = [region EXCEPT ![r].mark = cms]
      /\ gcpc' = gcpc /\ cms' = cms /\ allocating' = allocating /\ own' = own
      /\ regionMap' = regionMap /\ mapMtx' = mapMtx /\ regionQue' = regionQue
      /\ largeRegionQue' = largeRegionQue /\ evacuationQue' = evacuationQue
      /\ todo' = todo /\ at' = at
    BY Unpack DEF Mark
<1>2. TypeInv /\ region \in [Region -> RegionRecord] /\ cms \in {M0, M1} BY Facts DEF TypeInv
<1>3. /\ region' \in [Region -> RegionRecord]
      /\ \A s \in Region : /\ region'[s].start = region[s].start /\ region'[s].type = region[s].type
                           /\ region'[s].used = region[s].used
                           /\ region'[s].evacuated = region[s].evacuated
                           /\ s # r => region'[s].mark = region[s].mark
      /\ region'[r].mark = cms
    BY <1>1, <1>2 DEF RegionRecord
<1>4. /\ Evac' = Evac /\ Emplacing' = Emplacing /\ AllocatingRegions' = AllocatingRegions
      /\ \A s \in Region : Start(s)' = Start(s) /\ (s # r => canFree(s)' = canFree(s))
      /\ ~canFree(r)'
    BY <1>1, <1>3 DEF Evac, Emplacing, AllocatingRegions, Start, At, canFree
<1>5. TypeInv' BY <1>1, <1>2, <1>3 DEF TypeInv
<1>6. Calls'
    <2>1. ASSUME NEW v \in Worker PROVE Call(v)' /\ Fresh(v)' /\ Built(v)'
        <3>1. /\ Call(v) /\ Fresh(v) /\ Built(v)
              /\ at[v].new_region \in Region \cup {None} /\ at[v].region \in Region \cup {None}
            BY <1>2, Facts, Types
        <3>2. Call(v)' BY <1>1, <3>1 DEF Call, At, relocate
        <3>3. Fresh(v)' BY <1>1, <1>3, <1>4, <3>1 DEF Fresh, At, Start
        <3>4. Built(v)' BY <1>1, <1>3, <1>4, <3>1 DEF Built, At
        <3>5. QED BY <3>2, <3>3, <3>4
    <2>2. QED BY <2>1 DEF Calls
<1>7. QueInv' /\ OwnerInv'
    BY <1>1, <1>2, <1>3, <1>4, Facts, Types DEF QueInv, OwnerInv
<1>8. AllocInv' BY <1>1, <1>2, <1>3, <1>4, Facts, Types DEF AllocInv, At
<1>9. MapInv' BY <1>1, <1>2, <1>3, <1>4, Facts, Types DEF MapInv, At, Start
<1>10. LargeInv' BY <1>1, <1>2, <1>3, <1>4, Facts, Types DEF LargeInv, Clearing
<1>11. EvacInv' BY <1>1, <1>2, <1>3, <1>4, Facts, Types DEF EvacInv
<1>12. SpaceStep BY <1>1, <1>2, <1>3, <1>4, SameSpace DEF TypeInv
<1>13. QED BY <1>5, <1>6, <1>7, <1>8, <1>9, <1>10, <1>11, <1>12 DEF Inv

(* Away from the relocation nobody but the user threads allocates. *)
LEMMA WorldStopped ==
    ASSUME Inv, gcpc # "relocate", \A t \in Thread : At(t, "idle")
    PROVE  /\ \A w \in Worker : at[w] = Idle /\ at[w].new_region = None /\ at[w].pc = "idle"
           /\ Emplacing = {}
<1>1. \A w \in Worker : At(w, "idle") /\ at[w] = Idle
    <2>1. ASSUME NEW w \in Worker PROVE At(w, "idle") /\ at[w] = Idle
        BY Facts, Names DEF Call
    <2>2. QED BY <2>1
<1>2. Idle.new_region = None /\ Idle.pc = "idle" BY DEF Idle
<1>3. Emplacing = {} BY <1>1, <1>2 DEF Emplacing, At
<1>4. QED BY <1>1, <1>2, <1>3

(* The selection, region by region. *)
LEMMA Selected ==
    ASSUME Inv, Select
    PROVE  \E S \in SUBSET regionQue :
           /\ gcpc = "marking" /\ gcpc' = "relocate" /\ \A t \in Thread : At(t, "idle")
           /\ evacuationQue' \in Seq(Region) /\ Evac' = S
           /\ todo' \in [GCThread -> SUBSET Region] /\ \A g \in GCThread : todo'[g] \subseteq S
           /\ regionQue' = regionQue \ S
           /\ region' \in [Region -> RegionRecord]
           /\ \A r \in Region : Start(r)' = Start(r)
           /\ \A r \in S : /\ region'[r].evacuated /\ region'[r].type = region[r].type
                           /\ region'[r].used = region[r].used
           /\ \A r \in Region \ (S \cup Evac) : region'[r] = region[r]
           /\ \A r \in Evac : /\ Start(r) = None
                              /\ r \in AllocatingRegions => region'[r].evacuated
           /\ regionMap' \in [Chunk -> Region \cup {None}]
           /\ \A a \in Chunk :
                  regionMap'[a] = IF \E r \in S : Start(r) = a THEN None ELSE regionMap[a]
<1>1. PICK S \in SUBSET regionQue :
          /\ evacuationQue' = SetToSeq(S) /\ todo' = Shares(SetToSeq(S))
          /\ regionQue' = regionQue \ S
          /\ region' = Destroyed(Range(evacuationQue) \ AllocatingRegions,
                 [r \in Region |-> IF r \in S THEN Evacuated(region[r]) ELSE region[r]])
          /\ regionMap' = RegionsUnmapped(S)
    BY DEF Select
<1>2. gcpc = "marking" /\ gcpc' = "relocate" /\ \A t \in Thread : At(t, "idle") BY DEF Select
<1>3. TypeInv /\ region \in [Region -> RegionRecord] /\ S \subseteq Region
    BY <1>1, Facts DEF TypeInv
<1>4. SetToSeq(S) \in Seq(Region) /\ Range(SetToSeq(S)) = S BY <1>3, QueueOfSet
<1>5. /\ evacuationQue' \in Seq(Region) /\ Evac' = S BY <1>1, <1>4 DEF Evac
<1>6. todo' \in [GCThread -> SUBSET Region] /\ \A g \in GCThread : todo'[g] \subseteq S
    BY <1>1, <1>4, SharesWhole
<1>7. \A r \in Evac : r \in Region /\ Start(r) = None /\ region[r].evacuated /\ r \notin S
    BY <1>1, <1>2, <1>3, Facts, Types DEF EvacInv, QueInv
<1>8. \A r \in Region :
          region'[r] = IF r \in Evac \ AllocatingRegions THEN NoMemory
                       ELSE IF r \in S THEN Evacuated(region[r]) ELSE region[r]
    BY <1>1 DEF Destroyed, Evac
<1>9. ASSUME NEW r \in Region
      PROVE  LET e == Evacuated(region[r])
             IN  /\ e \in RegionRecord /\ e.evacuated /\ e.type = region[r].type
                 /\ e.used = region[r].used /\ e.start = region[r].start
    <2>1. region[r] \in RegionRecord /\ region[r].used \in Nat BY <1>3, Types
    <2>2. 1..region[r].used \subseteq Nat BY <2>1
    <2>3. QED BY <2>1, <2>2 DEF Evacuated, RegionRecord
<1>10. NoMemory \in RegionRecord /\ NoMemory.start = None BY DEF NoMemory, RegionRecord
<1>11. region' \in [Region -> RegionRecord]
    <2>1. region' = [r \in Region |-> region'[r]] BY <1>1 DEF Destroyed
    <2>2. \A r \in Region : region'[r] \in RegionRecord BY <1>3, <1>8, <1>9, <1>10
    <2>3. QED BY <2>1, <2>2
<1>12. \A r \in Region : Start(r)' = Start(r)
    <2>1. ASSUME NEW r \in Region PROVE region'[r].start = region[r].start
        <3>1. CASE r \in Evac \ AllocatingRegions BY <1>7, <1>8, <1>10, <3>1 DEF Start
        <3>2. CASE r \notin Evac \ AllocatingRegions BY <1>8, <1>9, <3>2
        <3>3. QED BY <3>1, <3>2
    <2>2. QED BY <2>1 DEF Start
<1>13. \A r \in S : /\ region'[r].evacuated /\ region'[r].type = region[r].type
                    /\ region'[r].used = region[r].used
    BY <1>3, <1>7, <1>8, <1>9
<1>14. \A r \in Region \ (S \cup Evac) : region'[r] = region[r] BY <1>8
<1>15. \A r \in Evac : r \in AllocatingRegions => region'[r].evacuated BY <1>7, <1>8
<1>16. /\ regionMap' \in [Chunk -> Region \cup {None}]
       /\ \A a \in Chunk :
              regionMap'[a] = IF \E r \in S : Start(r) = a THEN None ELSE regionMap[a]
    BY <1>1, <1>3 DEF RegionsUnmapped, TypeInv
<1>17. QED BY <1>1, <1>2, <1>5, <1>6, <1>7, <1>11, <1>12, <1>13, <1>14, <1>15, <1>16

(* The selection retires its regions and takes them out of the map and the *)
(* queue in one step with the world stopped.                               *)
LEMMA SelectInv ==
    ASSUME Inv, Select
    PROVE  Inv' /\ SpaceStep
<1>1. PICK S \in SUBSET regionQue :
           /\ gcpc = "marking" /\ gcpc' = "relocate" /\ \A t \in Thread : At(t, "idle")
           /\ evacuationQue' \in Seq(Region) /\ Evac' = S
           /\ todo' \in [GCThread -> SUBSET Region] /\ \A g \in GCThread : todo'[g] \subseteq S
           /\ regionQue' = regionQue \ S
           /\ region' \in [Region -> RegionRecord]
           /\ \A r \in Region : Start(r)' = Start(r)
           /\ \A r \in S : /\ region'[r].evacuated /\ region'[r].type = region[r].type
                           /\ region'[r].used = region[r].used
           /\ \A r \in Region \ (S \cup Evac) : region'[r] = region[r]
           /\ \A r \in Evac : /\ Start(r) = None
                              /\ r \in AllocatingRegions => region'[r].evacuated
           /\ regionMap' \in [Chunk -> Region \cup {None}]
           /\ \A a \in Chunk :
                  regionMap'[a] = IF \E r \in S : Start(r) = a THEN None ELSE regionMap[a]
    BY Selected
<1>2. /\ allocating' = allocating /\ own' = own /\ mapMtx' = mapMtx
      /\ largeRegionQue' = largeRegionQue /\ cms' = cms /\ at' = at
    BY DEF Select
<1>3. /\ \A w \in Worker : at[w] = Idle /\ at[w].new_region = None /\ at[w].pc = "idle"
      /\ Emplacing = {}
    BY <1>1, WorldStopped
<1>4. TypeInv /\ S \subseteq Region /\ \A r \in regionQue \cup largeRegionQue : r \in Region /\ r \notin Evac
    BY Facts, Types DEF QueInv
<1>5. Emplacing' = {} /\ AllocatingRegions' = AllocatingRegions
    BY <1>2, <1>3 DEF Emplacing, AllocatingRegions, At
<1>6. TypeInv' BY <1>1, <1>2, <1>4 DEF TypeInv
<1>7. Calls'
    <2>1. ASSUME NEW v \in Worker PROVE Call(v)' /\ Fresh(v)' /\ Built(v)'
        <3>1. Call(v) BY Facts
        <3>2. Call(v)' BY <1>2, <1>3, <3>1 DEF Call, At, relocate
        <3>3. Fresh(v)' BY <1>2, <1>3 DEF Fresh
        <3>4. Built(v)' BY <1>2, <1>3 DEF Built, At
        <3>5. QED BY <3>2, <3>3, <3>4
    <2>2. QED BY <2>1 DEF Calls
<1>8. ASSUME NEW r \in Region, Start(r) # None, r \notin S
      PROVE  /\ Start(r) \in Chunk /\ regionMap'[region'[r].start] = regionMap[Start(r)]
             /\ region'[r] = region[r]
    <2>1. Start(r) \in Chunk BY <1>4, <1>8, Types
    <2>2. \A s \in S : Start(s) # Start(r) BY <1>4, <1>8, Facts DEF OwnerInv
    <2>3. region'[r] = region[r] BY <1>1, <1>8
    <2>4. QED BY <1>1, <2>1, <2>2, <2>3 DEF Start
<1>9. QueInv'
    <2>1. QueInv BY Facts
    <2>2. QED BY <1>1, <1>2, <1>4, <1>8, <2>1 DEF QueInv, Start
<1>10. \A r \in largeRegionQue : /\ r \in Region /\ r \notin S /\ Start(r) # None
                                 /\ ~region[r].evacuated /\ regionMap[Start(r)] = r
    BY <1>1, <1>4, Facts DEF LargeInv, QueInv, Clearing
<1>11. LargeInv' BY <1>1, <1>2, <1>8, <1>10 DEF LargeInv, Clearing, Start
<1>12. EvacInv'
    <2>1. \A r \in S : region[r].type \in Kinds BY <1>4, Facts DEF QueInv
    <2>2. QED BY <1>1, <2>1 DEF EvacInv
<1>13. OwnerInv'
    <2>1. ASSUME NEW r \in Region, Start(r) # None
          PROVE  r \in regionQue' \cup largeRegionQue' \cup Evac'
        BY <1>1, <1>2, <1>3, <1>4, <2>1, Facts, Names DEF OwnerInv
    <2>2. QED BY <1>1, <2>1, Facts DEF OwnerInv
<1>14. AllocInv'
    <2>1. ASSUME NEW r \in AllocatingRegions, r # None, region[r].evacuated \/ r \in regionQue
          PROVE  region'[r].evacuated \/ r \in regionQue'
        <3>1. r \in Region BY <1>4, <2>1, Types DEF AllocatingRegions
        <3>2. QED BY <1>1, <1>4, <2>1, <3>1
    <2>2. ASSUME NEW s \in Shared, allocating[s] # None
          PROVE  region'[allocating[s]].evacuated \/ allocating[s] \in regionQue'
        BY <1>3, <2>1, <2>2, Facts DEF AllocInv, AllocatingRegions
    <2>3. ASSUME NEW v \in Worker, NEW b \in BOOLEAN, own[v][b] # None
          PROVE  region'[own[v][b]].evacuated \/ own[v][b] \in regionQue'
        BY <1>3, <2>1, <2>3, Facts DEF AllocInv, AllocatingRegions, At
    <2>4. QED BY <1>2, <2>2, <2>3 DEF AllocInv
<1>15. MapInv'
    <2>1. ASSUME NEW c \in Chunk, regionMap'[c] # None
          PROVE  /\ region'[regionMap'[c]].start = c
                 /\ regionMap'[c] \in regionQue' \cup largeRegionQue
        <3>1. regionMap'[c] = regionMap[c] /\ \A s \in S : Start(s) # c BY <1>1, <2>1
        <3>2. Start(regionMap[c]) = c /\ regionMap[c] \in regionQue \cup largeRegionQue
            BY <1>3, <2>1, <3>1, Facts DEF MapInv, At
        <3>3. regionMap[c] \notin S /\ regionMap[c] \in Region BY <1>4, <3>1, <3>2
        <3>4. region'[regionMap[c]].start = region[regionMap[c]].start BY <1>1, <3>3 DEF Start
        <3>5. QED BY <1>1, <3>1, <3>2, <3>3, <3>4 DEF Start
    <2>2. QED BY <1>2, <2>1 DEF MapInv, Start
<1>16. SpaceStep
    <2> DEFINE Small == UNION {{Start(s)} \X (1..region[s].used) : s \in Held(Region)}
               Large == {<<Start(s), 0>> : s \in Held(largeRegionQue)}
               A == {s \in Held(Region) : region[s].evacuated}
               B == {s \in Held(largeRegionQue) : Erased(s)}
    <2>1. Held(Region)' = Held(Region) /\ Held(largeRegionQue)' = Held(largeRegionQue)
          /\ Held(largeRegionQue) \subseteq Region
        BY <1>1, <1>2, <1>4 DEF Held
    <2>2. \A s \in Held(Region) : s \in Region /\ Start(s) # None BY DEF Held
    <2>3. \A s \in Held(Region) : s \notin Evac /\ (s \in S \/ region'[s] = region[s]) BY <1>1, <2>2
    <2>4. \A s \in Held(Region) : region'[s].used = region[s].used BY <1>1, <2>3
    <2>5. Small' = Small BY <1>1, <2>1, <2>2, <2>4
    <2>6. Large' = Large BY <1>1, <2>1
    <2>7. Objects = Small \cup Large /\ Objects' = Small' \cup Large' BY DEF Objects
    <2>8. Objects' = Objects BY <2>5, <2>6, <2>7
    <2>9. Retired = {Start(s) : s \in A \cup B} /\ Retired' = {Start(s)' : s \in A' \cup B'} BY DEF Retired
    <2>10. B = {} BY <1>10 DEF Erased, Held
    <2>11. A \subseteq A' BY <1>1, <2>1, <2>3
    <2>12. A' \cup B' \subseteq Held(Region) BY <1>2, <1>4, <2>1 DEF Held
    <2>13. Held(Region) \subseteq Region /\ \A s \in Held(Region) : Start(s) \in Chunk
        BY <1>4, Types DEF Held
    <2> HIDE DEF A, B
    <2>14. Retired \subseteq Retired' /\ Retired' \subseteq Chunk
        BY <1>1, <2>9, <2>10, <2>11, <2>12, <2>13
    <2>15. QED BY <2>8, <2>14 DEF SpaceStep, Space!Next, Space!Retire
<1>17. QED BY <1>6, <1>7, <1>9, <1>11, <1>12, <1>13, <1>14, <1>15, <1>16 DEF Inv

(* A retired region that loses its memory takes its objects with it.       *)
LEMMA ReleaseSpace ==
    ASSUME Inv, NEW r \in Region, Start(r) # None, Start(r) \in Retired, region'[r].start = None,
           \A s \in Region \ {r} : /\ region'[s].start = region[s].start
                                   /\ region'[s].used = region[s].used
                                   /\ region'[s].evacuated = region[s].evacuated,
           largeRegionQue' = largeRegionQue, regionMap' = regionMap
    PROVE  SpaceStep
<1> DEFINE a == Start(r)
           Small == UNION {{Start(s)} \X (1..region[s].used) : s \in Held(Region)}
           Large == {<<Start(s), 0>> : s \in Held(largeRegionQue)}
           Gone == {s \in Held(Region) : region[s].evacuated} \cup {s \in Held(largeRegionQue) : Erased(s)}
<1>0. PICK c : c = Start(r) OBVIOUS
<1>1. TypeInv /\ largeRegionQue \subseteq Region /\ c \in Chunk BY <1>0, Facts, Types
<1>2. \A s \in Region \ {r} : Start(s)' = Start(s) /\ Start(s) # c BY <1>0, Facts DEF Start, OwnerInv
<1>3. Start(r)' = None BY DEF Start
<1>4. /\ Held(Region)' = Held(Region) \ {r} /\ Held(largeRegionQue)' = Held(largeRegionQue) \ {r}
      /\ Held(Region) \subseteq Region /\ Held(largeRegionQue) \subseteq Region
    BY <1>1, <1>2, <1>3 DEF Held
<1>5. Objects = Small \cup Large /\ Objects' = Small' \cup Large' BY DEF Objects
<1>6. Small' = {o \in Small : o[1] # c}
    <2>1. \A s \in Held(Region) \ {r} : {Start(s)} \X (1..region[s].used) = ({Start(s)} \X (1..region[s].used))'
        BY <1>2, <1>4
    <2>2. Small' = UNION {({Start(s)} \X (1..region[s].used))' : s \in Held(Region)'} OBVIOUS
    <2>3. Small' = UNION {{Start(s)} \X (1..region[s].used) : s \in Held(Region) \ {r}} BY <1>4, <2>1, <2>2
    <2>4. ASSUME NEW o \in Small' PROVE o \in Small /\ o[1] # c
        <3>1. PICK s \in Held(Region) \ {r} : o \in {Start(s)} \X (1..region[s].used) BY <2>3
        <3>2. o[1] = Start(s) BY <3>1
        <3>3. QED BY <1>2, <1>4, <3>1, <3>2
    <2>5. ASSUME NEW o \in Small, o[1] # c PROVE o \in Small'
        <3>1. PICK s \in Held(Region) : o \in {Start(s)} \X (1..region[s].used) OBVIOUS
        <3>2. o[1] = Start(s) BY <3>1
        <3>3. QED BY <1>0, <2>3, <2>5, <3>1, <3>2
    <2>6. QED BY <2>4, <2>5
<1>7. Large' = {o \in Large : o[1] # c}
    <2>1. \A s \in Held(largeRegionQue) \ {r} : Start(s)' = Start(s) BY <1>2, <1>4
    <2>2. Large' = {<<Start(s), 0>> : s \in Held(largeRegionQue) \ {r}} BY <1>4, <2>1
    <2>3. QED BY <1>0, <1>2, <1>4, <2>2
<1>8. Objects' = {o \in Objects : o[1] # c}
    <2> HIDE DEF Small, Large
    <2>1. QED BY <1>5, <1>6, <1>7
<1>9. Gone' = Gone \ {r} BY <1>2, <1>4 DEF Erased
<1>10. Retired = {Start(s) : s \in Gone} /\ Retired' = {Start(s)' : s \in Gone'} /\ Gone \subseteq Region
    BY <1>4 DEF Retired
<1>11. Retired' = Retired \ {c}
    <2> HIDE DEF Gone
    <2>1. QED BY <1>0, <1>2, <1>9, <1>10
<1>12. Space!Release(c) BY <1>0, <1>8, <1>11 DEF Space!Release
<1>13. QED BY <1>1, <1>12 DEF SpaceStep, Space!Next

(* A GC thread is done with the objects of a region.                       *)
LEMMA RegionDoneInv ==
    ASSUME Inv, NEW g \in GCThread, RegionDone(g)
    PROVE  Inv' /\ SpaceStep
<1>1. PICK r \in todo[g] : /\ todo' = [todo EXCEPT ![g] = @ \ {r}]
                           /\ region' = [region EXCEPT ![r].left = {}]
    BY DEF RegionDone
<1>2. /\ gcpc = "relocate" /\ gcpc' = gcpc /\ cms' = cms /\ allocating' = allocating /\ own' = own
      /\ regionMap' = regionMap /\ mapMtx' = mapMtx /\ regionQue' = regionQue
      /\ largeRegionQue' = largeRegionQue /\ evacuationQue' = evacuationQue
      /\ at' = at
    BY Unpack DEF RegionDone
<1>3. /\ TypeInv /\ region \in [Region -> RegionRecord] /\ todo \in [GCThread -> SUBSET Region]
      /\ r \in Region /\ r \in Evac
    BY <1>1, Facts, Types DEF TypeInv, EvacInv
<1>4. /\ todo' \in [GCThread -> SUBSET Region] /\ \A h \in GCThread : todo'[h] \subseteq todo[h]
      /\ region' \in [Region -> RegionRecord]
      /\ \A s \in Region : /\ region'[s].start = region[s].start /\ region'[s].type = region[s].type
                           /\ region'[s].used = region[s].used
                           /\ region'[s].evacuated = region[s].evacuated
                           /\ region'[s].mark = region[s].mark
    BY <1>1, <1>3 DEF RegionRecord
<1>5. /\ Evac' = Evac /\ Emplacing' = Emplacing /\ AllocatingRegions' = AllocatingRegions
      /\ \A s \in Region : Start(s)' = Start(s) /\ canFree(s)' = canFree(s)
    BY <1>2, <1>4 DEF Evac, Emplacing, AllocatingRegions, Start, At, canFree
<1>6. TypeInv' BY <1>2, <1>3, <1>4 DEF TypeInv
<1>7. Calls'
    <2>1. ASSUME NEW v \in Worker PROVE Call(v)' /\ Fresh(v)' /\ Built(v)'
        <3>1. /\ Call(v) /\ Fresh(v) /\ Built(v)
              /\ at[v].new_region \in Region \cup {None} /\ at[v].region \in Region \cup {None}
            BY <1>3, Facts, Types
        <3>2. Call(v)' BY <1>2, <3>1 DEF Call, At, relocate
        <3>3. Fresh(v)' BY <1>2, <1>4, <1>5, <3>1 DEF Fresh, At, Start
        <3>4. Built(v)' BY <1>2, <1>4, <1>5, <3>1 DEF Built, At
        <3>5. QED BY <3>2, <3>3, <3>4
    <2>2. QED BY <2>1 DEF Calls
<1>8. QueInv' /\ OwnerInv'
    BY <1>2, <1>3, <1>4, <1>5, Facts, Types DEF QueInv, OwnerInv
<1>9. AllocInv' BY <1>2, <1>3, <1>4, <1>5, Facts, Types DEF AllocInv, At
<1>10. MapInv' BY <1>2, <1>3, <1>4, <1>5, Facts, Types DEF MapInv, At, Start
<1>11. LargeInv' BY <1>2, <1>3, <1>4, <1>5, Facts, Types DEF LargeInv, Clearing
<1>12. EvacInv'
    <2>1. EvacInv BY Facts
    <2>2. Evac \subseteq Region BY <1>3, Types
    <2>3. QED BY <1>2, <1>4, <1>5, <2>1, <2>2 DEF EvacInv
<1>13. SpaceStep BY <1>2, <1>3, <1>4, <1>5, SameSpace DEF TypeInv
<1>14. QED BY <1>6, <1>7, <1>8, <1>9, <1>10, <1>11, <1>12, <1>13 DEF Inv

(* A GC thread gives back the memory of a region of its share.             *)
LEMMA FreeRegionInv ==
    ASSUME Inv, NEW g \in GCThread, FreeRegion(g)
    PROVE  Inv' /\ SpaceStep
<1>1. PICK r \in todo[g] : /\ todo' = [todo EXCEPT ![g] = @ \ {r}]
                           /\ region' = [region EXCEPT ![r] = [NoMemory EXCEPT !.evacuated = TRUE]]
    BY DEF FreeRegion
<1>2. /\ gcpc = "free" /\ gcpc' = gcpc /\ cms' = cms /\ allocating' = allocating /\ own' = own
      /\ regionMap' = regionMap /\ mapMtx' = mapMtx /\ regionQue' = regionQue
      /\ largeRegionQue' = largeRegionQue /\ evacuationQue' = evacuationQue
      /\ at' = at
    BY Unpack DEF FreeRegion
<1>3. /\ TypeInv /\ region \in [Region -> RegionRecord] /\ todo \in [GCThread -> SUBSET Region]
      /\ r \in Region /\ r \in Evac /\ region[r].evacuated
      /\ r \notin regionQue \cup largeRegionQue
    BY <1>1, Facts, Types DEF TypeInv, EvacInv, QueInv
<1>4. /\ todo' \in [GCThread -> SUBSET Region]
      /\ \A h \in GCThread : todo'[h] \subseteq todo[h] /\ todo[h] \subseteq todo'[h] \cup {r}
    BY <1>1, <1>3
<1>5. /\ region' \in [Region -> RegionRecord] /\ \A s \in Region \ {r} : region'[s] = region[s]
      /\ region'[r].start = None /\ region'[r].evacuated /\ region'[r].used = 0
    <2> DEFINE rec == [NoMemory EXCEPT !.evacuated = TRUE]
    <2>1. rec \in RegionRecord /\ rec.start = None /\ rec.evacuated /\ rec.used = 0
        BY DEF NoMemory, RegionRecord
    <2> HIDE DEF rec
    <2>2. region' = [region EXCEPT ![r] = rec] BY <1>1 DEF rec
    <2>3. QED BY <1>3, <2>1, <2>2
<1>6. /\ Evac' = Evac /\ Emplacing' = Emplacing /\ AllocatingRegions' = AllocatingRegions
      /\ \A s \in Region \ {r} : Start(s)' = Start(s) /\ canFree(s)' = canFree(s)
      /\ Start(r)' = None
    BY <1>2, <1>5 DEF Evac, Emplacing, AllocatingRegions, Start, At, canFree
<1>7. /\ \A v \in Worker : at[v].new_region # r
      /\ r \notin Emplacing
    <2>1. ASSUME NEW v \in Worker PROVE at[v].new_region # r BY <1>3, Facts, Names DEF Fresh
    <2>2. QED BY <2>1 DEF Emplacing
<1>8. TypeInv' BY <1>2, <1>3, <1>4, <1>5 DEF TypeInv
<1>9. Calls'
    <2>1. ASSUME NEW v \in Worker PROVE Call(v)' /\ Fresh(v)' /\ Built(v)'
        <3>1. /\ Call(v) /\ Fresh(v) /\ Built(v) /\ at[v].new_region # r
              /\ at[v].new_region \in Region \cup {None} /\ at[v].region \in Region \cup {None}
            BY <1>3, <1>7, Facts, Types
        <3>2. Call(v)' BY <1>2, <3>1 DEF Call, At, relocate
        <3>3. Fresh(v)' BY <1>2, <1>5, <1>6, <3>1 DEF Fresh, At, Start
        <3>4. Built(v)' BY <1>2, <1>3, <1>5, <1>6, <1>7, <3>1 DEF Built, At
        <3>5. QED BY <3>2, <3>3, <3>4
    <2>2. QED BY <2>1 DEF Calls
<1>10. QueInv' BY <1>2, <1>3, <1>5, <1>6, Facts, Types DEF QueInv
<1>11. OwnerInv' BY <1>2, <1>5, <1>6, Facts DEF OwnerInv
<1>12. AllocInv' BY <1>2, <1>3, <1>5, <1>6, Facts, Types DEF AllocInv, At
<1>13. MapInv'
    <2>1. ASSUME NEW c \in Chunk, regionMap[c] # None
          PROVE  region'[regionMap[c]].start = region[regionMap[c]].start
        <3>1. regionMap[c] \in Region BY <1>3, <2>1, Types
        <3>2. regionMap[c] # r BY <1>3, <1>7, <2>1, Facts DEF MapInv
        <3>3. QED BY <1>5, <3>1, <3>2
    <2>2. QED BY <1>2, <2>1, Facts DEF MapInv, At, Start
<1>14. LargeInv' BY <1>2, <1>3, <1>5, <1>6, Facts, Types DEF LargeInv, Clearing
<1>15. EvacInv'
    <2>1. EvacInv BY Facts
    <2>2. Evac \subseteq Region BY <1>3, Types
    <2>3. \A h \in GCThread : todo'[h] \subseteq Evac BY <1>4, <2>1 DEF EvacInv
    <2>4. ASSUME NEW s \in Evac, Start(s)' # None
          PROVE  region'[s].type \in Kinds /\ \E h \in GCThread : s \in todo'[h]
        BY <1>2, <1>4, <1>5, <1>6, <2>1, <2>2, <2>4 DEF EvacInv
    <2>5. \A s \in Evac : region'[s].evacuated BY <1>5, <2>1, <2>2 DEF EvacInv
    <2>6. QED BY <1>2, <1>6, <2>3, <2>4, <2>5 DEF EvacInv
<1>16. SpaceStep
    <2>1. CASE Start(r) # None
        <3>1. Start(r) \in Retired BY <1>3, <2>1 DEF Retired, Held
        <3>2. QED BY <1>2, <1>3, <1>5, <2>1, <3>1, ReleaseSpace
    <2>2. CASE Start(r) = None
        <3>1. \A s \in Region \ {r} : Erased(s)' = Erased(s) BY <1>2, <1>6 DEF Erased
        <3>2. QED BY <1>2, <1>3, <1>5, <1>6, <2>2, <3>1, SameView DEF TypeInv
    <2>3. QED BY <2>1, <2>2
<1>17. QED BY <1>8, <1>9, <1>10, <1>11, <1>12, <1>13, <1>14, <1>15, <1>16 DEF Inv

(* A step of the collection that changes where the GC thread is, and what  *)
(* is left of the shares. *)
LEMMA PhaseInv ==
    ASSUME Inv, UNCHANGED <<heapVars, mapVars, queVars, cms, at>>,
           gcpc # "marking", gcpc' \in {"free", "clearLarge", "purgeLarge"},
           todo' \in [GCThread -> SUBSET Region],
           \A w \in GCThread : At(w, "idle"), LargeInv', EvacInv'
    PROVE  Inv' /\ SpaceStep
<1>1. /\ region' = region /\ allocating' = allocating /\ own' = own
      /\ regionMap' = regionMap /\ mapMtx' = mapMtx /\ regionQue' = regionQue
      /\ largeRegionQue' = largeRegionQue /\ evacuationQue' = evacuationQue
      /\ cms' = cms /\ at' = at
    BY Unpack
<1>2. /\ Evac' = Evac /\ Emplacing' = Emplacing /\ AllocatingRegions' = AllocatingRegions
      /\ \A s \in Region : Start(s)' = Start(s) /\ canFree(s)' = canFree(s)
    BY <1>1 DEF Evac, Emplacing, AllocatingRegions, Start, At, canFree
<1>3. TypeInv /\ TypeInv' BY <1>1, Facts DEF TypeInv
<1>4. Calls'
    <2>1. ASSUME NEW v \in Worker PROVE Call(v)' /\ Fresh(v)' /\ Built(v)'
        <3>1. Call(v) /\ Fresh(v) /\ Built(v) BY Facts
        <3>2. Call(v)' BY <1>1, <3>1 DEF Call, At, relocate
        <3>3. Fresh(v)' BY <1>1, <1>2, <3>1 DEF Fresh, At, Start
        <3>4. Built(v)' BY <1>1, <1>2, <3>1 DEF Built, At
        <3>5. QED BY <3>2, <3>3, <3>4
    <2>2. QED BY <2>1 DEF Calls
<1>5. QueInv' /\ OwnerInv' /\ AllocInv' /\ MapInv'
    BY <1>1, <1>2, Facts DEF QueInv, OwnerInv, AllocInv, MapInv, At, Start
<1>6. SpaceStep BY <1>1, <1>2, <1>3, SameSpace DEF TypeInv
<1>7. QED BY <1>3, <1>4, <1>5, <1>6 DEF Inv

(* The shares of the freeing take up every region that was relocated from; *)
(* when they are empty no region that is evacuated has memory.             *)
LEMMA TasksCompleteInv ==
    ASSUME Inv, TasksComplete
    PROVE  Inv' /\ SpaceStep
<1>1. /\ \A g \in GCThread : todo[g] = {} /\ At(g, "idle")
      /\ UNCHANGED <<heapVars, mapVars, queVars, cms, at>>
    BY DEF TasksComplete
<1>2. region' = region /\ regionMap' = regionMap /\ largeRegionQue' = largeRegionQue
      /\ evacuationQue' = evacuationQue /\ cms' = cms
    BY <1>1, Unpack
<1>3. /\ Evac' = Evac /\ \A r : Start(r)' = region[r].start /\ Start(r) = region[r].start
      /\ \A r : canFree(r)' = canFree(r)
    BY <1>2 DEF Evac, Start, canFree
<1>4. CASE gcpc = "relocate" /\ gcpc' = "free" /\ todo' = Shares(evacuationQue)
    <2>1. evacuationQue \in Seq(Region) BY Facts DEF TypeInv
    <2>2. LargeInv' BY <1>2, <1>3, <1>4, Facts DEF LargeInv, Clearing
    <2>3. EvacInv' BY <1>2, <1>3, <1>4, <2>1, SharesWhole, Facts DEF EvacInv, Evac
    <2>4. QED BY <1>1, <1>4, <2>1, <2>2, <2>3, SharesWhole, PhaseInv
<1>5. CASE gcpc = "free" /\ gcpc' = "clearLarge" /\ UNCHANGED todo
    <2>1. LargeInv' BY <1>2, <1>3, <1>5, Facts DEF LargeInv, Clearing
    <2>2. EvacInv' BY <1>1, <1>2, <1>3, <1>5, Facts DEF EvacInv
    <2>3. todo \in [GCThread -> SUBSET Region] BY Facts DEF TypeInv
    <2>4. QED BY <1>1, <1>5, <2>1, <2>2, <2>3, PhaseInv
<1>6. QED BY <1>4, <1>5 DEF TasksComplete

(* The first pass over the large regions has left none that can be freed   *)
(* with memory.                                                            *)
LEMMA PassDoneInv ==
    ASSUME Inv, PassDone
    PROVE  Inv' /\ SpaceStep
<1>1. /\ gcpc = "clearLarge" /\ gcpc' = "purgeLarge"
      /\ \A r \in largeRegionQue : canFree(r) => Start(r) = None
      /\ UNCHANGED <<heapVars, mapVars, queVars, cms, at>> /\ todo' = todo
    BY DEF PassDone
<1>2. region' = region /\ regionMap' = regionMap /\ largeRegionQue' = largeRegionQue
      /\ evacuationQue' = evacuationQue /\ cms' = cms
    BY <1>1, Unpack
<1>3. /\ Evac' = Evac /\ \A r : Start(r)' = region[r].start /\ Start(r) = region[r].start
      /\ \A r : canFree(r)' = canFree(r)
    BY <1>2 DEF Evac, Start, canFree
<1>4. LargeInv' BY <1>1, <1>2, <1>3, Facts DEF LargeInv, Clearing
<1>5. EvacInv' BY <1>1, <1>2, <1>3, Facts DEF EvacInv
<1>6. ASSUME NEW w \in GCThread PROVE At(w, "idle") BY <1>1, Facts DEF Call, Worker
<1>7. todo \in [GCThread -> SUBSET Region] BY Facts DEF TypeInv
<1>8. QED BY <1>1, <1>4, <1>5, <1>6, <1>7, PhaseInv

(* A large region that can be freed leaves the map.                        *)
LEMMA EraseLargeInv ==
    ASSUME Inv, NEW r \in Region, EraseLarge(r)
    PROVE  Inv' /\ SpaceStep
<1>0. PICK a : a = Start(r) OBVIOUS
<1>1. /\ gcpc = "clearLarge" /\ r \in largeRegionQue /\ canFree(r) /\ a # None
      /\ regionMap[a] = r /\ regionMap' = [regionMap EXCEPT ![a] = None]
      /\ gcpc' = gcpc /\ cms' = cms /\ region' = region /\ allocating' = allocating /\ own' = own
      /\ mapMtx' = mapMtx /\ regionQue' = regionQue
      /\ largeRegionQue' = largeRegionQue /\ evacuationQue' = evacuationQue
      /\ todo' = todo /\ at' = at
    BY <1>0, Unpack DEF EraseLarge, Erased
<1>2. TypeInv /\ a \in Chunk /\ regionMap \in [Chunk -> Region \cup {None}]
    BY <1>0, <1>1, Facts, Types DEF TypeInv
<1>3. /\ regionMap' \in [Chunk -> Region \cup {None}]
      /\ \A c \in Chunk : regionMap'[c] = IF c = a THEN None ELSE regionMap[c]
    BY <1>1, <1>2
<1>4. /\ Evac' = Evac /\ Emplacing' = Emplacing /\ AllocatingRegions' = AllocatingRegions
      /\ \A s \in Region : Start(s)' = Start(s) /\ canFree(s)' = canFree(s)
    BY <1>1 DEF Evac, Emplacing, AllocatingRegions, Start, At, canFree
<1>5. ASSUME NEW s \in Region, s # r, Start(s) # None
      PROVE  regionMap'[region'[s].start] = regionMap[Start(s)] /\ Start(s) # a
    <2>1. Start(s) \in Chunk /\ Start(s) # a BY <1>0, <1>1, <1>2, <1>5, Facts, Types DEF OwnerInv
    <2>2. QED BY <1>1, <1>3, <2>1 DEF Start
<1>6. r \notin regionQue /\ r \notin Evac BY <1>1, Facts DEF QueInv
<1>7. TypeInv' BY <1>1, <1>2, <1>3 DEF TypeInv
<1>8. Calls'
    <2>1. ASSUME NEW v \in Worker PROVE Call(v)' /\ Fresh(v)' /\ Built(v)'
        <3>1. /\ Call(v) /\ Fresh(v) /\ Built(v)
              /\ at[v].new_region \in Region \cup {None} /\ at[v].region \in Region \cup {None}
            BY <1>2, Facts, Types
        <3>2. Call(v)' BY <1>1, <3>1 DEF Call, At, relocate
        <3>3. Fresh(v)'
            <4> DEFINE q == at[v].new_region
            <4>1. q # None => q \in Region /\ q # r /\ Start(q) # None BY <1>1, <3>1 DEF Fresh
            <4>2. QED BY <1>1, <1>4, <1>5, <3>1, <4>1 DEF Fresh, At, Start
        <3>4. Built(v)' BY <1>1, <1>4, <3>1 DEF Built, At
        <3>5. QED BY <3>2, <3>3, <3>4
    <2>2. QED BY <2>1 DEF Calls
<1>9. QueInv'
    <2>1. QueInv /\ regionQue \subseteq Region BY <1>2, Facts DEF TypeInv
    <2>2. QED BY <1>1, <1>4, <1>5, <1>6, <2>1 DEF QueInv, Start
<1>10. LargeInv'
    <2>1. LargeInv /\ largeRegionQue \subseteq Region BY <1>2, Facts DEF TypeInv
    <2>2. QED BY <1>1, <1>4, <1>5, <2>1 DEF LargeInv, Clearing, Start, canFree
<1>11. EvacInv' /\ OwnerInv' /\ AllocInv'
    BY <1>1, <1>4, Facts DEF EvacInv, OwnerInv, AllocInv, At, Start
<1>12. MapInv'
    <2>1. ASSUME NEW c \in Chunk, regionMap'[c] # None PROVE regionMap'[c] = regionMap[c]
        BY <1>3, <2>1
    <2>2. QED BY <1>1, <2>1, Facts DEF MapInv, At, Start
<1>13. SpaceStep
    <2> DEFINE A == {s \in Held(Region) : region[s].evacuated}
               B == {s \in Held(largeRegionQue) : Erased(s)}
    <2>1. \A s : Start(s)' = Start(s) BY <1>1 DEF Start
    <2>2. Objects' = Objects BY <1>1, <2>1 DEF Objects, Held
    <2>3. Retired = {Start(s) : s \in A \cup B} /\ Retired' = {Start(s)' : s \in A' \cup B'} BY DEF Retired
    <2>4. A' = A BY <1>1, <2>1 DEF Held
    <2>5. B \subseteq B'
        <3>1. ASSUME NEW s \in B PROVE s \in B'
            <4>1. /\ s \in largeRegionQue /\ s \in Region /\ Start(s) # None /\ regionMap[Start(s)] # s
                BY <1>2 DEF Held, Erased, TypeInv
            <4>2. s # r BY <1>0, <1>1, <4>1
            <4>3. regionMap'[region'[s].start] # s BY <1>5, <4>1, <4>2
            <4>4. QED BY <1>1, <2>1, <4>1, <4>3 DEF Held, Erased, Start
        <3>2. QED BY <3>1
    <2>6. A' \cup B' \subseteq Region /\ \A s \in A' \cup B' : Start(s)' \in Chunk
        <3>1. A' \cup B' \subseteq Held(Region) BY <1>1, <1>2, <2>1, <2>4 DEF Held, TypeInv
        <3>2. QED BY <1>2, <2>1, <3>1, Types DEF Held
    <2> HIDE DEF A, B
    <2>7. Retired \subseteq Retired' /\ Retired' \subseteq Chunk BY <2>1, <2>3, <2>4, <2>5, <2>6
    <2>8. QED BY <2>2, <2>7 DEF SpaceStep, Space!Next, Space!Retire
<1>14. QED BY <1>7, <1>8, <1>9, <1>10, <1>11, <1>12, <1>13 DEF Inv

(* Then its memory is given back.                                          *)
LEMMA FreeLargeInv ==
    ASSUME Inv, NEW r \in Region, FreeLarge(r)
    PROVE  Inv' /\ SpaceStep
<1>1. /\ gcpc = "clearLarge" /\ r \in largeRegionQue /\ canFree(r) /\ Start(r) # None
      /\ Erased(r) /\ region' = [region EXCEPT ![r].start = None]
      /\ gcpc' = gcpc /\ cms' = cms /\ regionMap' = regionMap /\ allocating' = allocating /\ own' = own
      /\ mapMtx' = mapMtx /\ regionQue' = regionQue
      /\ largeRegionQue' = largeRegionQue /\ evacuationQue' = evacuationQue
      /\ todo' = todo /\ at' = at
    BY Unpack DEF FreeLarge
<1>2. TypeInv /\ region \in [Region -> RegionRecord] BY Facts DEF TypeInv
<1>3. /\ region' \in [Region -> RegionRecord] /\ region'[r].start = None
      /\ \A s \in Region : /\ s # r => region'[s].start = region[s].start
                           /\ region'[s].type = region[s].type
                           /\ region'[s].used = region[s].used
                           /\ region'[s].evacuated = region[s].evacuated
                           /\ region'[s].mark = region[s].mark
    BY <1>1, <1>2 DEF RegionRecord
<1>4. /\ Evac' = Evac /\ Emplacing' = Emplacing /\ AllocatingRegions' = AllocatingRegions
      /\ \A s \in Region : (s # r => Start(s)' = Start(s)) /\ canFree(s)' = canFree(s)
      /\ Start(r)' = None
    BY <1>1, <1>3 DEF Evac, Emplacing, AllocatingRegions, Start, At, canFree
<1>5. r \notin regionQue /\ r \notin Evac BY <1>1, Facts DEF QueInv
<1>6. TypeInv' BY <1>1, <1>2, <1>3 DEF TypeInv
<1>7. Calls'
    <2>1. ASSUME NEW v \in Worker PROVE Call(v)' /\ Fresh(v)' /\ Built(v)'
        <3>1. /\ Call(v) /\ Fresh(v) /\ Built(v)
              /\ at[v].new_region \in Region \cup {None} /\ at[v].region \in Region \cup {None}
            BY <1>2, Facts, Types
        <3>2. Call(v)' BY <1>1, <3>1 DEF Call, At, relocate
        <3>3. at[v].new_region # r BY <1>1, <3>1, Names DEF Fresh
        <3>4. Fresh(v)' BY <1>1, <1>3, <1>4, <3>1, <3>3 DEF Fresh, At, Start
        <3>5. Built(v)' BY <1>1, <1>3, <1>4, <3>1 DEF Built, At
        <3>6. QED BY <3>2, <3>4, <3>5
    <2>2. QED BY <2>1 DEF Calls
<1>8. QueInv' BY <1>1, <1>2, <1>3, <1>4, <1>5, Facts, Types DEF QueInv
<1>9. LargeInv' BY <1>1, <1>2, <1>3, <1>4, Facts, Types DEF LargeInv, Clearing
<1>10. EvacInv' BY <1>1, <1>2, <1>3, <1>4, <1>5, Facts, Types DEF EvacInv
<1>11. OwnerInv' BY <1>1, <1>4, Facts DEF OwnerInv
<1>12. AllocInv' BY <1>1, <1>2, <1>3, <1>4, Facts, Types DEF AllocInv, At
<1>13. MapInv'
    <2>1. ASSUME NEW c \in Chunk, regionMap[c] # None
          PROVE  region'[regionMap[c]].start = region[regionMap[c]].start
        <3>1. regionMap[c] \in Region /\ Start(regionMap[c]) = c BY <1>2, <2>1, Facts, Types DEF MapInv
        <3>2. regionMap[c] # r BY <1>1, <3>1 DEF Erased
        <3>3. QED BY <1>3, <3>1, <3>2
    <2>2. QED BY <1>1, <2>1, Facts DEF MapInv, At, Start
<1>14. SpaceStep
    <2>1. Start(r) \in Retired BY <1>1 DEF Retired, Held
    <2>2. QED BY <1>1, <1>3, <2>1, ReleaseSpace
<1>15. QED BY <1>6, <1>7, <1>8, <1>9, <1>10, <1>11, <1>12, <1>13, <1>14 DEF Inv

(* The second pass drops exactly those the first has freed.                *)
LEMMA PurgeLargeInv ==
    ASSUME Inv, PurgeLarge
    PROVE  Inv' /\ SpaceStep
<1>0. PICK S : S = largeRegionQue \ largeRegionQue' OBVIOUS
<1>1. /\ gcpc = "purgeLarge" /\ gcpc' = "idle"
      /\ largeRegionQue' = {r \in largeRegionQue : ~canFree(r)}
      /\ region' = Destroyed(S, region)
      /\ cms' = cms /\ regionMap' = regionMap /\ allocating' = allocating /\ own' = own
      /\ mapMtx' = mapMtx /\ regionQue' = regionQue /\ evacuationQue' = evacuationQue
      /\ todo' = todo /\ at' = at
    BY <1>0, Unpack DEF PurgeLarge
<1>2. TypeInv /\ region \in [Region -> RegionRecord] BY Facts DEF TypeInv
<1>3. \A s \in S : s \in largeRegionQue /\ s \in Region /\ canFree(s) /\ Start(s) = None
                   /\ ~region[s].evacuated
    BY <1>0, <1>1, <1>2, Facts, Types DEF LargeInv
<1>4. /\ region' \in [Region -> RegionRecord]
      /\ \A s \in Region \ S : region'[s] = region[s]
      /\ \A s \in S : region'[s].start = None
    BY <1>1, <1>2, <1>3 DEF Destroyed, NoMemory, RegionRecord
<1>5. /\ Evac' = Evac /\ Emplacing' = Emplacing /\ AllocatingRegions' = AllocatingRegions
      /\ \A s \in Region : Start(s)' = Start(s) /\ (s \notin S => canFree(s)' = canFree(s))
    BY <1>1, <1>3, <1>4 DEF Evac, Emplacing, AllocatingRegions, Start, At, canFree
<1>6. \A s \in S : s \notin regionQue /\ s \notin Evac BY <1>3, Facts DEF QueInv
<1>7. largeRegionQue' \subseteq largeRegionQue /\ largeRegionQue = largeRegionQue' \cup S
    BY <1>0, <1>1
<1>8. TypeInv' BY <1>1, <1>2, <1>4 DEF TypeInv
<1>9. Calls'
    <2>1. ASSUME NEW v \in Worker PROVE Call(v)' /\ Fresh(v)' /\ Built(v)'
        <3>1. /\ Call(v) /\ Fresh(v) /\ Built(v)
              /\ at[v].new_region \in Region \cup {None} /\ at[v].region \in Region \cup {None}
            BY <1>2, Facts, Types
        <3>2. Call(v)' BY <1>1, <3>1 DEF Call, At, relocate
        <3>3. at[v].new_region # None => at[v].new_region \notin S BY <1>3, <3>1 DEF Fresh
        <3>4. Fresh(v)' BY <1>1, <1>4, <1>5, <1>7, <3>1, <3>3 DEF Fresh, At, Start
        <3>5. Built(v)'
            <4>1. ASSUME NEW q \in Region, q \in largeRegionQue, region[q].mark = None
                  PROVE  q \in largeRegionQue' /\ region'[q].mark = None
                <5>1. ~canFree(q) BY <4>1 DEF canFree
                <5>2. QED BY <1>1, <1>3, <1>4, <4>1, <5>1
            <4>2. QED BY <1>1, <1>5, <3>1, <4>1 DEF Built, At
        <3>6. QED BY <3>2, <3>4, <3>5
    <2>2. QED BY <2>1 DEF Calls
<1>10. QueInv'
    <2>1. QueInv /\ regionQue \subseteq Region BY <1>2, Facts DEF TypeInv
    <2>2. QED BY <1>1, <1>4, <1>5, <1>6, <1>7, <2>1 DEF QueInv, Start
<1>11. LargeInv'
    <2>1. LargeInv /\ largeRegionQue \subseteq Region BY <1>2, Facts DEF TypeInv
    <2>2. ASSUME NEW s \in largeRegionQue'
          PROVE  /\ s \in Region /\ s \in largeRegionQue /\ s \notin S /\ ~canFree(s)
                 /\ Start(s) # None /\ regionMap[Start(s)] = s
        BY <1>0, <1>1, <2>1, <2>2 DEF LargeInv
    <2>3. QED BY <1>1, <1>4, <1>5, <2>1, <2>2 DEF LargeInv, Clearing, Start
<1>12. EvacInv'
    <2>1. Evac \subseteq Region BY <1>2, Types
    <2>2. QED BY <1>1, <1>4, <1>5, <1>6, <2>1, Facts DEF EvacInv, Start
<1>13. OwnerInv' BY <1>1, <1>3, <1>5, <1>7, Facts DEF OwnerInv
<1>14. AllocInv' BY <1>1, <1>2, <1>3, <1>4, <1>5, Facts, Types DEF AllocInv, At
<1>15. MapInv'
    <2>1. ASSUME NEW c \in Chunk, regionMap[c] # None
          PROVE  /\ region'[regionMap[c]].start = c /\ regionMap[c] \notin S
        <3>1. regionMap[c] \in Region /\ Start(regionMap[c]) = c BY <1>2, <2>1, Facts, Types DEF MapInv
        <3>2. regionMap[c] \notin S BY <1>3, <3>1, Names
        <3>3. QED BY <1>4, <3>1, <3>2 DEF Start
    <2>2. QED BY <1>1, <1>7, <2>1, Facts DEF MapInv, At, Start
<1>16. SpaceStep
    <2> DEFINE Small == UNION {{Start(s)} \X (1..region[s].used) : s \in Held(Region)}
               Large == {<<Start(s), 0>> : s \in Held(largeRegionQue)}
               A == {s \in Held(Region) : region[s].evacuated}
               B == {s \in Held(largeRegionQue) : Erased(s)}
    <2>1. /\ Held(Region)' = Held(Region) /\ Held(largeRegionQue)' = Held(largeRegionQue)
          /\ Held(Region) \subseteq Region /\ Held(largeRegionQue) \subseteq Region
        BY <1>2, <1>3, <1>5, <1>7 DEF Held, TypeInv
    <2>2. \A s \in Held(Region) : region'[s] = region[s] BY <1>3, <1>4 DEF Held
    <2>3. Small' = Small BY <1>5, <2>1, <2>2
    <2>4. Large' = Large BY <1>5, <2>1
    <2>5. Objects = Small \cup Large /\ Objects' = Small' \cup Large' BY DEF Objects
    <2>6. Objects' = Objects BY <2>3, <2>4, <2>5
    <2>7. A' = A BY <2>1, <2>2
    <2>8. \A s \in Region : Erased(s)' = Erased(s) BY <1>1, <1>5 DEF Erased
    <2>9. B' = B BY <2>1, <2>8
    <2>10. Retired = {Start(s) : s \in A \cup B} /\ Retired' = {Start(s)' : s \in A' \cup B'} BY DEF Retired
    <2>11. A \cup B \subseteq Region BY <2>1
    <2> HIDE DEF A, B
    <2>12. Retired' = Retired BY <1>5, <2>7, <2>9, <2>10, <2>11
    <2>13. QED BY <2>6, <2>12 DEF SpaceStep, Space!spaceVars
<1>17. QED BY <1>8, <1>9, <1>10, <1>11, <1>12, <1>13, <1>14, <1>15, <1>16 DEF Inv

-----------------------------------------------------------------------------
(* Nothing is allocated in the beginning.                                  *)
LEMMA InitInv ==
    ASSUME Init
    PROVE  Inv /\ Space!Init
<1>1. NoMemory \in RegionRecord /\ NoMemory.start = None BY DEF NoMemory, RegionRecord
<1>2. /\ Idle \in AtRecord /\ Idle.pc = "idle" /\ Idle.new_region = None /\ Idle.type = None
    BY DEF Idle, AtRecord, Steps
<1>3. \A r \in Region : region[r] = NoMemory /\ Start(r) = None BY <1>1 DEF Init, Start
<1>4. Evac = {} BY DEF Init, Evac, Range
<1>5. \A w \in Worker : at[w] = Idle BY DEF Init
<1>6. TypeInv
    <2>1. evacuationQue \in Seq(Region) BY DEF Init
    <2>2. cms \in {M0, M1} BY DEF Init
    <2>3. QED BY <1>1, <1>2, <2>1, <2>2 DEF Init, TypeInv
<1>7. Calls
    <2>1. ASSUME NEW v \in Worker PROVE Call(v) /\ Fresh(v) /\ Built(v)
        <3>1. mapMtx # v /\ None # "LARGE" BY Names DEF Init, RegionEnum
        <3>2. Call(v) BY <1>2, <1>5, <3>1 DEF Call, At
        <3>3. QED BY <1>2, <1>5, <3>2 DEF Fresh, Built, At
    <2>2. QED BY <2>1 DEF Calls
<1>8. QueInv /\ LargeInv BY <1>4 DEF Init, QueInv, LargeInv
<1>9. EvacInv BY <1>4 DEF Init, EvacInv
<1>10. OwnerInv /\ AllocInv BY <1>3 DEF Init, OwnerInv, AllocInv
<1>11. MapInv BY DEF Init, MapInv
<1>12. Held(Region) = {} /\ Held(largeRegionQue) = {} BY <1>3 DEF Held, Init
<1>13. Objects = {} /\ Retired = {} BY <1>12 DEF Objects, Retired
<1>14. QED BY <1>6, <1>7, <1>8, <1>9, <1>10, <1>11, <1>13 DEF Inv, Space!Init

(* Every action, and a step of nobody, keeps the invariant and maps to a   *)
(* step of ObjectSpace or to none.                                         *)
LEMMA NextInv ==
    ASSUME Inv, [Next]_vars
    PROVE  Inv' /\ SpaceStep
<1>1. ASSUME NEW t \in Thread, MakeGC(t) PROVE Inv' /\ SpaceStep BY <1>1, MakeGCInv
<1>2. ASSUME NEW w \in Worker, RelocateObject(w) PROVE Inv' /\ SpaceStep BY <1>2, RelocateObjectInv
<1>3. ASSUME NEW w \in Worker, allocate_from_region(w) PROVE Inv' /\ SpaceStep
    <2>1. CASE Try(w) BY <2>1, TryInv
    <2>2. CASE NewRegion(w) BY <2>2, NewRegionInv
    <2>3. CASE Exhausted(w) BY <2>3, ExhaustedInv
    <2>4. CASE Publish(w) BY <2>4, PublishFirstInv, DiscardInv
    <2>5. CASE Emplace(w) BY <2>5, EmplaceLargeInv, EmplaceOtherInv
    <2>6. CASE PushLarge(w) BY <2>6, PushLargeInv
    <2>7. CASE is_root(w) BY <2>7, IsRootInv
    <2>8. QED BY <1>3, <2>1, <2>2, <2>3, <2>4, <2>5, <2>6, <2>7 DEF allocate_from_region
<1>4. CASE SwitchMarkState BY <1>4, SwitchMarkStateInv
<1>5. CASE Select BY <1>5, SelectInv
<1>6. CASE triggerRelocation
    <2>1. CASE TasksComplete BY <2>1, TasksCompleteInv
    <2>2. ASSUME NEW g \in GCThread, RegionDone(g) PROVE Inv' /\ SpaceStep BY <2>2, RegionDoneInv
    <2>3. ASSUME NEW g \in GCThread, FreeRegion(g) PROVE Inv' /\ SpaceStep BY <2>3, FreeRegionInv
    <2>4. QED BY <1>6, <2>1, <2>2, <2>3 DEF triggerRelocation
<1>7. CASE clearFreeRegion
    <2>1. CASE PassDone BY <2>1, PassDoneInv
    <2>2. CASE PurgeLarge BY <2>2, PurgeLargeInv
    <2>3. ASSUME NEW r \in Region, EraseLarge(r) PROVE Inv' /\ SpaceStep BY <2>3, EraseLargeInv
    <2>4. ASSUME NEW r \in Region, FreeLarge(r) PROVE Inv' /\ SpaceStep BY <2>4, FreeLargeInv
    <2>5. QED BY <1>7, <2>1, <2>2, <2>3, <2>4 DEF clearFreeRegion
<1>8. ASSUME NEW r \in Region, Mark(r) PROVE Inv' /\ SpaceStep BY <1>8, MarkInv
<1>9. CASE UNCHANGED vars BY <1>9, StutterInv
<1>10. QED BY <1>1, <1>2, <1>3, <1>4, <1>5, <1>6, <1>7, <1>8, <1>9 DEF Next

(* The inductive invariant of allocation, selection, release and clearing. *)
THEOREM Invariant == Spec => []Inv
<1>1. Init => Inv BY InitInv
<1>2. Inv /\ [Next]_vars => Inv' BY NextInv
<1>3. QED BY <1>1, <1>2, PTL DEF Spec

(* A region that a GCPtr is built in is in the map when its mutex is free, *)
(* and begins last before the object.                                      *)
LEMMA InsideNeverRootOfInv ==
    ASSUME Inv
    PROVE  InsideNeverRoot
<1> SUFFICES ASSUME NEW w \in Worker, Asks(w)
             PROVE  Answer(w) = at[w].region
    BY DEF InsideNeverRoot
<1>1. PICK r : r = at[w].region OBVIOUS
<1>2. /\ At(w, "query") /\ mapMtx = None /\ Built(w) BY Facts DEF Asks
<1>3. Emplacing = {}
    <2>1. \A v \in Worker : ~(At(v, "emplace") /\ at[v].type \in Shared)
        BY <1>2, Facts, Names DEF Call
    <2>2. QED BY <2>1 DEF Emplacing
<1>4. r \in regionQue \cup largeRegionQue /\ r \in Region
    BY <1>1, <1>2, <1>3, Facts, Types DEF Built
<1>5. PICK a : a = Start(r) OBVIOUS
<1>6. a # None /\ regionMap[a] = r
    <2>1. CASE r \in regionQue BY <1>5, <2>1, Facts DEF QueInv
    <2>2. CASE r \in largeRegionQue /\ r \notin regionQue
        <3>1. region[r].mark \in {None, cms} BY <1>1, <1>2, <1>3, <2>2 DEF Built
        <3>2. ~canFree(r) BY <3>1 DEF canFree
        <3>3. QED BY <1>5, <2>2, <3>2, Facts DEF LargeInv
    <2>3. QED BY <1>4, <2>1, <2>2
<1>7. a \in Chunk /\ r # None /\ Chunk \subseteq Nat /\ a \in Nat
    BY <1>4, <1>5, <1>6, Facts, Types, Names, NumberAssumption
<1> DEFINE before == {b \in Chunk : b <= a /\ regionMap[b] # None}
<1>8. a \in before /\ before \subseteq Nat /\ \A b \in before : b <= a
    <2>1. a <= a BY <1>7
    <2>2. a \in before BY <1>6, <1>7, <2>1
    <2>3. before \subseteq Nat BY <1>7
    <2>4. QED BY <2>2, <2>3
<1>9. Max(before) = a
    <2> HIDE DEF before
    <2>1. \A x \in before : (\A y \in before : x >= y) => x = a BY <1>7, <1>8
    <2>2. \A y \in before : a >= y BY <1>7, <1>8
    <2>3. QED BY <1>8, <2>1, <2>2 DEF Max
<1>10. queryRegionMap(a) = IF before = {} THEN None ELSE regionMap[Max(before)]
    BY DEF queryRegionMap
<1>11. Answer(w) = queryRegionMap(a) BY <1>1, <1>5 DEF Answer
<1> HIDE DEF before
<1>12. QED BY <1>1, <1>6, <1>8, <1>9, <1>10, <1>11

(* A region with memory is in one thread or one queue: the invariant keeps *)
(* them apart, one at a time.                                              *)
LEMMA RegionsAccountedOfInv ==
    ASSUME Inv
    PROVE  RegionsAccounted
<1>1. ASSUME NEW r \in Region, Start(r) # None
      PROVE  Cardinality({w \in Worker : at[w].new_region = r})
                + Cardinality({q \in {1, 2, 3} :
                                r \in <<regionQue, largeRegionQue, Range(evacuationQue)>>[q]}) = 1
    <2> DEFINE W == {w \in Worker : at[w].new_region = r}
               Q == {q \in {1, 2, 3} : r \in <<regionQue, largeRegionQue, Range(evacuationQue)>>[q]}
    <2>1. r # None /\ (r \in regionQue \cup largeRegionQue \cup Evac \/ W # {})
        BY <1>1, Facts, Names DEF OwnerInv
    <2>2. \A w \in W : W = {w} /\ r \notin regionQue \cup largeRegionQue \cup Evac
        <3>1. ASSUME NEW w \in W PROVE W = {w} /\ r \notin regionQue \cup largeRegionQue \cup Evac
            BY <2>1, Facts DEF Fresh
        <3>2. QED BY <3>1
    <2>3. /\ 1 \in Q <=> r \in regionQue
          /\ 2 \in Q <=> r \in largeRegionQue
          /\ 3 \in Q <=> r \in Evac
          /\ Q \subseteq {1, 2, 3}
        BY DEF Evac
    <2>4. /\ regionQue \cap largeRegionQue = {} /\ Evac \cap (regionQue \cup largeRegionQue) = {}
        BY Facts DEF QueInv
    <2> HIDE DEF W, Q
    <2>5. Cardinality({}) = 0 /\ \A x : Cardinality({x}) = 1 BY FS_EmptySet, FS_Singleton
    <2>6. CASE W # {}
        <3>1. PICK w \in W : W = {w} /\ Q = {} BY <2>2, <2>3, <2>6
        <3>2. Cardinality(W) = 1 /\ Cardinality(Q) = 0 BY <2>5, <3>1
        <3>3. QED BY <3>2 DEF W, Q
    <2>7. CASE W = {}
        <3>1. Q = {1} \/ Q = {2} \/ Q = {3} BY <2>1, <2>3, <2>4, <2>7
        <3>2. Cardinality(W) = 0 /\ Cardinality(Q) = 1 BY <2>5, <2>7, <3>1
        <3>3. QED BY <3>2 DEF W, Q
    <2>8. QED BY <2>6, <2>7
<1>2. \A r \in Region : Start(r) # None => \A s \in Region \ {r} : Start(s) # Start(r)
    BY Facts DEF OwnerInv
<1>3. \A r \in regionQue : Start(r) # None BY Facts DEF QueInv
<1>4. \A r \in largeRegionQue : Start(r) = None => Sweeping /\ canFree(r)
    BY Facts DEF LargeInv, Sweeping, Clearing
<1>5. QED BY <1>1, <1>2, <1>3, <1>4 DEF RegionsAccounted

(* The map, from the parts of the invariant about queues and calls.        *)
LEMMA MapIsExactOfInv ==
    ASSUME Inv
    PROVE  MapIsExact
<1>1. ASSUME NEW a \in Chunk, regionMap[a] # None
      PROVE  Start(regionMap[a]) = a /\ ~region[regionMap[a]].evacuated
    BY <1>1, Facts DEF MapInv, QueInv, LargeInv, Fresh
<1>2. \A r \in regionQue : regionMap[Start(r)] = r BY Facts DEF QueInv
<1>3. \A r \in largeRegionQue : (canFree(r) /\ Sweeping) \/ regionMap[Start(r)] = r
    BY Facts DEF LargeInv, Sweeping, Clearing
<1>4. QED BY <1>1, <1>2, <1>3 DEF MapIsExact

(* A GCPtr built in an object is never taken for a root: its region is in  *)
(* the map whenever queryRegionMap is asked, although a shared region is   *)
(* published before.                                                       *)
THEOREM InsideIsNeverARoot == Spec => []InsideNeverRoot
BY Invariant, InsideNeverRootOfInv, PTL

(* Every region that has memory is in the hands of one thread or in one    *)
(* queue, with memory of its own: none is lost by a race of the allocating *)
(* threads or by the division of a queue into shares, none is freed twice. *)
THEOREM EveryRegionAccounted == Spec => []RegionsAccounted
BY Invariant, RegionsAccountedOfInv, PTL

(* The map of regions leads to no region that is evacuated or released,    *)
(* and to every region that is in a queue and stays.                       *)
THEOREM TheMapIsExact == Spec => []MapIsExact
BY Invariant, MapIsExactOfInv, PTL

(* The allocator implements ObjectSpace: no address is handed out twice,   *)
(* nor in a region that is being evacuated or cleared.                     *)
THEOREM AllocatorImplementsObjectSpace == Spec => ImplementsObjectSpace
<1>1. Init => Space!Init BY InitInv
<1>2. Inv /\ [Next]_vars => [Space!Next]_(Space!spaceVars) BY NextInv DEF SpaceStep
<1>3. QED BY <1>1, <1>2, Invariant, PTL DEF Spec, ImplementsObjectSpace, Space!Spec
=============================================================================
