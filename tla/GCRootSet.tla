------------------------------ MODULE GCRootSet ------------------------------
(***************************************************************************)
(* GCRootSet: the roots in an array of blocks, each root holding its own   *)
(* offset, a removal moving the last root into the hole.  GCWorker adds    *)
(* and removes under gcRootsetMtx and scans under it too, with one thread  *)
(* or with a range of the array for each GC thread; the snapshot it takes  *)
(* is marked after the mutex is free, by GC threads that share it out.     *)
(*                                                                         *)
(* A definition name_change is a faulty variant of name that no            *)
(* specification here uses.                                                *)
(***************************************************************************)
EXTENDS Integers, Sequences, FiniteSets, Bags

CONSTANTS
    Ptr,                            \* addresses a root GCPtr may have
    Unset,                          \* what malloc leaves in a cell
    SINGLE_BLOCK_SIZE,
    gcThreadCount,                  \* 0 without enableParallelGC
    ROOT_SET_PARALLEL_THRESHOLD

ASSUME RootSetAssumption ==
    /\ IsFiniteSet(Ptr) /\ Unset \notin Ptr
    /\ SINGLE_BLOCK_SIZE \in Nat \ {0, 1}     \* offset 0 is never used
    /\ gcThreadCount \in Nat
    /\ ROOT_SET_PARALLEL_THRESHOLD \in Nat

VARIABLES
    address_arr,        \* the blocks
    p_tail,
    rootset_offset,     \* in every GCPtr, and left there when it is destroyed
    live,               \* the root GCPtrs that exist
    thrown,             \* remove has thrown
    step,               \* of beginMark: "scan" is the time the mutex is held
    iterator,           \* of each thread that scans
    visited,            \* a bag: the cells the scan has read
    snapshot,           \* root_object_snapshot (GC) and root_object_snapshots[i]
    share,              \* which part of which snapshot each thread marks
    marked              \* a bag: the roots marked from the snapshot

setVars == <<address_arr, p_tail, rootset_offset, live, thrown>>
scanVars == <<step, iterator, visited, snapshot, share, marked>>
vars == <<setVars, scanVars>>

GC == -1                            \* the GC thread itself
Pool == 0 .. gcThreadCount - 1
enableParallelGC == gcThreadCount > 0

Block == [0 .. SINGLE_BLOCK_SIZE - 1 -> Ptr \cup {Unset}]
BlockIdx(p) == (p \div SINGLE_BLOCK_SIZE) + 1
Offset(p) == p % SINGLE_BLOCK_SIZE
Cell(p) == address_arr[BlockIdx(p)][Offset(p)]

addBlock == Append(address_arr, [o \in 0 .. SINGLE_BLOCK_SIZE - 1 |-> Unset])

(* A GCPtr that is a root is constructed; it waits for the mutex. *)
add(from) ==
    /\ step # "scan" /\ ~thrown /\ from \notin live
    /\ LET arr == IF BlockIdx(p_tail) > Len(address_arr) THEN addBlock ELSE address_arr
       IN  address_arr' = [arr EXCEPT ![BlockIdx(p_tail)][Offset(p_tail)] = from]
    /\ rootset_offset' = [rootset_offset EXCEPT ![from] = p_tail]
    /\ p_tail' = p_tail + 1
    /\ live' = live \cup {from}
    /\ UNCHANGED <<thrown, scanVars>>

Removable(from) ==
    LET p == rootset_offset[from] IN p # 0 /\ p < p_tail /\ Cell(p) = from

Unlink_keepsOffset(from) ==
    /\ address_arr' = [address_arr EXCEPT
           ![BlockIdx(rootset_offset[from])][Offset(rootset_offset[from])] = Cell(p_tail - 1)]
    /\ p_tail' = p_tail - 1
    /\ live' = live \ {from}
    /\ UNCHANGED <<rootset_offset, thrown>>
(* The last root takes its cell and its offset. *)
Unlink(from) ==
    /\ LET p == rootset_offset[from]
           c_tail == Cell(p_tail - 1)
       IN  /\ address_arr' = [address_arr EXCEPT ![BlockIdx(p)][Offset(p)] = c_tail]
           /\ rootset_offset' = [rootset_offset EXCEPT ![c_tail] = p]
    /\ p_tail' = p_tail - 1
    /\ live' = live \ {from}
    /\ UNCHANGED thrown
(* It is destroyed. *)
remove(from) ==
    /\ step # "scan" /\ ~thrown /\ from \in live
    /\ IF Removable(from) THEN Unlink(from)
       ELSE thrown' = TRUE /\ UNCHANGED <<address_arr, p_tail, rootset_offset, live>>
    /\ UNCHANGED scanVars

getSize == p_tail - 1

(* RootSetIterator is a range iterator over everything. *)
getIterator == [p |-> 0, p_start |-> 1, p_tail |-> p_tail]
getIterators_shortRanges ==
    LET rangeLength == (getSize + gcThreadCount - 1) \div gcThreadCount
    IN  [i \in Pool |-> [p |-> 0, p_start |-> i * rangeLength + 1,
           p_tail |-> IF i = gcThreadCount - 1 THEN p_tail ELSE (i + 1) * rangeLength]]
getIterators ==
    LET rangeLength == (getSize + gcThreadCount - 1) \div gcThreadCount
    IN  [i \in Pool |-> [p |-> 0, p_start |-> i * rangeLength + 1,
           p_tail |-> IF i = gcThreadCount - 1 THEN p_tail ELSE (i + 1) * rangeLength + 1]]

NothingTaken == [t \in Pool \cup {GC} |-> <<>>]

beginMark_keepsSnapshots ==
    /\ step = "idle"
    /\ step' = "scan"
    /\ iterator' = IF enableParallelGC /\ getSize >= ROOT_SET_PARALLEL_THRESHOLD
                   THEN getIterators ELSE [t \in {GC} |-> getIterator]
    /\ visited' = EmptyBag /\ marked' = EmptyBag
    /\ UNCHANGED <<snapshot, share, setVars>>
(* beginMark up to the scan. *)
beginMark ==
    /\ step = "idle"
    /\ step' = "scan"
    /\ snapshot' = NothingTaken
    /\ iterator' = IF enableParallelGC /\ getSize >= ROOT_SET_PARALLEL_THRESHOLD
                   THEN getIterators ELSE [t \in {GC} |-> getIterator]
    /\ visited' = EmptyBag /\ marked' = EmptyBag
    /\ UNCHANGED <<share, setVars>>

Advance(it) == IF it.p = 0 THEN it.p_start ELSE it.p + 1
Within(it, p) == p < it.p_tail /\ p < p_tail
HasNext(it) == Within(it, Advance(it))

(* MoveNext, current and mark_root: the root is taken, or passed over as   *)
(* null or marked before.                                                  *)
mark_root(t) ==
    LET it == iterator[t]
        p == Advance(it)
    IN  /\ step = "scan" /\ HasNext(it)
        /\ iterator' = [iterator EXCEPT ![t].p = p]
        /\ visited' = visited (+) SetToBag({Cell(p)})
        /\ \/ snapshot' = [snapshot EXCEPT ![t] = Append(@, Cell(p))]
           \/ UNCHANGED snapshot
        /\ UNCHANGED <<step, share, marked, setVars>>

(* [from, to): the elements of a snapshot one thread marks. *)
Whole(t) == [of |-> t, from |-> 0, to |-> Len(snapshot[t])]
getParallelIndex(tid) ==
    LET size == Len(snapshot[GC])
        snum == size \div gcThreadCount
    IN  [of |-> GC, from |-> tid * snum,
         to |-> IF tid = gcThreadCount - 1 THEN size ELSE (tid + 1) * snum]
parallel_markroot == DOMAIN iterator # {GC}

(* waitForTaskComplete; the mutex is freed and the snapshot shared out. *)
shareOut ==
    /\ step = "scan" /\ \A t \in DOMAIN iterator : ~HasNext(iterator[t])
    /\ step' = "mark"
    /\ share' = IF ~enableParallelGC THEN [t \in {GC} |-> Whole(t)]
                ELSE IF parallel_markroot THEN [i \in Pool |-> Whole(i)]
                ELSE [i \in Pool |-> getParallelIndex(i)]
    /\ UNCHANGED <<iterator, visited, snapshot, marked, setVars>>

(* mark_v2 from one element; what it reaches is GCMark's. *)
mark_v2(t) ==
    LET s == share[t]
    IN  /\ step = "mark" /\ s.from < s.to
        /\ marked' = marked (+) SetToBag({snapshot[s.of][s.from + 1]})
        /\ share' = [share EXCEPT ![t].from = @ + 1]
        /\ UNCHANGED <<step, iterator, visited, snapshot, setVars>>

AllMarked == step = "mark" /\ \A t \in DOMAIN share : share[t].from = share[t].to
(* The rest of the cycle, which does not touch the roots, to endGC. *)
endGC ==
    /\ AllMarked
    /\ step' = "idle"
    /\ snapshot' = [snapshot EXCEPT ![GC] = <<>>]
    /\ UNCHANGED <<iterator, visited, share, marked, setVars>>

Init ==
    /\ address_arr = <<>> /\ p_tail = 1 /\ live = {} /\ thrown = FALSE
    /\ rootset_offset = [p \in Ptr |-> 0]
    /\ step = "idle" /\ snapshot = NothingTaken
    /\ iterator = [t \in {GC} |-> getIterator]
    /\ share = [t \in {GC} |-> Whole(t)]
    /\ visited = EmptyBag /\ marked = EmptyBag

UserStep(p) == add(p) \/ remove(p)
ScanStep ==
    \/ beginMark \/ shareOut \/ endGC
    \/ \E t \in DOMAIN iterator : mark_root(t)
    \/ \E t \in DOMAIN share : mark_v2(t)
Next == ScanStep \/ \E p \in Ptr : UserStep(p)

Spec == Init /\ [][Next]_vars

-----------------------------------------------------------------------------
(* The array, the tail and the offsets of GCRootSet keep to their types,   *)
(* and the cell below the tail is always in a block that exists.           *)
TypeOK ==
    /\ address_arr \in Seq(Block)
    /\ p_tail \in Nat \ {0}
    /\ p_tail > 1 => BlockIdx(p_tail - 1) <= Len(address_arr)
    /\ rootset_offset \in [Ptr -> Nat]
    /\ live \subseteq Ptr /\ thrown \in BOOLEAN
    /\ step \in {"idle", "scan", "mark"}

(* Every root is in the cell its offset names, and every cell below the    *)
(* tail holds a root that names it: a removal finds its root, the tail     *)
(* moved into a hole can be removed later, and no destroyed GCPtr is left  *)
(* for the marker to follow.                                               *)
OffsetsAgree ==
    /\ \A p \in live : rootset_offset[p] \in 1 .. p_tail - 1 /\ Cell(rootset_offset[p]) = p
    /\ \A i \in 1 .. p_tail - 1 : Cell(i) \in live /\ rootset_offset[Cell(i)] = i

(* remove, which a destructor calls, never throws. *)
NeverThrows == ~thrown

(* Whatever the number of roots, of GC threads and of ranges, a scan reads *)
(* each root once and no cell outside: the registry the marker expects.    *)
Registry == INSTANCE RootRegistry
    WITH roots <- live, handed <- IF step = "scan" THEN EmptyBag ELSE visited
ImplementsRegistry == Registry!Spec

(* When the marking of the snapshot ends, each root the scan took in this  *)
(* cycle has been marked once: nothing missed at the edge of a share, and  *)
(* nothing left from an earlier cycle, whose roots may be gone.            *)
Taken == UNION {{snapshot[t][i] : i \in DOMAIN snapshot[t]} : t \in DOMAIN snapshot}
MarkedOnce ==
    AllMarked => /\ marked = SetToBag(Taken)
                 /\ Taken \subseteq BagToSet(visited)
=============================================================================
