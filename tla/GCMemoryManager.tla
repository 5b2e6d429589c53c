--------------------------- MODULE GCMemoryManager ---------------------------
(***************************************************************************)
(* GCMemoryManager, the secondary memory pools, and the way                *)
(* GCMemoryAllocator uses them: a thread asks the pool its identifier      *)
(* hashes to, then the others, then the operating system; it frees into    *)
(* its own pool, wherever the block came from.  A pool is a list of free   *)
(* blocks in the order of their addresses, neighbours merged.  Each        *)
(* operation of a pool holds the pool's mutex and is one step.             *)
(*                                                                         *)
(* A definition name_change is a faulty variant of name that no            *)
(* specification here uses.                                                *)
(***************************************************************************)
EXTENDS Integers, Sequences, FiniteSets, SequencesExt, FiniteSetsExt

CONSTANTS
    Thread,
    poolCount,
    PoolIdx,                \* [Thread -> Pool]: getPoolIdx
    MemorySize,
    Size,                   \* of regions and bitmaps
    secondaryMallocSize,
    recordNewMemMap         \* freeReservedMemory may give memory back

Pool == 0 .. poolCount - 1
Memory == 0 .. MemorySize - 1

ASSUME ManagerAssumption ==
    /\ poolCount \in Nat \ {0} /\ PoolIdx \in [Thread -> Pool]
    /\ MemorySize \in Nat /\ Size \subseteq Nat \ {0} /\ secondaryMallocSize \in Nat \ {0}
    /\ recordNewMemMap \in BOOLEAN

VARIABLES
    freeList,       \* of each pool
    new_mem_map,    \* of each pool: the chunks malloc gave it, when recorded
    malloced,       \* the chunks malloc has given and not got back
    held,           \* the blocks the regions and bitmaps have
    pc,             \* of each thread in allocate_from_freelist
    request         \* the size it asks for, the pool it is at, its new chunk

vars == <<freeList, new_mem_map, malloced, held, pc, request>>

MemoryBlock == [address : Memory, size : 1 .. MemorySize]
Block(a, s) == [address |-> a, size |-> s]
End(b) == b.address + b.size                \* getEndAddress
Bytes(b) == b.address .. End(b) - 1
BytesOf(S) == UNION {Bytes(b) : b \in S}
Elements(s) == {s[i] : i \in DOMAIN s}

-----------------------------------------------------------------------------
(* allocate: the first block that is large enough gives its head. *)
Fitting(list, size) == {i \in DOMAIN list : list[i].size >= size}
allocate(list, size) ==
    LET i == Min(Fitting(list, size))
    IN  IF list[i].size > size
        THEN ReplaceAt(list, i, Block(list[i].address + size, list[i].size - size))
        ELSE RemoveAt(list, i)

(* The places in the list where a block fits between two others. *)
Gaps(list, b) ==
    {i \in 1 .. Len(list) - 1 : b.address >= End(list[i]) /\ End(b) <= list[i + 1].address}

InGap_mergesOne(list, i, b) ==
    LET prev == list[i]
        next == list[i + 1]
    IN  IF End(b) = next.address THEN ReplaceAt(list, i + 1, Block(b.address, b.size + next.size))
        ELSE IF b.address = End(prev) THEN ReplaceAt(list, i, Block(prev.address, prev.size + b.size))
        ELSE InsertAt(list, i + 1, b)
(* b goes between blocks i and i + 1, merged with those it meets. *)
InGap(list, i, b) ==
    LET prev == list[i]
        next == list[i + 1]
        meetsPrev == b.address = End(prev)
        meetsNext == End(b) = next.address
    IN  CASE meetsPrev /\ meetsNext ->
               RemoveAt(ReplaceAt(list, i + 1, Block(prev.address, prev.size + b.size + next.size)), i)
          [] meetsPrev /\ ~meetsNext -> ReplaceAt(list, i, Block(prev.address, prev.size + b.size))
          [] ~meetsPrev /\ meetsNext -> ReplaceAt(list, i + 1, Block(b.address, b.size + next.size))
          [] OTHER -> InsertAt(list, i + 1, b)

(* free: at the front, at the back or in a gap. *)
free(list, b) ==
    IF list = <<>> THEN <<b>>
    ELSE IF End(b) <= Head(list).address
    THEN IF End(b) = Head(list).address
         THEN ReplaceAt(list, 1, Block(b.address, b.size + Head(list).size))
         ELSE Cons(b, list)
    ELSE IF b.address >= End(Last(list))
    THEN IF b.address = End(Last(list))
         THEN ReplaceAt(list, Len(list), Block(Last(list).address, Last(list).size + b.size))
         ELSE Append(list, b)
    ELSE IF Gaps(list, b) = {} THEN list        \* a warning
    ELSE InGap(list, Min(Gaps(list, b)), b)

(* return_reserved, one block of the list: the first chunk that starts in  *)
(* or after it goes back to the operating system when the block covers it, *)
(* and what is left of the block stays.                                    *)
Stretch(from, to) == IF from < to THEN <<Block(from, to - from)>> ELSE <<>>
Pieces(b, c) == Stretch(b.address, c.address) \o Stretch(End(c), End(b))
lower_bound(map, a) ==
    LET later == {c.address : c \in {d \in map : d.address >= a}}
    IN  {c \in map : later # {} /\ c.address = Min(later)}
(* Gives back the chunk a block starts in, used or not. *)
ReturnFrom_startsInside(acc, b) ==
    LET covered == lower_bound(acc.map, b.address)
    IN  IF covered = {} THEN [acc EXCEPT !.list = Append(@, b)]
        ELSE LET c == CHOOSE c \in covered : TRUE
             IN  [list |-> acc.list \o Pieces(b, c), map |-> acc.map \ {c}]
ReturnFrom(acc, b) ==
    LET covered == {c \in lower_bound(acc.map, b.address) : End(c) <= End(b)}
    IN  IF covered = {} THEN [acc EXCEPT !.list = Append(@, b)]
        ELSE LET c == CHOOSE c \in covered : TRUE
             IN  [list |-> acc.list \o Pieces(b, c), map |-> acc.map \ {c}]

-----------------------------------------------------------------------------
At(t, s) == pc[t] = s
Goto(t, s) == pc' = [pc EXCEPT ![t] = s]

NoBlock == Block(0, 0)
NoRequest == [size |-> 0, pool |-> 0, chunk |-> NoBlock]

(* Pool i gives t its block, under the mutex of the pool. *)
Allocates(t, i) ==
    LET size == request[t].size
        first == freeList[i][Min(Fitting(freeList[i], size))]
    IN  /\ Fitting(freeList[i], size) # {}
        /\ freeList' = [freeList EXCEPT ![i] = allocate(@, size)]
        /\ held' = held \cup {Block(first.address, size)}
        /\ Goto(t, "idle")
        /\ request' = [request EXCEPT ![t] = NoRequest]
        /\ UNCHANGED <<new_mem_map, malloced>>
Fails(t, i, next, pool) ==
    /\ Fitting(freeList[i], request[t].size) = {}
    /\ Goto(t, next)
    /\ request' = [request EXCEPT ![t].pool = pool]
    /\ UNCHANGED <<freeList, new_mem_map, malloced, held>>

allocate_from_freelist(t, size) ==
    /\ At(t, "idle") /\ Goto(t, "own")
    /\ request' = [request EXCEPT ![t].size = size]
    /\ UNCHANGED <<freeList, new_mem_map, malloced, held>>
OwnPool(t) == At(t, "own") /\ (Allocates(t, PoolIdx[t]) \/ Fails(t, PoolIdx[t], "steal", 0))
Steal(t) ==
    LET i == request[t].pool
    IN  /\ At(t, "steal")
        /\ \/ Allocates(t, i)
           \/ i + 1 < poolCount /\ Fails(t, i, "steal", i + 1)
           \/ i + 1 = poolCount /\ Fails(t, i, "malloc", 0)

(* malloc gives bytes it has not given; without them it fails, and the     *)
(* caller tries again for ever.                                            *)
Chunks(size) == {b \in [address : Memory, size : {size}] :
    End(b) <= MemorySize /\ Bytes(b) \cap BytesOf(malloced) = {}}
add_memory(t) ==
    /\ At(t, "malloc") /\ Goto(t, "add")
    /\ \E b \in Chunks(Max({request[t].size, secondaryMallocSize})) :
          malloced' = malloced \cup {b} /\ request' = [request EXCEPT ![t].chunk = b]
    /\ UNCHANGED <<freeList, new_mem_map, held>>
mallocFails(t) ==
    /\ At(t, "malloc") /\ Goto(t, "again")
    /\ UNCHANGED <<freeList, new_mem_map, malloced, held, request>>
Record(i, b) ==
    new_mem_map' = IF recordNewMemMap THEN [new_mem_map EXCEPT ![i] = @ \cup {b}] ELSE new_mem_map
AddFree(t) ==
    /\ At(t, "add") /\ Goto(t, "again")
    /\ Record(PoolIdx[t], request[t].chunk)
    /\ freeList' = [freeList EXCEPT ![PoolIdx[t]] = free(@, request[t].chunk)]
    /\ request' = [request EXCEPT ![t].chunk = NoBlock]
    /\ UNCHANGED <<malloced, held>>
Again(t) == At(t, "again") /\ (Allocates(t, PoolIdx[t]) \/ Fails(t, PoolIdx[t], "malloc", 0))

(* A region is freed by whichever thread finds it empty. *)
freeBlock(t, b) ==
    /\ At(t, "idle") /\ b \in held
    /\ held' = held \ {b}
    /\ freeList' = [freeList EXCEPT ![PoolIdx[t]] = free(@, b)]
    /\ UNCHANGED <<new_mem_map, malloced, pc, request>>

return_reserved(i) ==
    LET acc == FoldLeft(ReturnFrom, [list |-> <<>>, map |-> new_mem_map[i]], freeList[i])
    IN  /\ recordNewMemMap
        /\ freeList' = [freeList EXCEPT ![i] = acc.list]
        /\ new_mem_map' = [new_mem_map EXCEPT ![i] = acc.map]
        /\ malloced' = malloced \ (new_mem_map[i] \ acc.map)
        /\ UNCHANGED <<held, pc, request>>

(* The constructor of GCMemoryAllocator gives each pool a first chunk. *)
FirstChunks == {f \in [Pool -> {b \in [address : Memory, size : {secondaryMallocSize}] : End(b) <= MemorySize}] :
    \A i, j \in Pool : i # j => Bytes(f[i]) \cap Bytes(f[j]) = {}}
Init ==
    /\ \E f \in FirstChunks :
          /\ freeList = [i \in Pool |-> <<f[i]>>]
          /\ new_mem_map = [i \in Pool |-> IF recordNewMemMap THEN {f[i]} ELSE {}]
          /\ malloced = {f[i] : i \in Pool}
    /\ held = {}
    /\ pc = [t \in Thread |-> "idle"]
    /\ request = [t \in Thread |-> NoRequest]

Allocating(t) ==
    \/ \E s \in Size : allocate_from_freelist(t, s)
    \/ OwnPool(t) \/ Steal(t) \/ add_memory(t) \/ mallocFails(t) \/ AddFree(t) \/ Again(t)
Next ==
    \/ \E t \in Thread : Allocating(t) \/ \E b \in held : freeBlock(t, b)
    \/ \E i \in Pool : return_reserved(i)

Spec == Init /\ [][Next]_vars

-----------------------------------------------------------------------------
(* The lists of GCMemoryManager are lists of blocks with something in      *)
(* them, and a thread is always at a step of allocate_from_freelist.       *)
TypeOK ==
    /\ \A i \in Pool : Elements(freeList[i]) \subseteq MemoryBlock /\ new_mem_map[i] \subseteq MemoryBlock
    /\ malloced \subseteq MemoryBlock /\ held \subseteq MemoryBlock
    /\ pc \in [Thread -> {"idle", "own", "steal", "malloc", "add", "again"}]
    /\ request \in [Thread -> [size : Size \cup {0}, pool : Pool, chunk : MemoryBlock \cup {NoBlock}]]

(* Each list of free blocks is in the order of the addresses, on which     *)
(* GCMemoryManager::free relies, and no two of its blocks touch: memory    *)
(* freed in pieces can be allocated whole again.                           *)
ListsInOrder ==
    \A i \in Pool : \A k \in 1 .. Len(freeList[i]) - 1 :
        End(freeList[i][k]) < freeList[i][k + 1].address

(* The pools are one heap.  Whatever pool memory is allocated from, stolen *)
(* from or freed into, a byte malloc gave is in one place: a list, a block *)
(* of one owner, or the chunk being added.  Nothing is lost or shared, and *)
(* what goes back to the operating system is in a list when it goes.       *)
Adding == {t \in Thread : pc[t] = "add"}
Pending == {request[t].chunk : t \in Adding}
Heap == INSTANCE ByteHeap WITH
    system <- BytesOf(malloced),
    reserve <- (UNION {BytesOf(Elements(freeList[i])) : i \in Pool}) \cup BytesOf(Pending)
ImplementsHeap == Heap!Spec
=============================================================================
