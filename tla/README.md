# A verification of CppGCPtr

CppGCPtr is a concurrent, mostly parallel, moving garbage collector for C++
in the form of a smart pointer, `GCPtr<T>`. This directory holds TLA+ models of
it, the TLC instances that check them and the proofs TLAPS checks. Every
definition is a translation of the source; `PROJECT.json` names the lines each
one stands for.

A definition `name_change` is a faulty variant of `name`: a mistake one could
make in that code. No specification uses it. Put in the place of `name` it must
break the property `PROJECT.json` lists it under, which is how we know that the
property says something.

## 1. The system

| Component | State it keeps | Operations | What makes it correct |
|---|---|---|---|
| GC phase (`GCPhase`, `PhaseEnum`) | the phase, the mark state of the cycle (M0 and M1 alternate), the stop-the-world lock | `SwitchToNextPhase`, `needSweep`, `needSelfHeal`, `isLiveObject`, critical sections | a state of one cycle never means something else in the next |
| `GCPtr`, `GCPtrBase` | object, size, region, inline mark state, whether it is a root | construct, copy, convert, assign, null, destroy, `make_gc`, dereference, self-heal | the deletion barrier; a GCPtr never refers to memory that was freed or moved |
| `PtrGuard` | a use count in the region | construct, destroy | what it guards stays in place |
| GC worker (`GCWorker`) | the GC thread, the snapshot of the roots, the SATB queues | the cycle: start, mark, remark, select, sweep, end; trigger; destruction | nothing reachable is lost, garbage goes, no trigger is lost |
| Region (`GCRegion`) | a bump offset, `evacuated`, the forwarding table, use count, live size, destructors | allocate, withdraw, mark, sweep, evacuate, relocate, free | one new address per object, for all threads |
| Mark bitmap (`GCBitMap`), regional hash map | a mark state and a size per object | mark, read, iterate | a mark is never half read, an entry never runs into the next |
| Memory allocator (`GCMemoryAllocator`) | queues of regions by size, the allocating regions, the region map | allocate, select, clear, evacuate | a region is in one place, and found by address |
| Memory manager (`GCMemoryManager`) | a list of free blocks per pool | allocate, free, add, return | no byte lost, shared or given back in use |
| Root set (`GCRootSet`) | an array in blocks, each root's offset | add, remove, iterate, iterate in ranges | a scan sees each root once |
| Locks | `SpinReadWriteLock`, `MutexReadWriteLock`, `WeakSpinReadWriteLock` (a count and flags) | read and write sections | exclusion, and the stop of the world always succeeds |
| Utilities (`GCUtil`) | | stop and resume the world, suspend threads, pool index | |

How they interact: every operation of a `GCPtr` runs in the user's thread inside
a critical section, which is a read section of the stop-the-world lock. The GC
thread takes that lock for writing once per cycle, between the concurrent marking
and the sweep, to drain the SATB queues and to select the regions to evacuate.
Marking reads the GCPtrs and the root set while user threads change them; a
thread that overwrites a link pushes the old object on an SATB queue (the
deletion barrier). After the world is resumed, evacuation by the GC threads
races with user threads, each of which relocates the object it needs itself; all
of them meet in the forwarding table of the old region.

The hard behaviours are listed with their lines under "hazards" in
`PROJECT.json`: the barrier against the scan, mark states that outlive their
cycle, the race for the forwarding entry and the withdrawal of the losers,
guards that come and go at the selection, the re-entrance of the stop-the-world
lock, triggers during a cycle, destruction in the middle of one, the swap of
the root set's last element, and the merging of free blocks.

## 2. The modules

| Module | What it is | Composed with |
|---|---|---|
| `GCMark` | marking and sweeping against the operations of user threads | |
| `GCMarkInvariant` | the inductive invariant of `GCMark`, in named parts | extends `GCMark` |
| `GCRegion` | one region and its mark bitmap, byte by byte: allocation, withdrawal, marking, the live size, the sweep | |
| `StableHeap` | abstract: objects that do not move | |
| `GCRelocation` | the evacuation of one region | implements `StableHeap` |
| `ObjectSpace` | abstract: addresses handed out, retired, released | |
| `GCMemoryAllocator` | all regions: the allocating ones, the queues, the map that tells roots from fields, selection and release | implements `ObjectSpace` |
| `ByteHeap` | abstract: a heap of bytes | |
| `GCMemoryManager` | the memory pools and the allocator's use of them | implements `ByteHeap` |
| `RootRegistry` | abstract: a set of roots and a scan that hands each over once | |
| `GCRootSet` | the array of roots, its iterators, the shares of the GC threads | implements `RootRegistry` |
| `LockClients`, `RWLock`, `WeakRWLock` | where the users of a lock are; abstract: a readers-writer lock, and one that lets a reader in late | |
| `SpinReadWriteLock` | the spin lock, load by load | implements `RWLock` |
| `WeakSpinReadWriteLock` | the lock of the phase, load by load | implements `WeakRWLock` |
| `StwLock` | the mutex lock as the stop-the-world lock, nested sections, heals, the phases | |
| `GCThreadLoop` | the GC thread's loop, triggers, destruction | extends `StwLock` |
| `GCMarkProofs`, `GCRegionProofs`, `GCRelocationProofs`, `GCMemoryAllocatorProofs`, `GCMemoryManagerProofs`, `GCRootSetProofs`, `SpinLockProofs`, `StwLockProofs` | theorems about the module they are named after; `SpinLockProofs` has those of both spin locks, `StwLockProofs` those of `GCThreadLoop` too | |
| `MC...` | instances for TLC | |

### GCMark

A *slot* is a GCPtr: a root, or the one GCPtr field of an object. `ptr`, `ims`,
`bit`, `rootset` and `satb` are the fields `obj` and `inlineMarkState` of a GCPtr,
the bitmap entry of an object, the root set and the SATB queues. A user operation
is a record in `op` that walks through the accesses of the C++ function one at a
time: for `operator=` the test of the phase and the barrier, the inline state, the
store. The marking threads are sets of pending visits (`greySlot`, `greyInfo`,
`greyObj`), which TLC serves in every order; that covers any number of GC
threads. `gcpc` is the GC thread: it switches the phase, sleeps, takes the roots,
marks, stops the world, drains each queue, selects, sweeps. What is freed by the
sweep may be allocated again.

Four constants and a parameter say what the environment does, and each names an
assumption the code relies on and does not enforce:

* `SleepCovers`: the sleep of a tenth of a second in `startGC` (GCWorker.cpp:415)
  outlasts the operations under way when the phase changes.
* `SwitchCovers`: no `operator=` is caught between its phase test (GCPtr.h:129) and
  its inline state (GCPtr.h:133) when the phase changes. Without it a link gets
  the colour of a marking that its overwritten object never had, and
  `MarkingComplete` fails in one assignment. The same goes for
  `operator=(nullptr)` at GCPtr.h:155.
* `PhaseLockCovers`: the two stores of `SwitchToNextPhase` are one to whoever reads
  the pair under `gcPhaseLock`. The lock gives that to every reader but one caught
  between its test and its count (`WeakRWLock`). `mark_scope` and `mark_threads` run
  without it: to the marking a torn pair does no harm, as a heal that is decided by it finds its object where it was; the
  harm is in the address such a heal may look up, which `GCMark` does not have.
* `AliasAssign`: whether the program assigns `p = q` when both already refer to one
  object; see section 4.
* `suspendThreadsWhenSTW`: the parameter of that name. With `FALSE`, the shipped value,
  only the operations that take the lock wait while the world is stopped.
  `mark_threads` checks that for everything but assignment to a GCPtr, which takes no
  lock; `mark_unsuspended` shows what that leads to.

Properties: `NoDangling` (no slot that a program can reach refers to an object that
was freed), `MarkingComplete` (when the marking ends, everything reachable is
marked), `HealableAtSelection` (when regions are selected, each reachable link has
the state that makes its next use heal it), `GarbageReclaimed` (what was garbage
when the cycle began is gone when it ends), `FreshColour` (a state of the cycle
before the last is gone before its colour is used again).

### GCRelocation

One region with live objects `Obj`, the GC thread that evacuates it and any number
of user threads. `rel[w]` is a call of `relocateObject` by worker `w`: check the
region, look the object up, allocate, check again, copy, publish under the lock,
find the destructor in the old region's map and register it (`FindMap`, `Register`),
or withdraw with a load and a compare-and-swap. The look-up and the registration
come after the lock of the forwarding table, so the release of the old region's maps
(`free`) may come before, between or after them: then the pointer to the map is null,
or the map goes under the search. `overtaken` records the objects it happened to.
`user[t]` is a dereference: find the address (`getRaw`, `getHealedPointer`), make
the guard, read or write the object, drop the guard. The old memory turns to
`Garbage` when the region is freed. `StableHeap` is what the program is promised:
objects that never move; the refinement maps an object to its forwarded copy if it
has one. `GuardCovers` is the assumption that no thread is between the read of
`obj` and the increment of the use count (GCPtr.h:101) when the region is selected;
without it `GuardedInPlace` fails. `DestructorCarried` needs no assumption: every
object forwarded has its destructor registered, or its one worker is about to do it,
or it was overtaken; an object nobody had published when the maps went is never
among those.

### GCRegion

The bitmap is an array of bytes. An object's mark state is two bits of the byte
its first byte maps to, and its size stands in the bytes after it; `Stale` is what
unused memory may hold. An allocation is the exchange of the offset, the test of
the phase, the reading of the mark state, the store of the state, one store per
byte of the size, and the count; a mark is the test, the state, the size, the count.
The sweep reads the offset once, yields, and then goes from entry to entry:
`current` reads the state, the size, and the size again, and stops the sweep when
they differ or when the size is zero, as the code does by an exception that is
caught. Objects are chosen by the environment, and it drops them at any time; `made`
and `dead` are what exists and what nobody can reach. One assumption, `SleepCovers`,
as in `GCMark`, and only `OnlyGarbageSwept` needs it.

The `yield` in `clearUnmarked` (GCRegion.cpp:166) promises nothing, and the model has it
promise nothing: calls of `allocate` may be anywhere below the offset the sweep has read,
and the losers of relocations withdraw what lies there, and others take it again. `torn`
records that the sweep read an entry that was not there (`Incomplete`), because its
allocation was under way or had been withdrawn, or that the entry it stood on, or one it
had passed, was withdrawn (`Passed`). From then on its way depends on what the memory
held before. The properties speak of all states before; section 4 says what happens
after. So they cover an allocation below the limit that is done in time, one that is
withdrawn before the sweep comes to it, and the memory of such a one used again with
another size: all of it is what the code relies on, and none of it is assumed.

`LiveBound` bounds the live size a relocation begins at: losers of a relocation add
to it and never subtract, so it would grow without end.

### GCMemoryAllocator

A region is a number with a kind, an address, a count of objects and of those not
yet relocated; numbers are used again when no `shared_ptr` refers to them
(`Referenced`). An allocation is the attempt in the allocating region, a new region,
its publication under `regionMapMtx`, its entry in the map, its entry in the queue,
and, for `make_gc`, the question the constructor of an inner `GCPtr` asks the map:
`is_root`. The collection is the switch of the mark state, the selection (any set of
regions the queue could give up), the relocation and the release of that set shared
out between the GC threads, and the two passes over the large regions. A large
region is asked for no inner `GCPtr` in `InsideNeverRoot`: see section 4. The
regions of a thread are `own[w][FALSE]` and, for relocated objects, `own[w][TRUE]`.
`Makes` and `Uses` say which kinds each thread allocates and dereferences; they keep
the instance small.

### The locks and the GC thread

`SpinReadWriteLock` has one step per load and compare-and-swap; the weak exchange
may fail for no reason. `WeakSpinReadWriteLock` is the lock of the phase: a reader
waits for the flag to be down and then counts itself, and tests the flag no second
time (WeakSpinReadWriteLock.h:16). So it is no `RWLock`. What it does give is
`WeakRWLock`, in which a reader is admitted, while nobody writes, and enters later: a
reader that shares the lock with a writer was admitted before that writer came in.
Behind that is `FlagIsOneWriter`. `StwLock` models `MutexReadWriteLock` as the program uses
it: `shared`, `exclusive` and `waiting` are the `std::shared_mutex` (a waiting
writer may keep new readers out: `WriterPreference`), `read_locked_cnt` is the
thread's count, `owns` the stack of its sections, with `FALSE` for a
`RAIISTWLock(true)` made in the REMARK phase. `GCThreadLoop` adds `ready_`, `stop_`, the
condition variable, which may wake for no reason, and `~GCWorker`.

### GCRootSet

`address_arr`, `p_tail` and the offset in each GCPtr, as in the source, with the
blocks. `add` and `remove` wait for `gcRootsetMtx`, which the scan holds
(`step = "scan"`). The scan has an iterator per thread; each step is `MoveNext`,
`current` and `mark_root`. `mark_root` takes the root or passes over it, since it
may be null or marked before: which is the matter of `GCMark`. Then the snapshot
is shared out (`getParallelIndex`, or each thread's own) and marked while roots
come and go.

### GCMemoryManager

Each operation of a pool is one step, as it holds the pool's mutex; the steps of
`allocate_from_freelist` (own pool, every pool, malloc, own pool again) interleave.
`malloc` gives any bytes it has not given, next to others or not, or fails.
`return_reserved` only runs with `recordNewMemMap`, off by default; it is modelled
because it is the delicate one, per pool, at any time. `ByteHeap` accounts for every
byte: the reserve (the lists and the chunk being added) and the blocks held are together
what malloc has given and not got back, so that a byte dropped by `free` or by
`return_reserved`, or given back in use, is a step the heap does not have.

## 3. The runs

All instances are small enough to be searched completely; in `region` a state in which
the sweep is torn is checked and not followed (`UntilTorn`). Roots, objects, threads and
the two mark states of a cycle are symmetric where nothing orders them.

| Run | Bounds | States | What it shows |
|---|---|---|---|
| `mark_scope` | 1 thread, 2 roots, 2 objects, 2 SATB queues; all operations but `operator=` | 800k | everything `GCMark` promises |
| `mark_assign` | same, `make_gc` and `operator=` only | 1.7M | `MarkingComplete` under overwriting assignment |
| `mark_threads` | 2 threads, 1 object, threads not suspended; no assignment | 90k | the lock alone stops the world |
| `mark_unsuspended` | same as `mark_assign`, one queue, threads not suspended | | the finding of section 4 |
| `region` | 2 threads, 2 GC threads, objects of 17 and 18 bytes in a region of 35, two states to a byte and two bytes of size | 2.8M | the bitmap needs no lock, the sweep takes all garbage and nothing else unless it meets an entry that is not there |
| `relocation_race` | 3 threads and the GC thread, 1 object, 4 addresses | 720k | the race is invisible to the program, the destructor moves too unless the release overtakes it |
| `relocation_ends` | 2 threads, guards waited for | 140k | the evacuation always ends |
| `allocator` | 2 threads, 2 GC threads, 3 regions, 2 chunks of memory, 2 objects to a region | 1.3M | no address twice, no inner `GCPtr` a root, no region lost |
| `memory_manager` | 2 threads, 2 pools, 6 bytes, chunks of 2 and 3, blocks of 1 and 3 | 1.0M | the pools are one heap |
| `root_set` | 4 roots, blocks of 2, 3 GC threads, threshold 2 | 950k | a scan sees each root once, a removal finds its root |
| `spin_lock` | both spin locks side by side: 3 read sections, 2 writers | 20k | one is a readers-writer lock, the other lets in nobody but readers caught before their count |
| `gc_thread` | 2 threads, sections two deep, writer preference | 4.8k | stops, triggers, destruction, with liveness |

Why the bounds are enough. Marking: two objects make a chain a thread can cut
behind the scan and keep in a second root; losing an object takes one link that is
moved and one that is cut. With one object the second thread of `mark_threads` can
hold the copy. Two queues make the order of the drain matter; addresses are used
again, and the cycles go on for ever, so states that outlive a cycle are met.
Region: with sixteen values to a byte 17 and 18 need both bytes of the size and
differ in one of them; one of each fills the region of 35 exactly, and after the
17 the next object begins at an odd address, so its state is in the upper half of a
byte. Memory that is withdrawn and taken again with the other size leaves the old
entry under the new one. `Stale` fills unused memory with a state and a size that
no object has.
Relocation: three workers are enough for a winner, a loser and one that allocates
between them, and the run has four. Each worker allocates once for an object, so
`Capacity = |Worker|` never runs out. Allocator: two chunks for three regions make
memory run out and addresses come back under another number; a user thread
and both GC threads race to publish one medium region while a GCPtr is built in it,
and of a queue of one the division gives nobody anything: the last GC thread takes
the remainder. Spin locks: three readers make a count that two
overlapping exchanges could confuse. Root set: four roots fill two blocks and begin
a third; three ranges over one to four roots give ranges that are full, short,
empty and beyond the tail. Memory: six bytes hold a block with neighbours on both
sides and a third one away from them; the request of 3 forces merging and a malloc
larger than the usual chunk.

`CHECK_DEADLOCK FALSE` stands in `GCThreadLoop.cfg` only: the program ends there, once
the destructor has joined the GC thread. In `GCRelocation` the end is an explicit
step, `Finished`.

Fairness. `relocation_ends`: every thread that runs is scheduled again (weak
fairness of each worker's relocation, of a dereference that has begun, of the GC
thread), nothing more; no user thread is forced to begin or to stop. `gc_thread`:
weak fairness of the GC thread and of the end of a section, which say that threads
are scheduled; strong fairness of a thread that waits for the mutex, of the GC
thread's stop and selection and of the end of an outermost section. The strong ones
stand for a mutex that does not starve a waiter and for a thread that nests finitely
many sections; with a mutex that starves waiters the code has no such guarantee.

## 4. Findings

`mark_unsuspended`: with `suspendThreadsWhenSTW` off the world is stopped by the lock,
and `operator=` takes no lock, so it goes on in the REMARK phase, where it pushes
nothing (GCPtr.h:130) and stamps the link with the current mark state (GCPtr.h:133).
An object whose reference was moved to a link already visited, and whose old link is
overwritten so before the drain comes to it, is never marked and is swept.
README.md:247 says that all operations on GCPtr are suspended then. The same sentence
does not hold of heals: `RAIISTWLock(true)` (GCPhase.cpp:114) takes no lock in the
REMARK phase on any thread. `StwLock` has that step, and what it promises holds with
it.

What the assumptions exclude. Where the code relies on timing and a property is lost
without it, a constant says so; the other value of the constant gives TLC a violation.
One of them touches a sentence of the README: README.md:309 says a PtrGuard ensures that
the region of its object is not relocated, which is not so of a guard whose constructor
is between the read and the count (`GuardCovers`, `GuardedInPlace`). README.md:247 is the
sentence of the finding above. Of the others no document speaks:

* `AliasAssign`: assigning `p = q` when both refer to the same object skips the
  barrier, as nothing is overwritten, but stamps `p` with the current mark state
  (GCPtr.h:133). The marking then takes `p` for visited; if `q` goes away first the
  object stays unmarked and is swept while `p` refers to it (`MarkingComplete`).
* `SleepCovers`, `SwitchCovers`: section 2.

What happens, and is in the models. Three races nothing in the code prevents are not
assumed away. The models have them, a history variable or an abstract specification
says when one has happened, and the properties say that nothing else goes wrong:

* `overtaken`: the winner of a relocation registers the destructor with the new
  region after it has let go of the forwarding table. The GC thread, seeing the object
  forwarded, may free the old region in between; the winner then looks into a map that
  is null, or that goes while it searches (GCRegion.cpp:288, 339). The destructor is lost or
  the program dies, against README.md:323.
* `torn`: the sweep of a region yields once and hopes that the entries below the
  offset it read are complete. When they are not, the iterator takes the size of an
  old entry for a new one and loses its step: it marks the inside of a live object as
  freed or takes a live object for garbage. The code
  catches what the bitmap throws then (GCRegion.cpp:187), which covers sizes that read
  differently twice or as zero, not sizes that are stable and wrong. README.md:325
  calls the bitmap inherently thread-safe: its entries are (`EntriesApart`, which holds of
  a torn sweep too), its iteration is not.
* `WeakRWLock`: the weak lock lets in a reader that tested the flag before it was raised
  (WeakSpinReadWriteLock.h:16), so such a reader of the phase may see the stores of
  `SwitchToNextPhase` one at a time.

Seen while reading, and true of every execution, so there is nothing to search for: a
large region never adds to its allocated bytes, so only the first byte of a large
object is `inside_region` (GCRegion.cpp:413) and its other GCPtrs are taken for roots;
a large region whose object dies before any marking has come to it is never freed, as
`canFree` asks whether its mark state needs a sweep (GCRegion.cpp:317), and the state of
a region never marked does not (`GCMemoryAllocator` has this; its properties say where a
region is, not that it goes);
`resetLiveSize` may come before the push of a region that a thread is opening, which
then begins the cycle with what it has counted.

## 5. What is proved

For every value of the constants, by TLAPS:

* `GCMarkProofs`: `MarkTypeCorrect`, from the type invariant and `Operands`, which says
  which steps each kind of operation takes and that their operands exist. And, for any
  number of threads, roots, objects and SATB queues, everything that `GCMark` promises:
  `SelectionSeesAllMarked` (`MarkingComplete`), `SelectionSeesAllHealable`
  (`HealableAtSelection`), `NothingLiveSwept` (`NoDangling`), `OldGarbageReclaimed`
  (`GarbageReclaimed`) and `ColourIsFresh` (`FreshColour`). They follow from
  `MarkInvariant`, the invariant `MarkInv` of `GCMarkInvariant`; "The invariant of the marking" below
  says what is in it and from which hypothesis.
* `GCRegionProofs`: `RegionEntriesApart`, `RegionSizesIntact`, `RegionGarbageSwept` and
  `RegionLiveCounted`, with no assumption on timing; and `RegionOnlyGarbageSwept`, from
  `SleepCovers`. All but the first speak of the states before the sweep is torn. "The invariant of the
  region" below says how they follow from each other. `PowerAssumption` tells the
  provers that the powers that occur are numbers and multiply as powers do; TLC
  evaluates it.
* `GCRelocationProofs`: `RelocationTypeCorrect`, `RelocationNoOverlap`,
  `RelocationNeverThrows`, `RelocationForwardsOnce`, `RelocationCarriesDestructors`; and, from `doNotRelocatePtrGuard` and
  `GuardCovers`, `RelocationLeavesGuarded` and `RelocationImplementsHeap`, for any number
  of threads and objects. The invariant has five parts. `TypeInv`: the use count is
  the number of guards on the old region. `AddrInv`: what a worker holds or an
  object owns lies below the offset, and no two own the same; a withdrawal keeps that
  because it compares the offset with the end of what it withdraws. `ProgressInv`: an
  object is forwarded, or left to the GC thread, or in its hands, so a freed region has
  only forwarded objects and a relocation that ends early has still found its object
  forwarded. `QuietInv`: after the selection nobody refers to the old place; this is the
  part that needs the two conditions. `CopyInv`: a copy that will be published has what
  the object holds. It needs all the others: a write between the copy and the
  publication would go to the old place (`QuietInv`) or to a place that somebody holds
  (`AddrInv`), and a copy of freed memory is never published (`ProgressInv`). The
  destructors need `ProgressInv`: when the maps go, every object is forwarded, so nobody
  can publish and come to the look-up after that, and those who are there are the ones
  `free` has put in `overtaken`.
* `GCMemoryAllocatorProofs`: `InsideIsNeverARoot`, `EveryRegionAccounted`, `TheMapIsExact`
  and `AllocatorImplementsObjectSpace`, for any threads, GC threads, kinds of object,
  regions and memory, from the inductive invariant `Inv`. Its parts say, for an
  allocation under way, what its step entitles it to (`Call`) and that a region it has
  opened has memory of its own, no mark and is in no queue (`Fresh`); where a region
  can be: a small queue, with its entry in the map (`QueInv`), the large queue, with the
  entry gone only between the two passes (`LargeInv`), or the evacuation, with memory
  only until its share is freed (`EvacInv`); that memory lies in one region and the
  region is somebody's (`OwnerInv`); that a thread's allocating region is evacuated, in
  its queue or between publication and queue (`AllocInv`), so that what it takes from an
  open one is never lost; and that the map leads to what is in a queue (`MapInv`). The
  centre is the interval from publication to the entry in the map. A region in it
  (`Emplacing`) can be allocated from by everybody, and is named in nobody's map, so
  `InsideNeverRoot` needs that the mutex is held exactly that long (`Call`). The remainder
  of the division of a queue (`SharesWhole`) is what makes `EvacInv` hold when the freeing
  ends. A large region escapes the clearing while its object is being built because
  nothing has marked it yet, or this cycle has (`Built`).
* `GCRootSetProofs`: `RootSetTypeCorrect`, `RootSetOffsetsAgree`, `RootSetNeverThrows`,
  `RootSetImplementsRegistry`, `RootSetMarkedOnce`. The first three are proved
  together: a removal that throws needs an offset that disagrees, an offset disagrees
  only where a removal moved the wrong cell, and cells are told apart by block and
  offset (`PlacesDiffer`, `BlocksInOrder`, `NextBlock`), which is arithmetic that only
  holds inside the blocks. The assumption that a block has more than one cell is
  needed: cell 0 is never used, and with blocks of one cell `add` would write to a
  block that does not exist. For the scan (`ScanInv`) the iterators' ranges, of any
  length and the last one open, cut the cells below the tail, and what was visited is the
  bag of the cells read; that cells hold different roots is `OffsetsAgree`. For the
  marking (`MarkInv`) the places of the snapshot are cut by the shares, whatever the
  remainder of the division, and the marked roots are the bag of the places done.
* `GCMemoryManagerProofs`: `PoolsStayInOrder`, `PoolsImplementHeap` and
  `PoolsLoseNothing`, with and without `recordNewMemMap`. The invariant: each list is
  sorted for all pairs, with a byte between blocks (`ListInv`); the lists, the blocks
  handed out and the memory malloc has just given to a waiting request are disjoint
  (`ApartInv`) and came from malloc (`FromMalloc`); malloc's chunks are apart, and a chunk
  is recorded by one pool at most, once it is in that pool's list (`MallocInv`), or what
  one pool gave back another might give back again. Disjointness is what makes the gap a freed block falls
  into well defined; the three ways to merge then keep the order because the
  neighbours were not touching. The place where the code looks for the gap is the least
  index that satisfies a condition, which exists by well-founded induction on a set.
  `return_reserved` is a fold over the list, for the library a recursion over sets of
  indices: that the recursion has a solution (`WalkExists`) and that after `k` blocks the
  accumulator holds exactly the bytes of those blocks but for the chunks given back
  (`Kept`) are proved from the least `k` that would fail. `PoolsLoseNothing` is then an
  invariant of the abstract heap.
* `SpinLockProofs`, about the spin lock: `SpinTypeCorrect`, `SpinStateIsExact`, `SpinExclusion` and
  `SpinImplementsRWLock`. The inductive invariant is that `lock_state` is exactly the
  number of sections inside, or -1 for one writer alone, and that what a client
  loaded lies in the range its next exchange relies on. The exchange compares with
  the loaded value, so the invariant carries over each of them. About the weak lock:
  `WeakFlagIsOneWriter` and `WeakImplementsWeakRWLock`, whatever readers do.
* `StwLockProofs`: `StwCountsSections`, `StwWorldStopped` for the lock and its client, and
  `LoopKeepsWorldStopped` for the same lock under the GC thread's loop. The
  invariant counts who took the lock and has still to release it (`Owned`), and says
  that a stop that was granted leaves `shared` empty.

The assumptions are the named `ASSUME`s of the modules, which TLC evaluates. A theorem
with a hypothesis about a constant that stands for timing or use names it in its
statement.

### The invariant of the marking

The hypothesis of the theorems about marking is `Covered`: `SleepCovers`, `SwitchCovers`,
no `AliasAssign`, and either `suspendThreadsWhenSTW` or a program that assigns to no
GCPtr, be it a pointer or null. It holds in `mark_scope`, `mark_assign` and `mark_threads`,
where TLC finds `MarkInv` true in every state, and each of its conjuncts is needed:
without one of the first three TLC finds the violation of section 2 or 4, and
`mark_unsuspended` is the violation without the last. `PhaseLockCovers` is not needed: the
theorems say that a torn pair of phase and mark state does the marking no harm.

That every reachable object is marked when the marking ends is not inductive, nor is the
usual tri-colour invariant enough: an operation of this collector tests the phase, pushes
what it overwrites, stamps the GCPtr with the mark state and stores, in steps of their
own, and a GCPtr is stamped, and with that skipped by the marking, by whoever writes it
as well as by the marking itself. The centre of the invariant is the set `Safe`: the
objects that are marked, owed a visit or in a SATB queue, and what those and the roots lead
to over GCPtrs that are not stamped yet. `SafeInv` says that a stamped GCPtr refers to a
safe object. So a user thread may store whatever it can reach, for all it can reach is
safe; it may cut a chain, for the barrier has pushed what lay behind the cut (`Barriered`,
per thread, as the push is an earlier step than the store); and the GC thread only turns
what is owed into what is marked (`PendingInv`). When nothing is owed, `Safe` is what is
marked. `Safe` is the least set closed under those links, not a set of paths, so no
induction is needed: to show that it only grows one shows that the new one is closed.

The other parts are what this argument leans on. `Early` bounds what an operation begun
before the switch may still do; `Stamped` and `Coloured` say which state a thread is about
to write; `New` that an object under construction is known to nobody else; `Owns`,
`Builds` and `RootInv` that operands stay reachable and which roots are registered;
`HeapInv` that what stays refers to what stays, which is where sweeping comes in;
`ColourInv` that between two markings nothing carries the state the next will take;
`DoomedInv` that nothing leads back to what was garbage at the switch; `PhaseInv` where the
phase, the visits and the queues stand at each step of the GC thread. Each step of a user
thread is proved to have one of a few effects on the heap (`Effect`), and what it does to
the rest is proved from that, so that the many kinds of operation are met once.

### The invariant of the region

It has four parts, each of which needs those before it.

`Laid(H)`: what is made, what is being allocated and the holes `H` lie one after the
other below the offset (`Placed`), without a gap (`Chained`), each long enough for its
entry (`SizeAssumption`, which is `TINY_OBJECT_THRESHOLD`). A hole is what the loser of a
relocation could not withdraw, as something had been allocated behind it. No variable of
the program holds the holes, and none of the model does: the invariant says that some set
`H` of them exists, and a step either keeps that set or adds the one the step leaves. A
withdrawal keeps the layout because it compares the offset with the end of what it
withdraws. From its length an entry of `1 + SizeBytes` bytes of the bitmap ends before the
next begins, which is `EntriesApart`.

`Intact(H)`: the bytes of an entry hold the digits of the size, all of them once the
allocation is done (`Sized`); a mark, a clearing and a byte of a size are written to one
entry and so leave the digits of the others alone. What `getObjectSize` reads from the
digits is the size because no two numbers below `Radix ^ SizeBytes` have the same: two
that did would differ first at some digit, the least one, and that one is the same
(`SameDigits`; the least element is the one use of a well-founded order). Hence `mark`
never throws, what it writes as a size is there already, and the sweep goes from the start
of one entry to the start of the next (`Iterates`). Before it reads, below its limit, it is
where some entry begins, or at the offset, if what began there has been withdrawn;
`Chained` says so of the place after every entry. When it reads and the entry is not
complete, or there is none, the sweep is torn, and so it is when the entry is withdrawn
later; otherwise it stands on a whole entry until it moves on. A torn sweep may write
anywhere, so `Intact` is claimed only before that; what it writes is still a byte, and
the layout is kept (`Laid`), which is all `EntriesApart` needs.

`Painted(H)`: which mark states an object can have at each step of the GC thread. Between
the cycles it is the current one, that of an object born outside a cycle, or none; so when
the state is switched no garbage has the new one, and as the marking visits nothing that
was doomed, none gets it. A hole has no state; a thread in an allocation is about to write
the current state, unless the switch caught it (`early`); when the world stops nobody is
in one. Behind the iterator everything has the current state or none, before it only what
lies below the limit may have another (`Sweeps`), so at the end all is settled, and what
was doomed can only have lost its state. That what is reachable has the current state when
the marking ends needs `SleepCovers`, or one of the threads the switch caught could make an
object of the old colour after the marking had passed. With `SleepCovers` false TLC finds
`OnlyGarbageSwept` violated, so that theorem has no assumption to spare. Whether
`GarbageSwept` and `LiveCounted` also hold after a torn sweep is open.

`Tally`: what `live_size` is, from the switch of the mark state to the selection. The
objects with this cycle's mark whose size has been added (`Tallied`) are no more than it;
what it holds besides, and what may still come to it without such a mark (`Owing`), is
within what the switch caught (`Balance`). At the switch nothing is tallied, as no object
has the new state, and what is owed is the size of the calls that have not counted yet,
which is what `caught` is set to. Afterwards a step concerns at most one object: a call
that the switch missed counts an object of the current state, which joins the tally; one
that it caught counts either such an object or one of the old state, which is then
owed no longer; a marker's object joins the tally when its size is added, and of the
markers of one object only one gets that far (`OneVisit`), as the others find the mark;
only a relocation frees, and while marking the only relocations are caught ones, so
that what leaves the tally was owed. An allocation that began outside the cycle and does not
count makes an object of the old state (`Born`). The sums themselves are the library's
fold over a set, which takes its elements in an order of its own. That the fold is
the sum of all but one element and of this one, whichever it is (`SumOne`), is proved
without induction: of the subsets for which it fails there would be one with no smaller
one, and that one does not fail (`SmallestSubset`).

### What is not proved

Only model-checked: all liveness, that is `EvacuationEnds`, `TriggerServed`,
`DestructionEnds`, `StopSucceeds`, `StopEnds` and `Enters` (fairness and ENABLED are out
of the prover's reach).

## 6. What is not modelled

* `GCRegionalHashMap`, `ConcurrentLinkedList`, the region map buffer, copied mark
  states, `distinctSATB`, `deferRemoveRoot`, the set of all GCPtrs, collection without
  the memory allocator (`object_map`): alternatives that are off by default, several
  documented as not recommended.
* TINY regions, whose sweep goes in fixed steps, and `mark_high_bit`, which is off.
* Steps taken as one where no property can tell: the load, the exchange and the mark of
  `GCRegion::free` in `GCRegion` (`GCRelocation` has the load and the exchange apart); the
  entry in the map and the push of a small or medium region in `GCMemoryAllocator`, as only
  the selection, which finds the world stopped, takes from those queues; the load of the
  allocating region and the attempt in it, as a region that is stale by then refuses or
  still has room; in `GCMark` the GC thread's heal and read of a GCPtr (`VisitSlot`), as
  each GCPtr has one owner there.
* The ratios that make a region a candidate for evacuation: `GCMemoryAllocator` lets the
  selection be any set of regions, so what it shows holds for every ratio.
* Heals and assignments of one GCPtr by several threads: every GCPtr has one owner in
  `GCMark` and `GCRelocation`. The documentation asks for `enablePtrRWLock` there.
* The composition of marking and relocation: `GCMark` has no addresses and
  `GCRelocation` one evacuation. They meet at the selection, where
  `HealableAtSelection` is what the first gives and the second relies on.
* The raw pointer `queryRegionMap` uses after it has let go of the map
  (GCMemoryAllocator.cpp:682): a query is one step, as there is no freed memory to read.
* `SpinLock`, a flag that the default configuration uses nowhere. The thread pool is
  external: it runs every task, and `waitForTaskComplete` waits for all. `main.cpp` and
  `MemoryAllocatorTest.h` are example programs.

## 7. What is left

In order of importance: marking and relocation composed over several cycles, with
addresses; the three fields of a GCPtr under several threads, with and without
`enablePtrRWLock`.
