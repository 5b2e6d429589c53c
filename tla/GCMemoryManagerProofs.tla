------------------------ MODULE GCMemoryManagerProofs ------------------------
(***************************************************************************)
(* The pools: the lists of free blocks stay in order and merged, and the   *)
(* pools are one heap that gives each byte to one owner, for any memory,   *)
(* any sizes, any number of threads and pools and any way threads are      *)
(* assigned to pools, whether or not memory is given back to the system.   *)
(***************************************************************************)
EXTENDS GCMemoryManager, TLAPS, WellFoundedInduction

FreeBlock == [address : Nat, size : Nat \ {0}]

-----------------------------------------------------------------------------
(* Every set of naturals with a member has a least one, and Min finds it.  *)
LEMMA LeastExists ==
    ASSUME NEW S \in SUBSET Nat, S # {}
    PROVE  Min(S) \in S /\ \A y \in S : Min(S) <= y
<1> DEFINE R == OpToRel(<, Nat)
<1>1. PICK x \in S : \A y \in S : ~ (<<y, x>> \in R)
  <2>1. IsWellFoundedOn(R, Nat)
    BY NatLessThanWellFounded
  <2> HIDE DEF R
  <2> QED BY <2>1, WFMin, Zenon
<1>2. \A y \in S : x <= y
  <2>1. \A y \in S : ~ (y < x)
    BY <1>1 DEF OpToRel
  <2> QED BY <2>1
<1> QED BY <1>2 DEF Min

(* The operations on sequences, element by element.                        *)
LEMMA Replaced ==
    ASSUME NEW S, NEW s \in Seq(S), NEW e \in S, NEW i \in 1 .. Len(s)
    PROVE  /\ ReplaceAt(s, i, e) \in Seq(S) /\ Len(ReplaceAt(s, i, e)) = Len(s)
           /\ \A k \in 1 .. Len(s) : ReplaceAt(s, i, e)[k] = IF k = i THEN e ELSE s[k]
BY DEF ReplaceAt

LEMMA Removed ==
    ASSUME NEW S, NEW s \in Seq(S), NEW i \in 1 .. Len(s)
    PROVE  /\ RemoveAt(s, i) \in Seq(S) /\ Len(RemoveAt(s, i)) = Len(s) - 1
           /\ \A k \in 1 .. Len(s) - 1 : RemoveAt(s, i)[k] = IF k < i THEN s[k] ELSE s[k + 1]
<1> DEFINE a == SubSeq(s, 1, i - 1)
           b == SubSeq(s, i + 1, Len(s))
<1>1. a \in Seq(S) /\ Len(a) = i - 1 /\ \A k \in 1 .. i - 1 : a[k] = s[k]
  OBVIOUS
<1>2. b \in Seq(S) /\ Len(b) = Len(s) - i /\ \A k \in 1 .. Len(s) - i : b[k] = s[k + i]
  OBVIOUS
<1>3. RemoveAt(s, i) = a \o b /\ Len(s) \in Nat
  BY DEF RemoveAt
<1> HIDE DEF a, b
<1>4. a \o b \in Seq(S) /\ Len(a \o b) = Len(s) - 1
  BY <1>1, <1>2, <1>3
<1>5. \A k \in 1 .. Len(s) - 1 : (a \o b)[k] = IF k < i THEN s[k] ELSE s[k + 1]
  <2> TAKE k \in 1 .. Len(s) - 1
  <2>1. CASE k < i
    BY <2>1, <1>1, <1>2, <1>3
  <2>2. CASE ~(k < i)
    <3>1. k - (i - 1) \in 1 .. Len(s) - i /\ (k - (i - 1)) + i = k + 1
      BY <2>2, <1>3
    <3>2. (a \o b)[k] = b[k - (i - 1)]
      BY <2>2, <3>1, <1>1, <1>2, <1>3
    <3> QED BY <3>1, <3>2, <2>2, <1>2
  <2> QED BY <2>1, <2>2
<1> QED BY <1>3, <1>4, <1>5

LEMMA Inserted ==
    ASSUME NEW S, NEW s \in Seq(S), NEW e \in S, NEW i \in 1 .. Len(s)
    PROVE  /\ InsertAt(s, i, e) \in Seq(S) /\ Len(InsertAt(s, i, e)) = Len(s) + 1
           /\ \A k \in 1 .. Len(s) + 1 :
                 InsertAt(s, i, e)[k] = IF k < i THEN s[k] ELSE IF k = i THEN e ELSE s[k - 1]
BY DEF InsertAt

LEMMA Consed ==
    ASSUME NEW S, NEW s \in Seq(S), NEW e \in S
    PROVE  /\ Cons(e, s) \in Seq(S) /\ Len(Cons(e, s)) = Len(s) + 1
           /\ \A k \in 1 .. Len(s) + 1 : Cons(e, s)[k] = IF k = 1 THEN e ELSE s[k - 1]
BY DEF Cons

LEMMA Appended ==
    ASSUME NEW S, NEW s \in Seq(S), NEW e \in S
    PROVE  /\ Append(s, e) \in Seq(S) /\ Len(Append(s, e)) = Len(s) + 1
           /\ \A k \in 1 .. Len(s) + 1 : Append(s, e)[k] = IF k <= Len(s) THEN s[k] ELSE e
OBVIOUS
-----------------------------------------------------------------------------
(* A list in order: each block ends before the next begins, with a byte    *)
(* between them, so blocks of one list are apart however far they stand.   *)
Sorted(list) ==
    /\ list \in Seq(FreeBlock)
    /\ \A k, l \in 1 .. Len(list) : k < l => End(list[k]) < list[l].address
Listed(list) == BytesOf(Elements(list))

LEMMA BlockBytes ==
    ASSUME NEW b \in FreeBlock
    PROVE  /\ b.address \in Nat /\ b.size \in Nat \ {0} /\ End(b) \in Nat /\ b.address < End(b)
           /\ Bytes(b) \subseteq Nat
           /\ \A x \in Nat : x \in Bytes(b) <=> b.address <= x /\ x < End(b)
BY DEF FreeBlock, End, Bytes

(* The abstract heap and the pools mean the same bytes by a block.         *)
LEMMA HeapBytes ==
    ASSUME NEW b \in FreeBlock
    PROVE  Heap!Bytes(b) = Bytes(b)
<1>1. b.address \in Nat /\ b.size \in Nat
  BY DEF FreeBlock
<1>2. b.address + b.size - 1 = (b.address + b.size) - 1
  BY <1>1
<1> QED BY <1>1, <1>2 DEF Heap!Bytes, Bytes, End

LEMMA BlockOf ==
    ASSUME NEW a \in Nat, NEW n \in Nat \ {0}
    PROVE  Block(a, n) \in FreeBlock /\ Block(a, n).address = a /\ Block(a, n).size = n
           /\ End(Block(a, n)) = a + n
BY DEF Block, FreeBlock, End

LEMMA ListedBytes ==
    ASSUME NEW list \in Seq(FreeBlock)
    PROVE  \A x : x \in Listed(list) <=> \E k \in 1 .. Len(list) : x \in Bytes(list[k])
BY DEF Listed, BytesOf, Elements

LEMMA ListBlocks ==
    ASSUME NEW list, Sorted(list)
    PROVE  /\ list \in Seq(FreeBlock) /\ Len(list) \in Nat
           /\ \A k \in 1 .. Len(list) : list[k] \in FreeBlock
           /\ \A k, l \in 1 .. Len(list) : k # l => Bytes(list[k]) \cap Bytes(list[l]) = {}
<1>1. list \in Seq(FreeBlock) /\ Len(list) \in Nat /\ \A k \in 1 .. Len(list) : list[k] \in FreeBlock
  BY DEF Sorted
<1>2. ASSUME NEW k \in 1 .. Len(list), NEW l \in 1 .. Len(list), k < l
      PROVE  Bytes(list[k]) \cap Bytes(list[l]) = {}
  <2>1. End(list[k]) < list[l].address /\ list[k] \in FreeBlock /\ list[l] \in FreeBlock
    BY <1>1, <1>2 DEF Sorted
  <2> QED BY <2>1 DEF Bytes, End, FreeBlock
<1>3. \A k, l \in 1 .. Len(list) : k # l => k < l \/ l < k
  BY <1>1
<1> QED BY <1>1, <1>2, <1>3

(* Two places in order are in order with all that lies beyond.             *)
LEMMA OrderReaches ==
    ASSUME NEW list, Sorted(list), NEW i \in 1 .. Len(list), NEW k \in 1 .. i
    PROVE  End(list[k]) <= End(list[i]) /\ list[k].address <= list[i].address
<1>1. list[k] \in FreeBlock /\ list[i] \in FreeBlock /\ k \in 1 .. Len(list) /\ Len(list) \in Nat
  BY ListBlocks
<1>2. k # i => End(list[k]) < list[i].address
  BY <1>1 DEF Sorted
<1> QED BY <1>1, <1>2, BlockBytes

LEMMA ReplaceSorted ==
    ASSUME NEW list, Sorted(list), NEW i \in 1 .. Len(list), NEW e \in FreeBlock,
           i > 1 => End(list[i - 1]) < e.address,
           i < Len(list) => End(e) < list[i + 1].address
    PROVE  /\ Sorted(ReplaceAt(list, i, e))
           /\ Listed(ReplaceAt(list, i, e)) = (Listed(list) \ Bytes(list[i])) \cup Bytes(e)
<1> DEFINE new == ReplaceAt(list, i, e)
<1>1. /\ new \in Seq(FreeBlock) /\ Len(new) = Len(list)
      /\ \A k \in 1 .. Len(list) : new[k] = IF k = i THEN e ELSE list[k]
  BY ListBlocks, Replaced
<1> HIDE DEF new
<1>2. /\ list \in Seq(FreeBlock) /\ Len(list) \in Nat
      /\ \A k \in 1 .. Len(list) : list[k] \in FreeBlock
      /\ \A k, l \in 1 .. Len(list) : k # l => Bytes(list[k]) \cap Bytes(list[l]) = {}
  BY ListBlocks
<1>3. ASSUME NEW k \in 1 .. Len(list), k < i PROVE End(list[k]) < e.address
  <2>1. i - 1 \in 1 .. Len(list) /\ k \in 1 .. i - 1 /\ i > 1
    BY <1>2, <1>3
  <2>2. End(list[k]) <= End(list[i - 1])
    BY <2>1, OrderReaches
  <2>3. End(list[k]) \in Nat /\ End(list[i - 1]) \in Nat /\ e.address \in Nat
    BY <1>2, <2>1, BlockBytes
  <2> QED BY <2>1, <2>2, <2>3
<1>4. ASSUME NEW k \in 1 .. Len(list), i < k PROVE End(e) < list[k].address
  <2>1. i + 1 \in 1 .. k /\ i < Len(list) /\ i + 1 \in 1 .. Len(list)
    BY <1>2, <1>4
  <2>2. list[i + 1].address <= list[k].address
    BY <2>1, OrderReaches
  <2>3. list[i + 1].address \in Nat /\ list[k].address \in Nat /\ End(e) \in Nat
    BY <1>2, <2>1, BlockBytes
  <2> QED BY <2>1, <2>2, <2>3
<1>5. Sorted(new)
  <2>1. ASSUME NEW k \in 1 .. Len(new), NEW l \in 1 .. Len(new), k < l
        PROVE  End(new[k]) < new[l].address
    BY <1>1, <1>3, <1>4, <2>1 DEF Sorted
  <2> QED BY <1>1, <2>1 DEF Sorted
<1>6. Listed(new) = (Listed(list) \ Bytes(list[i])) \cup Bytes(e)
  <2>1. \A x : x \in Listed(new) <=> \E k \in 1 .. Len(list) : x \in Bytes(new[k])
    BY <1>1, ListedBytes
  <2>2. \A x : x \in Listed(list) <=> \E k \in 1 .. Len(list) : x \in Bytes(list[k])
    BY <1>2, ListedBytes
  <2>3. ASSUME NEW x PROVE x \in Listed(new) <=> (x \in Listed(list) /\ x \notin Bytes(list[i])) \/ x \in Bytes(e)
    BY <1>1, <1>2, <2>1, <2>2
  <2> QED BY <2>3
<1> QED BY <1>5, <1>6 DEF new

LEMMA RemoveSorted ==
    ASSUME NEW list, Sorted(list), NEW i \in 1 .. Len(list)
    PROVE  /\ Sorted(RemoveAt(list, i))
           /\ Listed(RemoveAt(list, i)) = Listed(list) \ Bytes(list[i])
<1> DEFINE new == RemoveAt(list, i)
<1>1. /\ new \in Seq(FreeBlock) /\ Len(new) = Len(list) - 1
      /\ \A k \in 1 .. Len(list) - 1 : new[k] = IF k < i THEN list[k] ELSE list[k + 1]
  BY ListBlocks, Removed
<1> HIDE DEF new
<1>2. /\ list \in Seq(FreeBlock) /\ Len(list) \in Nat
      /\ \A k, l \in 1 .. Len(list) : k # l => Bytes(list[k]) \cap Bytes(list[l]) = {}
  BY ListBlocks
<1>3. Sorted(new)
  <2>1. ASSUME NEW k \in 1 .. Len(new), NEW l \in 1 .. Len(new), k < l
        PROVE  End(new[k]) < new[l].address
    <3>1. /\ k \in 1 .. Len(list) /\ k + 1 \in 1 .. Len(list)
          /\ l \in 1 .. Len(list) /\ l + 1 \in 1 .. Len(list)
      BY <1>1, <1>2
    <3> QED BY <3>1, <1>1, <2>1 DEF Sorted
  <2> QED BY <1>1, <2>1 DEF Sorted
<1>4. Listed(new) = Listed(list) \ Bytes(list[i])
  <2>1. \A x : x \in Listed(new) <=> \E k \in 1 .. Len(list) - 1 : x \in Bytes(new[k])
    BY <1>1, ListedBytes
  <2>2. \A x : x \in Listed(list) <=> \E k \in 1 .. Len(list) : x \in Bytes(list[k])
    BY <1>2, ListedBytes
  <2>3. ASSUME NEW x \in Listed(new) PROVE x \in Listed(list) \ Bytes(list[i])
    <3>1. PICK k \in 1 .. Len(list) - 1 : x \in Bytes(new[k])
      BY <2>1
    <3>2. PICK l \in 1 .. Len(list) : new[k] = list[l] /\ l # i
      <4>1. CASE k < i
        <5>1. k \in 1 .. Len(list) /\ new[k] = list[k] /\ k # i
          BY <4>1, <1>1, <1>2
        <5> QED BY <5>1
      <4>2. CASE ~(k < i)
        <5>1. k + 1 \in 1 .. Len(list) /\ new[k] = list[k + 1] /\ k + 1 # i
          BY <4>2, <1>1, <1>2
        <5> QED BY <5>1
      <4> QED BY <4>1, <4>2
    <3> QED BY <3>1, <3>2, <1>2, <2>2
  <2>4. ASSUME NEW x \in Listed(list), x \notin Bytes(list[i]) PROVE x \in Listed(new)
    <3>1. PICK l \in 1 .. Len(list) : x \in Bytes(list[l])
      BY <2>2
    <3>2. l # i
      BY <3>1, <2>4
    <3>3. PICK k \in 1 .. Len(list) - 1 : new[k] = list[l]
      <4>1. CASE l < i
        <5>1. l \in 1 .. Len(list) - 1 /\ new[l] = list[l]
          BY <4>1, <1>1, <1>2
        <5> QED BY <5>1
      <4>2. CASE i < l
        <5>1. l - 1 \in 1 .. Len(list) - 1 /\ new[l - 1] = list[l]
          BY <4>2, <1>1, <1>2
        <5> QED BY <5>1
      <4> QED BY <3>2, <4>1, <4>2, <1>2
    <3> QED BY <3>1, <3>3, <2>1
  <2> QED BY <2>3, <2>4
<1> QED BY <1>3, <1>4 DEF new

LEMMA InsertSorted ==
    ASSUME NEW list, Sorted(list), NEW i \in 1 .. Len(list), NEW e \in FreeBlock,
           i > 1 => End(list[i - 1]) < e.address, End(e) < list[i].address
    PROVE  /\ Sorted(InsertAt(list, i, e))
           /\ Listed(InsertAt(list, i, e)) = Listed(list) \cup Bytes(e)
<1> DEFINE new == InsertAt(list, i, e)
<1>1. /\ new \in Seq(FreeBlock) /\ Len(new) = Len(list) + 1
      /\ \A k \in 1 .. Len(list) + 1 : new[k] = IF k < i THEN list[k] ELSE IF k = i THEN e ELSE list[k - 1]
  BY ListBlocks, Inserted
<1> HIDE DEF new
<1>2. /\ list \in Seq(FreeBlock) /\ Len(list) \in Nat
      /\ \A k \in 1 .. Len(list) : list[k] \in FreeBlock
  BY ListBlocks
<1>3. ASSUME NEW k \in 1 .. Len(list), k < i PROVE End(list[k]) < e.address
  <2>1. i - 1 \in 1 .. Len(list) /\ k \in 1 .. i - 1 /\ i > 1
    BY <1>2, <1>3
  <2>2. End(list[k]) <= End(list[i - 1])
    BY <2>1, OrderReaches
  <2>3. End(list[k]) \in Nat /\ End(list[i - 1]) \in Nat /\ e.address \in Nat
    BY <1>2, <2>1, BlockBytes
  <2> QED BY <2>1, <2>2, <2>3
<1>4. ASSUME NEW k \in 1 .. Len(list), i <= k PROVE End(e) < list[k].address
  <2>1. i \in 1 .. k
    BY <1>2, <1>4
  <2>2. list[i].address <= list[k].address
    BY <2>1, OrderReaches
  <2>3. list[i].address \in Nat /\ list[k].address \in Nat /\ End(e) \in Nat
    BY <1>2, BlockBytes
  <2> QED BY <2>2, <2>3
<1>5. Sorted(new)
  <2>1. ASSUME NEW k \in 1 .. Len(new), NEW l \in 1 .. Len(new), k < l
        PROVE  End(new[k]) < new[l].address
    <3>1. k \in 1 .. Len(list) + 1 /\ l \in 1 .. Len(list) + 1
      BY <1>1
    <3>2. CASE l < i
      <4>1. k \in 1 .. Len(list) /\ l \in 1 .. Len(list) /\ new[k] = list[k] /\ new[l] = list[l]
        BY <3>1, <3>2, <2>1, <1>1, <1>2
      <4> QED BY <4>1, <2>1 DEF Sorted
    <3>3. CASE l = i
      <4>1. k \in 1 .. Len(list) /\ new[k] = list[k] /\ new[l] = e /\ k < i
        BY <3>1, <3>3, <2>1, <1>1, <1>2
      <4> QED BY <4>1, <1>3
    <3>4. CASE l > i
      <4>1. l - 1 \in 1 .. Len(list) /\ new[l] = list[l - 1] /\ i <= l - 1
        BY <3>1, <3>4, <2>1, <1>1, <1>2
      <4>2. CASE k < i
        <5>1. k \in 1 .. Len(list) /\ new[k] = list[k] /\ k < l - 1
          BY <3>1, <3>4, <4>2, <1>1, <1>2
        <5> QED BY <4>1, <5>1 DEF Sorted
      <4>3. CASE k = i
        <5>1. new[k] = e
          BY <3>1, <4>3, <1>1
        <5> QED BY <4>1, <5>1, <1>4
      <4>4. CASE k > i
        <5>1. k - 1 \in 1 .. Len(list) /\ k - 1 < l - 1
          BY <3>1, <4>4, <2>1, <1>2
        <5>2. new[k] = list[k - 1]
          BY <3>1, <4>4, <1>1
        <5> QED BY <4>1, <5>1, <5>2 DEF Sorted
      <4> QED BY <4>2, <4>3, <4>4, <3>1
    <3> QED BY <3>1, <3>2, <3>3, <3>4
  <2> QED BY <1>1, <2>1 DEF Sorted
<1>6. Listed(new) = Listed(list) \cup Bytes(e)
  <2>1. \A x : x \in Listed(new) <=> \E k \in 1 .. Len(list) + 1 : x \in Bytes(new[k])
    BY <1>1, ListedBytes
  <2>2. \A x : x \in Listed(list) <=> \E k \in 1 .. Len(list) : x \in Bytes(list[k])
    BY <1>2, ListedBytes
  <2>3. ASSUME NEW x \in Listed(new) PROVE x \in Listed(list) \cup Bytes(e)
    <3>1. PICK k \in 1 .. Len(list) + 1 : x \in Bytes(new[k])
      BY <2>1
    <3>2. CASE k = i
      BY <3>1, <3>2, <1>1
    <3>3. CASE k < i
      <4>1. k \in 1 .. Len(list) /\ new[k] = list[k]
        BY <3>3, <1>1, <1>2
      <4> QED BY <4>1, <3>1, <2>2
    <3>4. CASE k > i
      <4>1. k - 1 \in 1 .. Len(list) /\ new[k] = list[k - 1]
        BY <3>4, <1>1, <1>2
      <4> QED BY <4>1, <3>1, <2>2
    <3> QED BY <3>2, <3>3, <3>4, <1>2
  <2>4. ASSUME NEW x \in Listed(list) PROVE x \in Listed(new)
    <3>1. PICK l \in 1 .. Len(list) : x \in Bytes(list[l])
      BY <2>2
    <3>2. CASE l < i
      <4>1. l \in 1 .. Len(list) + 1 /\ new[l] = list[l]
        BY <3>2, <1>1, <1>2
      <4> QED BY <4>1, <3>1, <2>1
    <3>3. CASE i <= l
      <4>1. l + 1 \in 1 .. Len(list) + 1 /\ new[l + 1] = list[l]
        BY <3>3, <1>1, <1>2
      <4> QED BY <4>1, <3>1, <2>1
    <3> QED BY <3>2, <3>3, <1>2
  <2>5. ASSUME NEW x \in Bytes(e) PROVE x \in Listed(new)
    <3>1. i \in 1 .. Len(list) + 1 /\ new[i] = e
      BY <1>1, <1>2
    <3> QED BY <3>1, <2>1
  <2> QED BY <2>3, <2>4, <2>5
<1> QED BY <1>5, <1>6 DEF new

LEMMA ConsIsInsert ==
    ASSUME NEW list, Sorted(list), list # <<>>, NEW e \in FreeBlock
    PROVE  Cons(e, list) = InsertAt(list, 1, e)
<1>1. list \in Seq(FreeBlock) /\ Len(list) \in Nat /\ Len(list) > 0 /\ 1 \in 1 .. Len(list)
  BY ListBlocks
<1>2. /\ Cons(e, list) \in Seq(FreeBlock) /\ Len(Cons(e, list)) = Len(list) + 1
      /\ \A k \in 1 .. Len(list) + 1 : Cons(e, list)[k] = IF k = 1 THEN e ELSE list[k - 1]
  BY <1>1, Consed
<1>3. /\ InsertAt(list, 1, e) \in Seq(FreeBlock) /\ Len(InsertAt(list, 1, e)) = Len(list) + 1
      /\ \A k \in 1 .. Len(list) + 1 :
            InsertAt(list, 1, e)[k] = IF k < 1 THEN list[k] ELSE IF k = 1 THEN e ELSE list[k - 1]
  BY <1>1, Inserted
<1> DEFINE a == Cons(e, list)
           b == InsertAt(list, 1, e)
<1>4. \A k \in 1 .. Len(list) + 1 : a[k] = b[k]
  BY <1>1, <1>2, <1>3
<1>5. a \in Seq(FreeBlock) /\ b \in Seq(FreeBlock) /\ Len(a) = Len(list) + 1 /\ Len(b) = Len(list) + 1
  BY <1>2, <1>3
<1> HIDE DEF a, b
<1>6. a = b
  BY <1>4, <1>5
<1> QED BY <1>6 DEF a, b

LEMMA AppendSorted ==
    ASSUME NEW list, Sorted(list), NEW e \in FreeBlock,
           Len(list) > 0 => End(list[Len(list)]) < e.address
    PROVE  /\ Sorted(Append(list, e))
           /\ Listed(Append(list, e)) = Listed(list) \cup Bytes(e)
<1> DEFINE new == Append(list, e)
           n == Len(list)
<1>1. list \in Seq(FreeBlock) /\ n \in Nat /\ \A k \in 1 .. n : list[k] \in FreeBlock
  BY ListBlocks
<1>2. /\ new \in Seq(FreeBlock) /\ Len(new) = n + 1
      /\ \A k \in 1 .. n + 1 : new[k] = IF k <= n THEN list[k] ELSE e
  BY <1>1, Appended
<1> HIDE DEF new
<1>3. ASSUME NEW k \in 1 .. n PROVE End(list[k]) < e.address
  <2>1. n \in 1 .. n /\ k \in 1 .. n /\ n > 0
    BY <1>1
  <2>2. End(list[k]) <= End(list[n])
    BY <2>1, OrderReaches
  <2>3. End(list[k]) \in Nat /\ End(list[n]) \in Nat /\ e.address \in Nat
    BY <1>1, <2>1, BlockBytes
  <2> QED BY <2>1, <2>2, <2>3
<1>4. Sorted(new)
  <2>1. ASSUME NEW k \in 1 .. Len(new), NEW l \in 1 .. Len(new), k < l
        PROVE  End(new[k]) < new[l].address
    <3>1. k \in 1 .. n /\ new[k] = list[k]
      BY <1>1, <1>2, <2>1
    <3>2. CASE l = n + 1
      BY <3>1, <3>2, <1>1, <1>2, <1>3
    <3>3. CASE l # n + 1
      <4>1. l \in 1 .. n /\ new[l] = list[l]
        BY <3>3, <1>1, <1>2
      <4> QED BY <3>1, <4>1, <2>1 DEF Sorted
    <3> QED BY <3>2, <3>3
  <2> QED BY <1>2, <2>1 DEF Sorted
<1>5. Listed(new) = Listed(list) \cup Bytes(e)
  <2>1. \A x : x \in Listed(new) <=> \E k \in 1 .. n + 1 : x \in Bytes(new[k])
    BY <1>2, ListedBytes
  <2>2. \A x : x \in Listed(list) <=> \E k \in 1 .. n : x \in Bytes(list[k])
    BY <1>1, ListedBytes
  <2>3. \A x : (\E k \in 1 .. n + 1 : x \in Bytes(new[k]))
               <=> (\E k \in 1 .. n : x \in Bytes(list[k])) \/ x \in Bytes(e)
    <3>1. n + 1 \in 1 .. n + 1 /\ new[n + 1] = e /\ \A k \in 1 .. n : k \in 1 .. n + 1 /\ new[k] = list[k]
      BY <1>1, <1>2
    <3>2. \A k \in 1 .. n + 1 : k \in 1 .. n \/ k = n + 1
      BY <1>1
    <3> QED BY <3>1, <3>2
  <2> QED BY <2>1, <2>2, <2>3
<1> QED BY <1>4, <1>5 DEF new

-----------------------------------------------------------------------------
(* allocate takes the head of a block out of the list, and nothing else.   *)
LEMMA AllocateKeeps ==
    ASSUME NEW list, Sorted(list), NEW n \in Nat \ {0}, Fitting(list, n) # {},
           NEW got, got = Block(list[Min(Fitting(list, n))].address, n)
    PROVE  /\ Sorted(allocate(list, n))
           /\ got \in FreeBlock /\ Bytes(got) \subseteq Listed(list)
           /\ Listed(allocate(list, n)) = Listed(list) \ Bytes(got)
<1> DEFINE i == Min(Fitting(list, n))
           b == list[i]
           rest == Block(b.address + n, b.size - n)
<1>1. list \in Seq(FreeBlock) /\ Len(list) \in Nat /\ \A k \in 1 .. Len(list) : list[k] \in FreeBlock
  BY ListBlocks
<1>2. i \in 1 .. Len(list) /\ b.size >= n
  <2>1. Fitting(list, n) \in SUBSET Nat /\ Fitting(list, n) \subseteq 1 .. Len(list)
    BY <1>1 DEF Fitting
  <2>2. i \in Fitting(list, n)
    BY <2>1, LeastExists
  <2> QED BY <2>1, <2>2 DEF Fitting
<1>3. allocate(list, n) = IF b.size > n THEN ReplaceAt(list, i, rest) ELSE RemoveAt(list, i)
  BY DEF allocate
<1>4. got = Block(b.address, n)
  OBVIOUS
<1> HIDE DEF i, b
<1>5. b = list[i] /\ b \in FreeBlock
  BY <1>1, <1>2 DEF b
<1>6. b.address \in Nat /\ b.size \in Nat \ {0} /\ End(b) = b.address + b.size /\ End(b) \in Nat
  BY <1>5, BlockBytes DEF End
<1>7. got \in FreeBlock /\ got.address = b.address /\ End(got) = b.address + n
  <2>1. b.address \in Nat
    BY <1>6
  <2>2. /\ Block(b.address, n) \in FreeBlock /\ Block(b.address, n).address = b.address
        /\ End(Block(b.address, n)) = b.address + n
    BY <2>1, BlockOf
  <2> QED BY <2>2, <1>4
<1>8. Bytes(b) \subseteq Listed(list)
  BY <1>1, <1>2, <1>5, ListedBytes
<1>9. Bytes(got) \subseteq Bytes(b)
  BY <1>2, <1>5, <1>6, <1>7, BlockBytes
<1>10. CASE b.size > n
  <2>1. rest \in FreeBlock /\ rest.address = b.address + n /\ End(rest) = End(b)
    <3>1. b.address + n \in Nat /\ b.size - n \in Nat \ {0} /\ (b.address + n) + (b.size - n) = End(b)
      BY <1>6, <1>10
    <3> QED BY <3>1, BlockOf
  <2> HIDE DEF rest
  <2>2. i > 1 => End(list[i - 1]) < rest.address
    <3> SUFFICES ASSUME i > 1 PROVE End(list[i - 1]) < rest.address
      OBVIOUS
    <3>1. i - 1 \in 1 .. Len(list) /\ i - 1 < i
      BY <1>1, <1>2
    <3>2. End(list[i - 1]) < b.address /\ End(list[i - 1]) \in Nat
      BY <3>1, <1>1, <1>2, <1>5, BlockBytes DEF Sorted
    <3> QED BY <3>2, <2>1, <1>6
  <2>3. i < Len(list) => End(rest) < list[i + 1].address
    <3> SUFFICES ASSUME i < Len(list) PROVE End(rest) < list[i + 1].address
      OBVIOUS
    <3>1. i + 1 \in 1 .. Len(list) /\ i < i + 1
      BY <1>1, <1>2
    <3> QED BY <3>1, <2>1, <1>2, <1>5 DEF Sorted
  <2>4. /\ Sorted(ReplaceAt(list, i, rest))
        /\ Listed(ReplaceAt(list, i, rest)) = (Listed(list) \ Bytes(list[i])) \cup Bytes(rest)
    BY <2>1, <2>2, <2>3, <1>2, ReplaceSorted
  <2>5. Bytes(rest) = Bytes(b) \ Bytes(got)
    <3>1. Bytes(rest) \subseteq Nat /\ Bytes(b) \subseteq Nat
      BY <2>1, <1>5, BlockBytes
    <3>2. \A x \in Nat : x \in Bytes(rest) <=> x \in Bytes(b) /\ x \notin Bytes(got)
      BY <2>1, <1>5, <1>6, <1>7, BlockBytes
    <3> QED BY <3>1, <3>2
  <2>6. (Listed(list) \ Bytes(list[i])) \cup Bytes(rest) = Listed(list) \ Bytes(got)
    BY <2>5, <1>5, <1>8, <1>9
  <2> QED BY <2>4, <2>6, <1>3, <1>7, <1>8, <1>9, <1>10
<1>11. CASE ~(b.size > n)
  <2>1. got = b
    <3>1. b.size = n
      BY <1>2, <1>6, <1>11
    <3> QED BY <3>1, <1>4, <1>5 DEF Block, FreeBlock
  <2>2. Sorted(RemoveAt(list, i)) /\ Listed(RemoveAt(list, i)) = Listed(list) \ Bytes(list[i])
    BY <1>2, RemoveSorted
  <2> QED BY <2>1, <2>2, <1>3, <1>5, <1>7, <1>8, <1>11
<1> QED BY <1>10, <1>11

-----------------------------------------------------------------------------
(* free: blocks that are apart come one after the other.                   *)
LEMMA ApartBlocks ==
    ASSUME NEW a \in FreeBlock, NEW b \in FreeBlock, Bytes(a) \cap Bytes(b) = {}
    PROVE  End(a) <= b.address \/ End(b) <= a.address
<1>1. /\ a.address \in Nat /\ b.address \in Nat /\ a.address < End(a) /\ b.address < End(b)
      /\ End(a) \in Nat /\ End(b) \in Nat
  BY BlockBytes
<1>2. ~(a.address \in Bytes(b)) \/ ~(a.address \in Bytes(a))
  OBVIOUS
<1>3. ~(b.address \in Bytes(b)) \/ ~(b.address \in Bytes(a))
  OBVIOUS
<1> QED BY <1>1, <1>2, <1>3, BlockBytes

(* Neighbours that are merged have the bytes of both.                      *)
LEMMA Merged ==
    ASSUME NEW a \in FreeBlock, NEW b \in FreeBlock, End(a) = b.address
    PROVE  /\ Block(a.address, a.size + b.size) \in FreeBlock
           /\ Block(a.address, a.size + b.size).address = a.address
           /\ Block(a.address, a.size + b.size).size = a.size + b.size
           /\ End(Block(a.address, a.size + b.size)) = End(b)
           /\ Bytes(Block(a.address, a.size + b.size)) = Bytes(a) \cup Bytes(b)
<1> DEFINE c == Block(a.address, a.size + b.size)
<1>1. /\ a.address \in Nat /\ b.address \in Nat /\ a.size \in Nat \ {0} /\ b.size \in Nat \ {0}
      /\ End(a) = a.address + a.size /\ End(b) = b.address + b.size
      /\ a.address + a.size = b.address
  BY BlockBytes DEF End
<1>2. a.size + b.size \in Nat \ {0} /\ a.address + (a.size + b.size) = End(b)
  <2>1. a.address + (a.size + b.size) = (a.address + a.size) + b.size
    BY <1>1
  <2>2. a.size + b.size \in Nat \ {0}
    BY <1>1
  <2>3. (a.address + a.size) + b.size = End(b)
    BY <1>1
  <2> QED BY <2>1, <2>2, <2>3
<1>3. c \in FreeBlock /\ c.address = a.address /\ c.size = a.size + b.size /\ End(c) = End(b)
  BY <1>1, <1>2, BlockOf
<1> HIDE DEF c
<1>4. Bytes(c) \subseteq Nat /\ Bytes(a) \subseteq Nat /\ Bytes(b) \subseteq Nat
  BY <1>3, BlockBytes
<1>5. \A x \in Nat : x \in Bytes(c) <=> x \in Bytes(a) \/ x \in Bytes(b)
  <2> TAKE x \in Nat
  <2>1. x \in Bytes(c) <=> a.address <= x /\ x < End(b)
    BY <1>3, BlockBytes
  <2>2. /\ x \in Bytes(a) <=> a.address <= x /\ x < b.address
        /\ x \in Bytes(b) <=> b.address <= x /\ x < End(b)
    BY BlockBytes
  <2>3. a.address < b.address /\ b.address < End(b) /\ End(b) \in Nat
    BY <1>1, BlockBytes
  <2> QED BY <2>1, <2>2, <2>3, <1>1
<1>6. Bytes(c) = Bytes(a) \cup Bytes(b)
  BY <1>4, <1>5
<1> QED BY <1>3, <1>6 DEF c

(* A block that is apart from all of a list has a place in it.             *)
LEMMA GapExists ==
    ASSUME NEW list, Sorted(list), Len(list) > 0, NEW b \in FreeBlock, Bytes(b) \cap Listed(list) = {},
           ~(End(b) <= list[1].address), ~(b.address >= End(list[Len(list)]))
    PROVE  Gaps(list, b) # {}
<1> DEFINE n == Len(list)
           later == {j \in 1 .. n : list[j].address > b.address}
<1>1. /\ list \in Seq(FreeBlock) /\ n \in Nat /\ n > 0 /\ \A k \in 1 .. n : list[k] \in FreeBlock
      /\ b.address \in Nat /\ End(b) \in Nat /\ b.address < End(b)
  BY ListBlocks, BlockBytes
<1>2. ASSUME NEW k \in 1 .. n
      PROVE  /\ End(list[k]) <= b.address \/ End(b) <= list[k].address
             /\ list[k].address \in Nat /\ End(list[k]) \in Nat /\ list[k].address < End(list[k])
  <2>1. Bytes(list[k]) \subseteq Listed(list)
    BY <1>1, ListedBytes
  <2>2. Bytes(list[k]) \cap Bytes(b) = {} /\ list[k] \in FreeBlock
    BY <2>1, <1>1
  <2> QED BY <2>2, ApartBlocks, BlockBytes
<1>3. n \in later
  <2>1. n \in 1 .. n
    BY <1>1
  <2> QED BY <2>1, <1>1, <1>2
<1>4. 1 \notin later
  <2>1. 1 \in 1 .. n
    BY <1>1
  <2> QED BY <2>1, <1>1, <1>2
<1>5. later \in SUBSET Nat /\ later \subseteq 1 .. n
  BY <1>1
<1>6. PICK j \in later : \A k \in later : j <= k
  <2>1. later # {}
    BY <1>3
  <2> HIDE DEF later
  <2> QED BY <2>1, <1>5, LeastExists
<1>7. j \in 1 .. n /\ j - 1 \in 1 .. n - 1 /\ j - 1 \in 1 .. n /\ (j - 1) + 1 = j
  BY <1>1, <1>4, <1>5, <1>6
<1>8. End(b) <= list[j].address
  BY <1>1, <1>2, <1>6, <1>7
<1>9. End(list[j - 1]) <= b.address
  <2>1. j - 1 \notin later
    BY <1>6, <1>7
  <2>2. ~(list[j - 1].address > b.address)
    BY <2>1, <1>7
  <2> QED BY <2>2, <1>1, <1>2, <1>7
<1>10. j - 1 \in Gaps(list, b)
  <2>1. End(list[j - 1]) \in Nat
    BY <1>2, <1>7
  <2> QED BY <2>1, <1>1, <1>7, <1>8, <1>9 DEF Gaps
<1> QED BY <1>10

(* Removing one of two neighbours and replacing the other, in any order.   *)
LEMMA ReplaceRemove ==
    ASSUME NEW list, Sorted(list), NEW i \in 1 .. Len(list) - 1, NEW e \in FreeBlock
    PROVE  RemoveAt(ReplaceAt(list, i + 1, e), i) = ReplaceAt(RemoveAt(list, i), i, e)
<1> DEFINE n == Len(list)
           r == ReplaceAt(list, i + 1, e)
           m == RemoveAt(list, i)
           a == RemoveAt(r, i)
           b == ReplaceAt(m, i, e)
<1>1. list \in Seq(FreeBlock) /\ n \in Nat /\ i \in 1 .. n /\ i + 1 \in 1 .. n /\ i \in 1 .. n - 1
  BY ListBlocks
<1>2. /\ r \in Seq(FreeBlock) /\ Len(r) = n
      /\ \A k \in 1 .. n : r[k] = IF k = i + 1 THEN e ELSE list[k]
  BY <1>1, Replaced
<1>3. /\ m \in Seq(FreeBlock) /\ Len(m) = n - 1
      /\ \A k \in 1 .. n - 1 : m[k] = IF k < i THEN list[k] ELSE list[k + 1]
  BY <1>1, Removed
<1> HIDE DEF r, m, n
<1>4. /\ a \in Seq(FreeBlock) /\ Len(a) = n - 1
      /\ \A k \in 1 .. n - 1 : a[k] = IF k < i THEN r[k] ELSE r[k + 1]
  BY <1>1, <1>2, Removed
<1>5. /\ b \in Seq(FreeBlock) /\ Len(b) = n - 1
      /\ \A k \in 1 .. n - 1 : b[k] = IF k = i THEN e ELSE m[k]
  BY <1>1, <1>3, Replaced
<1> HIDE DEF a, b
<1>6. ASSUME NEW k \in 1 .. n - 1 PROVE a[k] = b[k]
  <2>1. k \in 1 .. n /\ k + 1 \in 1 .. n
    BY <1>1
  <2>2. CASE k < i
    BY <2>1, <2>2, <1>1, <1>2, <1>3, <1>4, <1>5
  <2>3. CASE k = i
    BY <2>1, <2>3, <1>1, <1>2, <1>4, <1>5
  <2>4. CASE i < k
    <3>1. a[k] = list[k + 1]
      BY <2>1, <2>4, <1>1, <1>2, <1>4
    <3>2. b[k] = list[k + 1]
      BY <2>1, <2>4, <1>1, <1>3, <1>5
    <3> QED BY <3>1, <3>2
  <2> QED BY <2>2, <2>3, <2>4, <1>1
<1>7. a = b
  BY <1>4, <1>5, <1>6
<1> QED BY <1>7 DEF a, b, r, m

(* A block that fits in a gap is merged with the neighbours it meets.      *)
LEMMA InGapKeeps ==
    ASSUME NEW list, Sorted(list), NEW b \in FreeBlock, NEW i \in Gaps(list, b)
    PROVE  Sorted(InGap(list, i, b)) /\ Listed(InGap(list, i, b)) = Listed(list) \cup Bytes(b)
<1> DEFINE prev == list[i]
           next == list[i + 1]
           meetsPrev == b.address = End(prev)
           meetsNext == End(b) = next.address
<1>1. /\ list \in Seq(FreeBlock) /\ Len(list) \in Nat /\ \A k \in 1 .. Len(list) : list[k] \in FreeBlock
      /\ \A k, l \in 1 .. Len(list) : k # l => Bytes(list[k]) \cap Bytes(list[l]) = {}
  BY ListBlocks
<1>2. /\ i \in 1 .. Len(list) - 1 /\ i \in 1 .. Len(list) /\ i + 1 \in 1 .. Len(list)
      /\ b.address >= End(prev) /\ End(b) <= next.address
  BY <1>1 DEF Gaps
<1>3. /\ prev \in FreeBlock /\ next \in FreeBlock
      /\ prev.address \in Nat /\ next.address \in Nat /\ b.address \in Nat
      /\ End(prev) \in Nat /\ End(next) \in Nat /\ End(b) \in Nat
      /\ prev.address < End(prev) /\ next.address < End(next) /\ b.address < End(b)
  BY <1>1, <1>2, BlockBytes
<1>4. Bytes(prev) \subseteq Listed(list) /\ Bytes(next) \subseteq Listed(list)
  BY <1>1, <1>2, ListedBytes
<1>5. i > 1 => End(list[i - 1]) < prev.address
  <2> SUFFICES ASSUME i > 1 PROVE End(list[i - 1]) < prev.address
    OBVIOUS
  <2>1. i - 1 \in 1 .. Len(list) /\ i - 1 < i
    BY <1>2
  <2> QED BY <2>1, <1>2 DEF Sorted
<1>6. i + 1 < Len(list) => End(next) < list[(i + 1) + 1].address
  <2> SUFFICES ASSUME i + 1 < Len(list) PROVE End(next) < list[(i + 1) + 1].address
    OBVIOUS
  <2>1. (i + 1) + 1 \in 1 .. Len(list) /\ i + 1 < (i + 1) + 1
    BY <1>1, <1>2
  <2> QED BY <2>1, <1>2 DEF Sorted
<1>7. (i + 1) - 1 = i /\ i + 1 > 1 /\ i < Len(list)
  BY <1>1, <1>2
<1>8. CASE meetsPrev /\ meetsNext
  <2> DEFINE pb == Block(prev.address, prev.size + b.size)
             e == Block(prev.address, prev.size + b.size + next.size)
             m == RemoveAt(list, i)
  <2>1. /\ pb \in FreeBlock /\ pb.address = prev.address /\ pb.size = prev.size + b.size
        /\ End(pb) = End(b) /\ Bytes(pb) = Bytes(prev) \cup Bytes(b)
    BY <1>3, <1>8, Merged
  <2>2. /\ Block(pb.address, pb.size + next.size) \in FreeBlock
        /\ Block(pb.address, pb.size + next.size).address = pb.address
        /\ End(Block(pb.address, pb.size + next.size)) = End(next)
        /\ Bytes(Block(pb.address, pb.size + next.size)) = Bytes(pb) \cup Bytes(next)
    <3> HIDE DEF pb
    <3>1. End(pb) = next.address
      BY <2>1, <1>8
    <3> QED BY <3>1, <2>1, <1>3, Merged
  <2>3. e = Block(pb.address, pb.size + next.size)
    BY <2>1
  <2>4. /\ e \in FreeBlock /\ e.address = prev.address /\ End(e) = End(next)
        /\ Bytes(e) = Bytes(prev) \cup Bytes(b) \cup Bytes(next)
    BY <2>1, <2>2, <2>3
  <2>5. InGap(list, i, b) = RemoveAt(ReplaceAt(list, i + 1, e), i)
    BY <1>8 DEF InGap
  <2> HIDE DEF pb, e
  <2>6. InGap(list, i, b) = ReplaceAt(m, i, e)
    BY <2>4, <2>5, <1>2, ReplaceRemove
  <2>7. /\ Sorted(m) /\ Listed(m) = Listed(list) \ Bytes(prev)
        /\ Len(m) = Len(list) - 1
        /\ \A k \in 1 .. Len(list) - 1 : m[k] = IF k < i THEN list[k] ELSE list[k + 1]
    BY <1>1, <1>2, RemoveSorted, Removed
  <2> HIDE DEF m
  <2>8. i \in 1 .. Len(m) /\ m[i] = next
    BY <2>7, <1>1, <1>2
  <2>9. i > 1 => End(m[i - 1]) < e.address
    <3> SUFFICES ASSUME i > 1 PROVE End(m[i - 1]) < e.address
      OBVIOUS
    <3>1. i - 1 \in 1 .. Len(list) - 1 /\ i - 1 < i
      BY <1>1, <1>2
    <3>2. m[i - 1] = list[i - 1]
      BY <3>1, <2>7
    <3> QED BY <3>2, <2>4, <1>5
  <2>10. i < Len(m) => End(e) < m[i + 1].address
    <3> SUFFICES ASSUME i < Len(m) PROVE End(e) < m[i + 1].address
      OBVIOUS
    <3>1. i + 1 \in 1 .. Len(list) - 1 /\ ~(i + 1 < i) /\ i + 1 < Len(list)
      BY <2>7, <1>1, <1>2
    <3>2. m[i + 1] = list[(i + 1) + 1]
      BY <3>1, <2>7
    <3> QED BY <3>1, <3>2, <2>4, <1>6
  <2>11. /\ Sorted(ReplaceAt(m, i, e))
         /\ Listed(ReplaceAt(m, i, e)) = (Listed(m) \ Bytes(m[i])) \cup Bytes(e)
    BY <2>4, <2>7, <2>8, <2>9, <2>10, ReplaceSorted
  <2>12. (Listed(m) \ Bytes(m[i])) \cup Bytes(e) = Listed(list) \cup Bytes(b)
    BY <2>4, <2>7, <2>8, <1>4
  <2> QED BY <2>6, <2>11, <2>12
<1>9. CASE meetsPrev /\ ~meetsNext
  <2> DEFINE e == Block(prev.address, prev.size + b.size)
  <2>1. e \in FreeBlock /\ e.address = prev.address /\ End(e) = End(b) /\ Bytes(e) = Bytes(prev) \cup Bytes(b)
    BY <1>3, <1>9, Merged
  <2>2. InGap(list, i, b) = ReplaceAt(list, i, e)
    BY <1>9 DEF InGap
  <2> HIDE DEF e
  <2>3. End(e) < list[i + 1].address
    BY <2>1, <1>2, <1>3, <1>9
  <2>4. /\ Sorted(ReplaceAt(list, i, e))
        /\ Listed(ReplaceAt(list, i, e)) = (Listed(list) \ Bytes(list[i])) \cup Bytes(e)
    BY <2>1, <2>3, <1>2, <1>5, ReplaceSorted
  <2>5. (Listed(list) \ Bytes(list[i])) \cup Bytes(e) = Listed(list) \cup Bytes(b)
    BY <2>1, <1>4
  <2> QED BY <2>2, <2>4, <2>5
<1>10. CASE ~meetsPrev /\ meetsNext
  <2> DEFINE e == Block(b.address, b.size + next.size)
  <2>1. e \in FreeBlock /\ e.address = b.address /\ End(e) = End(next) /\ Bytes(e) = Bytes(b) \cup Bytes(next)
    BY <1>3, <1>10, Merged
  <2>2. InGap(list, i, b) = ReplaceAt(list, i + 1, e)
    BY <1>10 DEF InGap
  <2> HIDE DEF e
  <2>3. End(list[(i + 1) - 1]) < e.address
    BY <2>1, <1>2, <1>3, <1>7, <1>10
  <2>4. i + 1 < Len(list) => End(e) < list[(i + 1) + 1].address
    BY <2>1, <1>6
  <2>5. /\ Sorted(ReplaceAt(list, i + 1, e))
        /\ Listed(ReplaceAt(list, i + 1, e)) = (Listed(list) \ Bytes(list[i + 1])) \cup Bytes(e)
    BY <2>1, <2>3, <2>4, <1>2, ReplaceSorted
  <2>6. (Listed(list) \ Bytes(list[i + 1])) \cup Bytes(e) = Listed(list) \cup Bytes(b)
    BY <2>1, <1>4
  <2> QED BY <2>2, <2>5, <2>6
<1>11. CASE ~meetsPrev /\ ~meetsNext
  <2>1. InGap(list, i, b) = InsertAt(list, i + 1, b)
    BY <1>11 DEF InGap
  <2>2. End(list[(i + 1) - 1]) < b.address /\ End(b) < list[i + 1].address
    BY <1>2, <1>3, <1>7, <1>11
  <2> QED BY <2>1, <2>2, <1>2, InsertSorted
<1> QED BY <1>8, <1>9, <1>10, <1>11

(* free adds the block to the list, and nothing else.                      *)
LEMMA FreeKeeps ==
    ASSUME NEW list, Sorted(list), NEW b \in FreeBlock, Bytes(b) \cap Listed(list) = {}
    PROVE  Sorted(free(list, b)) /\ Listed(free(list, b)) = Listed(list) \cup Bytes(b)
<1> DEFINE n == Len(list)
           first == list[1]
           last == list[n]
<1>1. list \in Seq(FreeBlock) /\ n \in Nat /\ \A k \in 1 .. n : list[k] \in FreeBlock
  BY ListBlocks
<1>2. CASE list = <<>>
  <2>1. free(list, b) = Append(list, b) /\ ~(Len(list) > 0)
    BY <1>2 DEF free
  <2> QED BY <2>1, AppendSorted
<1>3. CASE list # <<>>
  <2>1. n > 0 /\ 1 \in 1 .. n /\ n \in 1 .. n /\ Head(list) = first /\ Last(list) = last
    BY <1>1, <1>3 DEF Last
  <2>2. /\ first \in FreeBlock /\ last \in FreeBlock
        /\ first.address \in Nat /\ End(last) \in Nat /\ b.address \in Nat /\ End(b) \in Nat
    BY <1>1, <2>1, BlockBytes
  <2>3. Bytes(first) \subseteq Listed(list) /\ Bytes(last) \subseteq Listed(list)
    BY <1>1, <2>1, ListedBytes
  <2>4. CASE End(b) = first.address
    <3> DEFINE e == Block(b.address, b.size + first.size)
    <3>1. e \in FreeBlock /\ End(e) = End(first) /\ Bytes(e) = Bytes(b) \cup Bytes(first)
      BY <2>2, <2>4, Merged
    <3>2. free(list, b) = ReplaceAt(list, 1, e)
      BY <1>3, <2>1, <2>2, <2>4 DEF free
    <3> HIDE DEF e
    <3>3. 1 < Len(list) => End(e) < list[1 + 1].address
      <4> SUFFICES ASSUME 1 < n PROVE End(e) < list[1 + 1].address
        OBVIOUS
      <4>1. 1 + 1 \in 1 .. n /\ 1 < 1 + 1
        BY <1>1
      <4> QED BY <4>1, <3>1, <2>1 DEF Sorted
    <3>4. /\ Sorted(ReplaceAt(list, 1, e))
          /\ Listed(ReplaceAt(list, 1, e)) = (Listed(list) \ Bytes(list[1])) \cup Bytes(e)
      BY <3>1, <3>3, <2>1, ReplaceSorted
    <3>5. (Listed(list) \ Bytes(list[1])) \cup Bytes(e) = Listed(list) \cup Bytes(b)
      BY <3>1, <2>3
    <3> QED BY <3>2, <3>4, <3>5
  <2>5. CASE End(b) < first.address
    <3>1. free(list, b) = Cons(b, list)
      BY <1>3, <2>1, <2>2, <2>5 DEF free
    <3>2. free(list, b) = InsertAt(list, 1, b)
      BY <3>1, <1>3, ConsIsInsert
    <3> QED BY <3>2, <2>1, <2>5, InsertSorted
  <2>6. CASE ~(End(b) <= first.address) /\ b.address = End(last)
    <3> DEFINE e == Block(last.address, last.size + b.size)
    <3>1. e \in FreeBlock /\ e.address = last.address /\ Bytes(e) = Bytes(last) \cup Bytes(b)
      BY <2>2, <2>6, Merged
    <3>2. free(list, b) = ReplaceAt(list, n, e)
      BY <1>3, <2>1, <2>2, <2>6 DEF free
    <3> HIDE DEF e
    <3>3. n > 1 => End(list[n - 1]) < e.address
      <4> SUFFICES ASSUME n > 1 PROVE End(list[n - 1]) < e.address
        OBVIOUS
      <4>1. n - 1 \in 1 .. n /\ n - 1 < n
        BY <1>1
      <4> QED BY <4>1, <3>1, <2>1 DEF Sorted
    <3>4. /\ Sorted(ReplaceAt(list, n, e))
          /\ Listed(ReplaceAt(list, n, e)) = (Listed(list) \ Bytes(list[n])) \cup Bytes(e)
      BY <3>1, <3>3, <2>1, <1>1, ReplaceSorted
    <3>5. (Listed(list) \ Bytes(list[n])) \cup Bytes(e) = Listed(list) \cup Bytes(b)
      BY <3>1, <2>3
    <3> QED BY <3>2, <3>4, <3>5
  <2>7. CASE ~(End(b) <= first.address) /\ b.address > End(last)
    <3>1. free(list, b) = Append(list, b)
      BY <1>3, <2>1, <2>2, <2>7 DEF free
    <3> QED BY <3>1, <2>2, <2>7, AppendSorted
  <2>8. CASE ~(End(b) <= first.address) /\ b.address < End(last)
    <3>1. Gaps(list, b) # {}
      BY <2>1, <2>2, <2>8, GapExists
    <3>2. free(list, b) = InGap(list, Min(Gaps(list, b)), b)
      BY <3>1, <1>3, <2>1, <2>2, <2>8 DEF free
    <3>3. Gaps(list, b) \in SUBSET Nat
      BY <1>1 DEF Gaps
    <3>4. Min(Gaps(list, b)) \in Gaps(list, b)
      BY <3>1, <3>3, LeastExists
    <3> QED BY <3>2, <3>4, InGapKeeps
  <2> QED BY <2>2, <2>4, <2>5, <2>6, <2>7, <2>8
<1> QED BY <1>2, <1>3

-----------------------------------------------------------------------------
(* return_reserved goes through the list once: what a fold on the library's *)
(* terms returns is what a walk along the list returns.                    *)
Walk(it, list, base, n) ==
    it = [s \in SUBSET (1 .. n) |-> IF s = {} THEN base ELSE ReturnFrom(it[s \ {Max(s)}], list[Max(s)])]

LEMMA GreatestIs ==
    ASSUME NEW n \in Nat, NEW s \in SUBSET (1 .. n), n \in s
    PROVE  Max(s) = n
<1>1. \A y \in s : n >= y
  OBVIOUS
<1>2. \A x \in s : (\A y \in s : x >= y) => x = n
  OBVIOUS
<1> QED BY <1>1, <1>2 DEF Max

LEMMA WalkExists ==
    ASSUME NEW list, NEW base, NEW n \in Nat
    PROVE  \E it : Walk(it, list, base, n)
<1> DEFINE Without == {k \in Nat : ~\E it : Walk(it, list, base, k)}
<1>1. ASSUME Without # {} PROVE FALSE
  <2>1. PICK k \in Without : \A j \in Without : k <= j
    <3>1. Without \in SUBSET Nat
      OBVIOUS
    <3> HIDE DEF Without
    <3> QED BY <1>1, <3>1, LeastExists
  <2>2. CASE k = 0
    <3> DEFINE it == [s \in SUBSET (1 .. 0) |-> base]
    <3>1. SUBSET (1 .. 0) = {{}}
      OBVIOUS
    <3>2. Walk(it, list, base, 0)
      BY <3>1 DEF Walk
    <3> QED BY <2>1, <2>2, <3>2
  <2>3. CASE k # 0
    <3>1. k - 1 \in Nat /\ k - 1 \notin Without
      BY <2>1, <2>3
    <3>2. PICK g : Walk(g, list, base, k - 1)
      BY <3>1
    <3> DEFINE it == [s \in SUBSET (1 .. k) |-> IF k \in s THEN ReturnFrom(g[s \ {k}], list[k]) ELSE g[s]]
    <3>3. \A s \in SUBSET (1 .. k) : s \ {k} \in SUBSET (1 .. k - 1) /\ (k \notin s => s \in SUBSET (1 .. k - 1))
      BY <2>1, <2>3
    <3>4. \A s \in SUBSET (1 .. k - 1) : /\ s \in SUBSET (1 .. k) /\ k \notin s /\ it[s] = g[s]
                                         /\ g[s] = IF s = {} THEN base ELSE ReturnFrom(g[s \ {Max(s)}], list[Max(s)])
      <4>1. \A s \in SUBSET (1 .. k - 1) : s \in SUBSET (1 .. k) /\ k \notin s
        BY <2>1, <2>3
      <4>2. \A s \in SUBSET (1 .. k - 1) : g[s] = IF s = {} THEN base ELSE ReturnFrom(g[s \ {Max(s)}], list[Max(s)])
        BY <3>2 DEF Walk
      <4> QED BY <4>1, <4>2
    <3>5. \A s \in SUBSET (1 .. k) : k \in s => it[s] = ReturnFrom(g[s \ {k}], list[k]) /\ Max(s) = k
      BY <2>1, GreatestIs
    <3>6. \A s \in SUBSET (1 .. k) : it[s] = IF s = {} THEN base ELSE ReturnFrom(it[s \ {Max(s)}], list[Max(s)])
      <4> HIDE DEF it
      <4> TAKE s \in SUBSET (1 .. k)
      <4>1. CASE k \in s
        <5>1. it[s \ {k}] = g[s \ {k}]
          BY <3>3, <3>4
        <5> QED BY <4>1, <5>1, <3>5
      <4>2. CASE k \notin s
        <5>1. s \ {Max(s)} \in SUBSET (1 .. k - 1) /\ s \in SUBSET (1 .. k - 1)
          BY <3>3, <4>2
        <5> QED BY <5>1, <3>4
      <4> QED BY <4>1, <4>2
    <3>7. it = [s \in SUBSET (1 .. k) |-> it[s]]
      OBVIOUS
    <3> HIDE DEF it
    <3>8. Walk(it, list, base, k)
      BY <3>6, <3>7 DEF Walk
    <3> QED BY <2>1, <3>8
  <2> QED BY <2>2, <2>3
<1> QED BY <1>1

LEMMA FoldIsWalk ==
    ASSUME NEW list \in Seq(FreeBlock), NEW base
    PROVE  \E it : Walk(it, list, base, Len(list)) /\ FoldLeft(ReturnFrom, base, list) = it[1 .. Len(list)]
<1> DEFINE it == CHOOSE it : Walk(it, list, base, Len(list))
<1>1. Walk(it, list, base, Len(list))
  <2>1. Len(list) \in Nat
    OBVIOUS
  <2> QED BY <2>1, WalkExists
<1>2. FoldLeft(ReturnFrom, base, list) = it[1 .. Len(list)]
  <2>1. DOMAIN list = 1 .. Len(list)
    OBVIOUS
  <2> QED BY <2>1, Zenon DEF FoldLeft, MapThenFoldSet, Walk
<1> QED BY <1>1, <1>2
-----------------------------------------------------------------------------
(* What is left of a block is listed after what comes before it.           *)
Below(list, a) == \A k \in 1 .. Len(list) : End(list[k]) < a

LEMMA AppendStretch ==
    ASSUME NEW list, Sorted(list), NEW from \in Nat, NEW to \in Nat, from <= to, Below(list, from)
    PROVE  /\ Sorted(list \o Stretch(from, to))
           /\ Listed(list \o Stretch(from, to)) = Listed(list) \cup (from .. to - 1)
           /\ \A y \in Nat : to < y => Below(list \o Stretch(from, to), y)
<1>1. list \in Seq(FreeBlock) /\ Len(list) \in Nat /\ \A k \in 1 .. Len(list) : list[k] \in FreeBlock /\ End(list[k]) \in Nat
  BY ListBlocks, BlockBytes
<1>2. CASE from = to
  <2>1. list \o Stretch(from, to) = list /\ from .. to - 1 = {}
    BY <1>1, <1>2 DEF Stretch
  <2>2. \A y \in Nat : to < y => Below(list, y)
    BY <1>1, <1>2 DEF Below
  <2> QED BY <2>1, <2>2
<1>3. CASE from < to
  <2> DEFINE e == Block(from, to - from)
  <2>1. e \in FreeBlock /\ e.address = from /\ End(e) = to /\ Bytes(e) = from .. to - 1
    <3>1. to - from \in Nat \ {0} /\ from + (to - from) = to
      BY <1>3
    <3> QED BY <3>1, BlockOf DEF Bytes
  <2>2. list \o Stretch(from, to) = Append(list, e)
    <3>1. Stretch(from, to) = <<e>>
      BY <1>3 DEF Stretch
    <3> HIDE DEF e
    <3>2. list \o <<e>> = Append(list, e)
      BY <1>1, <2>1
    <3> QED BY <3>1, <3>2
  <2> HIDE DEF e
  <2>3. Sorted(Append(list, e)) /\ Listed(Append(list, e)) = Listed(list) \cup Bytes(e)
    <3>1. Len(list) > 0 => End(list[Len(list)]) < e.address
      BY <1>1, <2>1 DEF Below
    <3> QED BY <3>1, <2>1, AppendSorted
  <2>4. ASSUME NEW y \in Nat, to < y PROVE Below(Append(list, e), y)
    <3>1. /\ Len(Append(list, e)) = Len(list) + 1
          /\ \A k \in 1 .. Len(list) + 1 : Append(list, e)[k] = IF k <= Len(list) THEN list[k] ELSE e
      BY <1>1, <2>1, Appended
    <3>2. \A k \in 1 .. Len(list) : End(list[k]) < y
      BY <1>1, <1>3, <2>4 DEF Below
    <3>3. End(e) < y
      BY <2>1, <2>4
    <3> QED BY <3>1, <3>2, <3>3, <1>1 DEF Below
  <2> QED BY <2>1, <2>2, <2>3, <2>4
<1> QED BY <1>2, <1>3

LEMMA Joined ==
    ASSUME NEW list \in Seq(FreeBlock), NEW s \in Seq(FreeBlock), NEW t \in Seq(FreeBlock)
    PROVE  list \o (s \o t) = (list \o s) \o t
<1>1. s \in Seq(FreeBlock) /\ t \in Seq(FreeBlock) /\ Len(s) \in Nat /\ Len(t) \in Nat /\ Len(list) \in Nat
  OBVIOUS
<1>2. /\ s \o t \in Seq(FreeBlock) /\ Len(s \o t) = Len(s) + Len(t)
      /\ \A k \in 1 .. Len(s) + Len(t) : (s \o t)[k] = IF k <= Len(s) THEN s[k] ELSE t[k - Len(s)]
  BY <1>1
<1>3. /\ list \o s \in Seq(FreeBlock) /\ Len(list \o s) = Len(list) + Len(s)
      /\ \A k \in 1 .. Len(list) + Len(s) : (list \o s)[k] = IF k <= Len(list) THEN list[k] ELSE s[k - Len(list)]
  BY <1>1
<1> DEFINE x == list \o (s \o t)
           y == (list \o s) \o t
<1>4. /\ x \in Seq(FreeBlock) /\ Len(x) = Len(list) + Len(s) + Len(t)
      /\ y \in Seq(FreeBlock) /\ Len(y) = Len(list) + Len(s) + Len(t)
  <2>1. x \in Seq(FreeBlock) /\ Len(x) = Len(list) + Len(s \o t)
    BY <1>1, <1>2
  <2>2. y \in Seq(FreeBlock) /\ Len(y) = Len(list \o s) + Len(t)
    BY <1>1, <1>3
  <2> HIDE DEF x, y
  <2> QED BY <2>1, <2>2, <1>1, <1>2, <1>3
<1>5. ASSUME NEW k \in 1 .. Len(list) + Len(s) + Len(t) PROVE x[k] = y[k]
  <2>1. CASE k <= Len(list)
    BY <2>1, <1>1, <1>2, <1>3
  <2>2. CASE k > Len(list) /\ k <= Len(list) + Len(s)
    BY <2>2, <1>1, <1>2, <1>3
  <2>3. CASE k > Len(list) + Len(s)
    BY <2>3, <1>1, <1>2, <1>3
  <2> QED BY <2>1, <2>2, <2>3, <1>1
<1>6. x = y
  <2> HIDE DEF x, y
  <2> QED BY <1>1, <1>4, <1>5
<1> QED BY <1>6

(* A block gives back a chunk only if it covers it.                        *)
LEMMA CoveredChunk ==
    ASSUME NEW map \in SUBSET FreeBlock, NEW b \in FreeBlock, NEW c \in lower_bound(map, b.address),
           End(c) <= End(b)
    PROVE  c \in map /\ c \in FreeBlock /\ b.address <= c.address /\ Bytes(c) \subseteq Bytes(b)
<1> DEFINE later == {d.address : d \in {e \in map : e.address >= b.address}}
<1>1. c \in map /\ c \in FreeBlock /\ later # {} /\ c.address = Min(later)
  BY DEF lower_bound
<1>2. \A x \in later : x \in Nat /\ b.address <= x
  BY DEF FreeBlock
<1>3. Min(later) \in later
  <2>1. later \in SUBSET Nat
    BY <1>2
  <2> HIDE DEF later
  <2> QED BY <2>1, <1>1, LeastExists
<1>4. b.address <= c.address
  BY <1>1, <1>2, <1>3
<1>5. /\ c.address \in Nat /\ End(c) \in Nat /\ b.address \in Nat /\ End(b) \in Nat
      /\ Bytes(c) \subseteq Nat
  BY <1>1, BlockBytes
<1>6. \A x \in Nat : x \in Bytes(c) => x \in Bytes(b)
  BY <1>1, <1>4, <1>5, BlockBytes
<1> QED BY <1>1, <1>4, <1>5, <1>6
-----------------------------------------------------------------------------
(* What the walk has after k blocks: it has given back chunks that those   *)
(* blocks covered, and lists in order, below the blocks to come, all the   *)
(* other bytes they had.                                                   *)
Before(list, k) == UNION {Bytes(list[l]) : l \in 1 .. k}
Kept(acc, list, map, k) ==
    /\ acc \in [list : Seq(FreeBlock), map : SUBSET FreeBlock]
    /\ Sorted(acc.list)
    /\ \A l \in k + 1 .. Len(list) : Below(acc.list, list[l].address)
    /\ acc.map \subseteq map /\ BytesOf(map \ acc.map) \subseteq Before(list, k)
    /\ Listed(acc.list) = Before(list, k) \ BytesOf(map \ acc.map)

LEMMA BeforeNext ==
    ASSUME NEW list, NEW k \in Nat
    PROVE  Before(list, k + 1) = Before(list, k) \cup Bytes(list[k + 1])
<1>1. 1 .. k + 1 = 1 .. k \cup {k + 1}
  OBVIOUS
<1> QED BY <1>1 DEF Before

LEMMA NextApart ==
    ASSUME NEW list, Sorted(list), NEW k \in Nat, k + 1 \in 1 .. Len(list)
    PROVE  Before(list, k) \cap Bytes(list[k + 1]) = {}
<1>1. \A l \in 1 .. k : l \in 1 .. Len(list) /\ l # k + 1
  OBVIOUS
<1>2. \A l \in 1 .. k : Bytes(list[l]) \cap Bytes(list[k + 1]) = {}
  BY <1>1, ListBlocks
<1> QED BY <1>2 DEF Before

LEMMA ReturnStep ==
    ASSUME NEW list, Sorted(list), NEW map \in SUBSET FreeBlock, NEW k \in Nat, k + 1 \in 1 .. Len(list),
           NEW acc, Kept(acc, list, map, k)
    PROVE  Kept(ReturnFrom(acc, list[k + 1]), list, map, k + 1)
<1> PICK b : b = list[k + 1]
  OBVIOUS
<1>1. /\ b \in FreeBlock /\ b.address \in Nat /\ End(b) \in Nat /\ b.address < End(b) /\ Len(list) \in Nat
      /\ Bytes(b) \subseteq Nat
  BY ListBlocks, BlockBytes
<1>2. /\ acc \in [list : Seq(FreeBlock), map : SUBSET FreeBlock]
      /\ Sorted(acc.list) /\ Below(acc.list, b.address)
      /\ acc.map \subseteq map /\ BytesOf(map \ acc.map) \subseteq Before(list, k)
      /\ Listed(acc.list) = Before(list, k) \ BytesOf(map \ acc.map)
  <2>1. k + 1 \in k + 1 .. Len(list)
    BY <1>1
  <2>2. Below(acc.list, list[k + 1].address)
    BY <2>1 DEF Kept
  <2> QED BY <2>2 DEF Kept
<1>3. ASSUME NEW l \in (k + 1) + 1 .. Len(list)
      PROVE  End(b) < list[l].address /\ list[l].address \in Nat
  <2>1. l \in 1 .. Len(list) /\ k + 1 < l
    BY <1>1
  <2>2. list[l] \in FreeBlock
    BY <2>1, ListBlocks
  <2> QED BY <2>1, <2>2, BlockBytes DEF Sorted
<1>4. Before(list, k + 1) = Before(list, k) \cup Bytes(b) /\ Before(list, k) \cap Bytes(b) = {}
  BY BeforeNext, NextApart
<1> DEFINE covered == {c \in lower_bound(acc.map, b.address) : End(c) <= End(b)}
<1>5. CASE covered = {}
  <2> PICK new : new = ReturnFrom(acc, b)
    OBVIOUS
  <2>1. new = [list |-> Append(acc.list, b), map |-> acc.map] /\ new.list = Append(acc.list, b) /\ new.map = acc.map
    <3>1. new = [acc EXCEPT !.list = Append(acc.list, b)]
      BY <1>5 DEF ReturnFrom
    <3> QED BY <3>1, <1>2
  <2>2. Len(acc.list) > 0 => End(acc.list[Len(acc.list)]) < b.address
    <3>1. Len(acc.list) \in Nat
      BY <1>2
    <3>2. Len(acc.list) > 0 => Len(acc.list) \in 1 .. Len(acc.list)
      BY <3>1
    <3> QED BY <3>2, <1>2 DEF Below
  <2>3. Sorted(new.list) /\ Listed(new.list) = Listed(acc.list) \cup Bytes(b)
    <3>1. /\ Sorted(Append(acc.list, b))
          /\ Listed(Append(acc.list, b)) = Listed(acc.list) \cup Bytes(b)
      BY <2>2, <1>1, <1>2, AppendSorted
    <3> QED BY <3>1, <2>1, Zenon
  <2>4. ASSUME NEW l \in (k + 1) + 1 .. Len(list) PROVE Below(new.list, list[l].address)
    <3>1. /\ Len(new.list) = Len(acc.list) + 1 /\ Len(acc.list) \in Nat
          /\ \A m \in 1 .. Len(acc.list) + 1 : new.list[m] = IF m <= Len(acc.list) THEN acc.list[m] ELSE b
      BY <2>1, <1>1, <1>2, Appended
    <3>2. \A m \in 1 .. Len(acc.list) : End(acc.list[m]) < list[l].address
      <4>1. \A m \in 1 .. Len(acc.list) : End(acc.list[m]) < b.address /\ acc.list[m] \in FreeBlock
        BY <1>2, ListBlocks DEF Below
      <4>2. \A m \in 1 .. Len(acc.list) : End(acc.list[m]) \in Nat
        BY <4>1, BlockBytes
      <4>3. b.address < list[l].address /\ list[l].address \in Nat
        BY <1>1, <1>3
      <4> QED BY <4>1, <4>2, <4>3, <1>1
    <3>3. \A m \in 1 .. Len(acc.list) + 1 : m <= Len(acc.list) => m \in 1 .. Len(acc.list)
      BY <3>1
    <3>4. \A m \in 1 .. Len(acc.list) + 1 : End(new.list[m]) < list[l].address
      BY <3>1, <3>2, <3>3, <1>3
    <3> QED BY <3>1, <3>4 DEF Below
  <2>5. new \in [list : Seq(FreeBlock), map : SUBSET FreeBlock]
    BY <2>1, <2>3, <1>2, ListBlocks
  <2>6. new.map \subseteq map /\ BytesOf(map \ new.map) \subseteq Before(list, k + 1)
    <3>1. map \ new.map = map \ acc.map
      BY <2>1, Zenon
    <3> QED BY <3>1, <2>1, <1>2, <1>4, Zenon
  <2>7. Listed(new.list) = Before(list, k + 1) \ BytesOf(map \ new.map)
    <3> PICK G : G = BytesOf(map \ acc.map)
      OBVIOUS
    <3>1. BytesOf(map \ new.map) = G
      BY <2>1, Zenon
    <3>2. Listed(new.list) = (Before(list, k) \ G) \cup Bytes(b)
      BY <2>3, <1>2, Zenon
    <3>3. G \subseteq Before(list, k)
      BY <1>2, Zenon
    <3> QED BY <3>1, <3>2, <3>3, <1>4, Zenon
  <2>8. Kept(new, list, map, k + 1)
    BY <2>3, <2>4, <2>5, <2>6, <2>7 DEF Kept
  <2> QED BY <2>8
<1>6. CASE covered # {}
  <2> PICK new : new = ReturnFrom(acc, b)
    OBVIOUS
  <2> PICK c : c = CHOOSE d \in covered : TRUE
    OBVIOUS
  <2>1. c \in covered
    BY <1>6
  <2>2. new = [list |-> acc.list \o Pieces(b, c), map |-> acc.map \ {c}]
    BY <1>6 DEF ReturnFrom
  <2>3. /\ c \in acc.map /\ c \in FreeBlock /\ b.address <= c.address /\ Bytes(c) \subseteq Bytes(b)
        /\ End(c) <= End(b) /\ c.address \in Nat /\ End(c) \in Nat /\ c.address < End(c)
    <3>1. acc.map \in SUBSET FreeBlock /\ c \in lower_bound(acc.map, b.address) /\ End(c) <= End(b)
      BY <2>1, <1>2
    <3>2. c \in acc.map /\ c \in FreeBlock /\ b.address <= c.address /\ Bytes(c) \subseteq Bytes(b)
      BY <3>1, <1>1, CoveredChunk
    <3> QED BY <3>1, <3>2, BlockBytes
  <2>4. PICK L, x, y, u, v : L = acc.list /\ x = b.address /\ y = c.address /\ u = End(c) /\ v = End(b)
    OBVIOUS
  <2>5. /\ Sorted(L) /\ L \in Seq(FreeBlock) /\ Below(L, x)
        /\ x \in Nat /\ y \in Nat /\ u \in Nat /\ v \in Nat /\ x <= y /\ y < u /\ u <= v
    BY <2>3, <2>4, <1>1, <1>2
  <2>6. /\ Sorted(L \o Stretch(x, y)) /\ Listed(L \o Stretch(x, y)) = Listed(L) \cup (x .. y - 1)
        /\ Below(L \o Stretch(x, y), u)
    BY <2>5, AppendStretch
  <2> PICK s : s = L \o Stretch(x, y)
    OBVIOUS
  <2> PICK t : t = s \o Stretch(u, v)
    OBVIOUS
  <2>7. /\ Sorted(t) /\ Listed(t) = Listed(L) \cup (x .. y - 1) \cup (u .. v - 1)
        /\ \A z \in Nat : v < z => Below(t, z)
    <3>1. Sorted(s) /\ Listed(s) = Listed(L) \cup (x .. y - 1) /\ Below(s, u)
      BY <2>6
    <3>2. /\ Sorted(t) /\ Listed(t) = Listed(s) \cup (u .. v - 1)
          /\ \A z \in Nat : v < z => Below(t, z)
      BY <3>1, <2>5, AppendStretch
    <3> QED BY <3>1, <3>2
  <2>8. new.list = t /\ new.map = acc.map \ {c}
    <3>1. ASSUME NEW p \in Nat, NEW q \in Nat PROVE Stretch(p, q) \in Seq(FreeBlock)
      <4>1. CASE p < q
        <5>1. q - p \in Nat \ {0}
          BY <4>1
        <5>2. Block(p, q - p) \in FreeBlock
          BY <5>1, BlockOf
        <5> QED BY <4>1, <5>2 DEF Stretch
      <4>2. CASE ~(p < q)
        BY <4>2 DEF Stretch
      <4> QED BY <4>1, <4>2
    <3>2. Stretch(x, y) \in Seq(FreeBlock) /\ Stretch(u, v) \in Seq(FreeBlock)
      BY <3>1, <2>5
    <3>3. Pieces(b, c) = Stretch(x, y) \o Stretch(u, v)
      BY <2>4 DEF Pieces
    <3>4. L \o (Stretch(x, y) \o Stretch(u, v)) = (L \o Stretch(x, y)) \o Stretch(u, v)
      BY <3>2, <2>5, Joined, Zenon
    <3>5. L \o Pieces(b, c) = t
      BY <3>3, <3>4, Zenon
    <3>6. new.list = acc.list \o Pieces(b, c) /\ new.map = acc.map \ {c}
      <4>1. PICK p, q : p = acc.list \o Pieces(b, c) /\ q = acc.map \ {c}
        OBVIOUS
      <4>2. new = [list |-> p, map |-> q]
        BY <4>1, <2>2, Zenon
      <4>3. new.list = p /\ new.map = q
        BY <4>2
      <4> QED BY <4>1, <4>3, Zenon
    <3> QED BY <3>5, <3>6, <2>4, Zenon
  <2>9. (x .. y - 1) \cup (u .. v - 1) = Bytes(b) \ Bytes(c)
    <3>1. \A z : z \in Bytes(b) => z \in Nat
      BY <1>1
    <3>2. \A z \in Nat : z \in (x .. y - 1) \cup (u .. v - 1) <=> (x <= z /\ z < y) \/ (u <= z /\ z < v)
      BY <2>5
    <3>3. \A z \in Nat : z \in Bytes(b) \ Bytes(c) <=> (x <= z /\ z < v) /\ ~(y <= z /\ z < u)
      BY <1>1, <2>3, <2>4, BlockBytes
    <3>4. \A z : z \in (x .. y - 1) \cup (u .. v - 1) => z \in Nat
      BY <2>5
    <3>5. \A z \in Nat : (x <= z /\ z < y) \/ (u <= z /\ z < v)
                        <=> (x <= z /\ z < v) /\ ~(y <= z /\ z < u)
      BY <2>5
    <3>6. \A z \in Nat : z \in (x .. y - 1) \cup (u .. v - 1) <=> z \in Bytes(b) \ Bytes(c)
      BY <3>2, <3>3, <3>5
    <3> QED BY <3>1, <3>4, <3>6
  <2>10. Listed(new.list) = Listed(acc.list) \cup (Bytes(b) \ Bytes(c))
    BY <2>4, <2>7, <2>8, <2>9
  <2>11. new \in [list : Seq(FreeBlock), map : SUBSET FreeBlock]
    <3>1. t \in Seq(FreeBlock)
      BY <2>7, ListBlocks
    <3> QED BY <3>1, <2>2, <2>8, <1>2
  <2>12. BytesOf(map \ new.map) = BytesOf(map \ acc.map) \cup Bytes(c)
    <3>1. map \ new.map = (map \ acc.map) \cup {c}
      BY <2>3, <2>8, <1>2
    <3> QED BY <3>1 DEF BytesOf
  <2>13. /\ new.map \subseteq map /\ Sorted(new.list)
         /\ BytesOf(map \ new.map) \subseteq Before(list, k + 1)
         /\ Listed(new.list) = Before(list, k + 1) \ BytesOf(map \ new.map)
    BY <2>3, <2>7, <2>8, <2>10, <2>12, <1>2, <1>4
  <2>14. \A l \in (k + 1) + 1 .. Len(list) : Below(new.list, list[l].address)
    BY <2>4, <2>7, <2>8, <1>3
  <2>15. Kept(new, list, map, k + 1)
    BY <2>11, <2>13, <2>14 DEF Kept
  <2> QED BY <2>15
<1> QED BY <1>5, <1>6

(* return_reserved as a whole. *)
LEMMA ReturnKeeps ==
    ASSUME NEW list, Sorted(list), NEW map \in SUBSET FreeBlock,
           NEW acc, acc = FoldLeft(ReturnFrom, [list |-> <<>>, map |-> map], list)
    PROVE  /\ Sorted(acc.list) /\ acc.map \subseteq map
           /\ BytesOf(map \ acc.map) \subseteq Listed(list)
           /\ Listed(acc.list) = Listed(list) \ BytesOf(map \ acc.map)
<1> PICK base : base = [list |-> <<>>, map |-> map]
  OBVIOUS
<1>1. list \in Seq(FreeBlock) /\ Len(list) \in Nat
  BY ListBlocks
<1>2. PICK it : Walk(it, list, base, Len(list)) /\ acc = it[1 .. Len(list)]
  BY <1>1, FoldIsWalk
<1>3. \A s \in SUBSET (1 .. Len(list)) :
         it[s] = IF s = {} THEN base ELSE ReturnFrom(it[s \ {Max(s)}], list[Max(s)])
  BY <1>2 DEF Walk
<1>4. Kept(base, list, map, 0)
  <2>1. Len(base.list) = 0 /\ base.map = map /\ base.list = <<>>
    OBVIOUS
  <2>2. Sorted(base.list) /\ \A a : Below(base.list, a)
    BY <2>1 DEF Sorted, Below
  <2>3. Listed(base.list) = {}
    BY <2>1 DEF Listed, BytesOf, Elements
  <2>4. BytesOf(map \ base.map) = {} /\ Before(list, 0) = {}
    BY <2>1 DEF BytesOf, Before
  <2>5. base \in [list : Seq(FreeBlock), map : SUBSET FreeBlock]
    OBVIOUS
  <2>6. Listed(base.list) = Before(list, 0) \ BytesOf(map \ base.map) /\ base.map \subseteq map
    BY <2>1, <2>3, <2>4
  <2> QED BY <2>2, <2>4, <2>5, <2>6 DEF Kept
<1> DEFINE Broken == {k \in Nat : k <= Len(list) /\ ~Kept(it[1 .. k], list, map, k)}
<1>5. ASSUME Broken # {} PROVE FALSE
  <2>1. PICK k \in Broken : \A j \in Broken : k <= j
    <3>1. Broken \in SUBSET Nat
      OBVIOUS
    <3> HIDE DEF Broken
    <3> QED BY <1>5, <3>1, LeastExists
  <2>2. it[1 .. 0] = base
    <3>1. 1 .. 0 \in SUBSET (1 .. Len(list)) /\ 1 .. 0 = {}
      OBVIOUS
    <3> QED BY <3>1, <1>3
  <2>3. k # 0
    BY <2>1, <2>2, <1>4
  <2>4. k - 1 \in Nat /\ k - 1 \notin Broken /\ k - 1 <= Len(list) /\ (k - 1) + 1 = k /\ k \in 1 .. Len(list)
    BY <2>1, <2>3, <1>1
  <2>5. Kept(it[1 .. k - 1], list, map, k - 1)
    BY <2>4
  <2>6. Kept(ReturnFrom(it[1 .. k - 1], list[k]), list, map, k)
    <3> PICK j : j = k - 1
      OBVIOUS
    <3>1. j \in Nat /\ j + 1 \in 1 .. Len(list) /\ j + 1 = k /\ Kept(it[1 .. j], list, map, j)
      BY <2>4, <2>5
    <3>2. Kept(ReturnFrom(it[1 .. j], list[j + 1]), list, map, j + 1)
      BY <3>1, ReturnStep
    <3> QED BY <3>1, <3>2
  <2>7. it[1 .. k] = ReturnFrom(it[1 .. k - 1], list[k])
    <3>1. 1 .. k \in SUBSET (1 .. Len(list)) /\ 1 .. k # {} /\ (1 .. k) \ {k} = 1 .. k - 1
      <4>1. k \in Nat /\ k >= 1 /\ k <= Len(list)
        BY <2>4, <1>1
      <4> HIDE DEF Broken
      <4>2. \A x : x \in (1 .. k) \ {k} <=> x \in 1 .. k - 1
        BY <4>1
      <4>3. \A x \in 1 .. k : x \in 1 .. Len(list)
        BY <4>1, <1>1
      <4>4. k \in 1 .. k
        BY <4>1
      <4> QED BY <4>2, <4>3, <4>4
    <3>2. Max(1 .. k) = k
      BY <2>4, GreatestIs
    <3> QED BY <3>1, <3>2, <1>3
  <2> QED BY <2>1, <2>6, <2>7
<1>6. Kept(acc, list, map, Len(list))
  BY <1>1, <1>2, <1>5
<1>7. Before(list, Len(list)) = Listed(list)
  BY <1>1, ListedBytes DEF Before
<1> QED BY <1>6, <1>7 DEF Kept

-----------------------------------------------------------------------------
(* The invariant: the lists are in order, and a byte malloc gave is in no  *)
(* two places; free relies on the second for the first, as a block that    *)
(* overlapped a listed one would find no gap.                              *)
Reserve(i) == Listed(freeList[i])
Steps == {"idle", "own", "steal", "malloc", "add", "again"}
ARequest == [size : Nat, pool : Pool, chunk : FreeBlock \cup {NoBlock}]

RequestInv ==
    /\ pc \in [Thread -> Steps] /\ request \in [Thread -> ARequest]
    /\ \A t \in Thread : pc[t] # "idle" => request[t].size \in Size
    /\ \A t \in Adding : request[t].chunk \in FreeBlock
ListInv ==
    /\ DOMAIN freeList = Pool /\ \A i \in Pool : Sorted(freeList[i])
    /\ held \subseteq FreeBlock /\ BytesOf(malloced) \subseteq Memory
ApartInv ==
    /\ \A i, j \in Pool : i # j => Reserve(i) \cap Reserve(j) = {}
    /\ \A b, c \in held : b # c => Bytes(b) \cap Bytes(c) = {}
    /\ \A i \in Pool, b \in held : Reserve(i) \cap Bytes(b) = {}
    /\ \A t \in Adding : /\ \A i \in Pool : Bytes(request[t].chunk) \cap Reserve(i) = {}
                         /\ \A b \in held : Bytes(request[t].chunk) \cap Bytes(b) = {}
                         /\ \A u \in Adding : u # t => Bytes(request[t].chunk) \cap Bytes(request[u].chunk) = {}
FromMalloc ==
    /\ \A i \in Pool : Reserve(i) \subseteq BytesOf(malloced)
    /\ \A b \in held : Bytes(b) \subseteq BytesOf(malloced)
    /\ \A t \in Adding : Bytes(request[t].chunk) \subseteq BytesOf(malloced)
MallocInv ==
    /\ malloced \subseteq FreeBlock
    /\ \A c, d \in malloced : c # d => Bytes(c) \cap Bytes(d) = {}
    /\ DOMAIN new_mem_map = Pool /\ \A i \in Pool : new_mem_map[i] \subseteq malloced
    /\ \A i, j \in Pool : i # j => new_mem_map[i] \cap new_mem_map[j] = {}
    /\ \A t \in Adding : /\ request[t].chunk \in malloced
                         /\ \A i \in Pool : request[t].chunk \notin new_mem_map[i]
HeapInv == RequestInv /\ ListInv /\ ApartInv /\ FromMalloc /\ MallocInv

(* A step that neither takes a chunk nor gives one back. *)
LEMMA MallocStays ==
    ASSUME MallocInv, new_mem_map' = new_mem_map, malloced' = malloced,
           Adding' = Adding, \A t \in Adding : request'[t].chunk = request[t].chunk
    PROVE  MallocInv' /\ Pending' = Pending
<1>1. MallocInv'
  BY DEF MallocInv, Pool, FreeBlock, Bytes, End
<1>2. Pending' = Pending
  BY DEF Pending
<1> QED BY <1>1, <1>2

(* A thread that has its block is done. *)
LEMMA AllocatesKeepsInv ==
    ASSUME HeapInv, NEW t \in Thread, NEW i \in Pool, Allocates(t, i), pc[t] \notin {"idle", "add"}
    PROVE  /\ HeapInv' /\ malloced' = malloced /\ Pending' = Pending
           /\ \E b \in FreeBlock : /\ b.size \in Size /\ held' = held \cup {b}
                                   /\ Bytes(b) \subseteq Reserve(i) /\ Reserve(i)' = Reserve(i) \ Bytes(b)
                                   /\ \A j \in Pool : j # i => Reserve(j)' = Reserve(j)
<1> DEFINE n == request[t].size
           got == Block(freeList[i][Min(Fitting(freeList[i], n))].address, n)
<1>1. RequestInv /\ ListInv /\ ApartInv /\ FromMalloc
  BY DEF HeapInv
<1>2. /\ Fitting(freeList[i], n) # {} /\ freeList' = [freeList EXCEPT ![i] = allocate(freeList[i], n)]
      /\ held' = held \cup {got} /\ pc' = [pc EXCEPT ![t] = "idle"]
      /\ request' = [request EXCEPT ![t] = NoRequest] /\ malloced' = malloced
  BY DEF Allocates, Goto
<1>3. n \in Size /\ n \in Nat \ {0} /\ Sorted(freeList[i])
  BY <1>1, ManagerAssumption DEF RequestInv, ListInv
<1>4. /\ Sorted(allocate(freeList[i], n)) /\ got \in FreeBlock /\ Bytes(got) \subseteq Reserve(i)
      /\ Listed(allocate(freeList[i], n)) = Reserve(i) \ Bytes(got) /\ got.size = n
  <2>1. got = Block(freeList[i][Min(Fitting(freeList[i], n))].address, n) /\ got.size = n
    BY DEF Block
  <2> QED BY <2>1, <1>2, <1>3, AllocateKeeps DEF Reserve
<1> HIDE DEF n, got
<1>5. /\ DOMAIN freeList' = Pool /\ freeList'[i] = allocate(freeList[i], n)
      /\ \A j \in Pool : j # i => freeList'[j] = freeList[j]
  BY <1>1, <1>2 DEF ListInv
<1>6. Reserve(i)' = Reserve(i) \ Bytes(got) /\ \A j \in Pool : j # i => Reserve(j)' = Reserve(j)
  BY <1>4, <1>5 DEF Reserve
<1>7. /\ Adding' = Adding /\ \A u \in Adding : request'[u] = request[u]
      /\ pc' \in [Thread -> Steps] /\ request' \in [Thread -> ARequest]
      /\ \A u \in Thread : u # t => pc'[u] = pc[u] /\ request'[u] = request[u]
      /\ pc'[t] = "idle"
  <2>1. NoRequest \in ARequest
    BY ManagerAssumption DEF NoRequest, ARequest, Pool
  <2>2. t \notin Adding
    BY DEF Adding
  <2> QED BY <2>1, <2>2, <1>1, <1>2 DEF RequestInv, Adding, Steps
<1>8. RequestInv'
  <2>1. \A u \in Thread : pc'[u] # "idle" => request'[u].size \in Size
    BY <1>1, <1>7 DEF RequestInv
  <2>2. \A u \in Adding' : request'[u].chunk \in FreeBlock
    BY <1>1, <1>7 DEF RequestInv
  <2> QED BY <2>1, <2>2, <1>7 DEF RequestInv, ARequest, Steps, Pool, FreeBlock, NoBlock, Block
<1>9. ListInv'
  <2>1. \A j \in Pool : Sorted(freeList'[j])
    BY <1>1, <1>4, <1>5 DEF ListInv
  <2>2. held' \subseteq FreeBlock /\ BytesOf(malloced') \subseteq Memory
    BY <1>1, <1>2, <1>4 DEF ListInv
  <2> QED BY <2>1, <2>2, <1>5 DEF ListInv, Pool, Memory
<1>10. ApartInv'
  <2>1. \A j \in Pool : Reserve(j)' \subseteq Reserve(j) /\ Reserve(j)' \cap Bytes(got) = {}
    BY <1>1, <1>4, <1>6 DEF ApartInv
  <2>2. \A b \in held : Bytes(b) \cap Bytes(got) = {}
    BY <1>1, <1>4 DEF ApartInv
  <2>3. \A u \in Adding : Bytes(request[u].chunk) \cap Bytes(got) = {}
    BY <1>1, <1>4 DEF ApartInv
  <2>4. \A j, k \in Pool : j # k => Reserve(j)' \cap Reserve(k)' = {}
    BY <1>1, <2>1 DEF ApartInv
  <2>5. \A b, c \in held' : b # c => Bytes(b) \cap Bytes(c) = {}
    BY <1>1, <1>2, <2>2 DEF ApartInv
  <2>6. \A j \in Pool, b \in held' : Reserve(j)' \cap Bytes(b) = {}
    BY <1>1, <1>2, <2>1 DEF ApartInv
  <2>7. \A u \in Adding' : /\ \A j \in Pool : Bytes(request'[u].chunk) \cap Reserve(j)' = {}
                           /\ \A b \in held' : Bytes(request'[u].chunk) \cap Bytes(b) = {}
                           /\ \A v \in Adding' : v # u => Bytes(request'[u].chunk) \cap Bytes(request'[v].chunk) = {}
    BY <1>1, <1>2, <1>7, <2>1, <2>3 DEF ApartInv
  <2> QED BY <2>4, <2>5, <2>6, <2>7 DEF ApartInv, Pool, Bytes, End
<1>11. FromMalloc'
  <2>1. \A j \in Pool : Reserve(j)' \subseteq BytesOf(malloced')
    BY <1>1, <1>2, <1>6 DEF FromMalloc
  <2>2. \A b \in held' : Bytes(b) \subseteq BytesOf(malloced')
    BY <1>1, <1>2, <1>4 DEF FromMalloc
  <2>3. \A u \in Adding' : Bytes(request'[u].chunk) \subseteq BytesOf(malloced')
    BY <1>1, <1>2, <1>7 DEF FromMalloc
  <2> QED BY <2>1, <2>2, <2>3 DEF FromMalloc, Pool, Bytes, End
<1>12. MallocInv' /\ Pending' = Pending
  <2>1. MallocInv /\ new_mem_map' = new_mem_map /\ malloced' = malloced
    BY DEF HeapInv, Allocates
  <2> QED BY <2>1, <1>7, MallocStays
<1>13. HeapInv'
  BY <1>8, <1>9, <1>10, <1>11, <1>12 DEF HeapInv
<1> QED BY <1>2, <1>3, <1>4, <1>6, <1>12, <1>13

(* A block that is in no list is freed into one.                           *)
LEMMA FreedInto ==
    ASSUME ListInv, NEW i \in Pool, NEW b \in FreeBlock, \A j \in Pool : Bytes(b) \cap Reserve(j) = {},
           freeList' = [freeList EXCEPT ![i] = free(freeList[i], b)]
    PROVE  /\ DOMAIN freeList' = Pool /\ \A j \in Pool : Sorted(freeList'[j])
           /\ Reserve(i)' = Reserve(i) \cup Bytes(b)
           /\ \A j \in Pool : j # i => Reserve(j)' = Reserve(j)
<1>1. Sorted(freeList[i]) /\ Bytes(b) \cap Listed(freeList[i]) = {}
  BY DEF ListInv, Reserve
<1>2. /\ Sorted(free(freeList[i], b))
      /\ Listed(free(freeList[i], b)) = Listed(freeList[i]) \cup Bytes(b)
  BY <1>1, FreeKeeps
<1>3. /\ DOMAIN freeList' = Pool /\ freeList'[i] = free(freeList[i], b)
      /\ \A j \in Pool : j # i => freeList'[j] = freeList[j]
  BY DEF ListInv
<1> QED BY <1>2, <1>3 DEF ListInv, Reserve

LEMMA FreeBlockKeepsInv ==
    ASSUME HeapInv, NEW t \in Thread, NEW b \in held, freeBlock(t, b)
    PROVE  /\ HeapInv' /\ malloced' = malloced /\ Pending' = Pending
           /\ held' = held \ {b} /\ Reserve(PoolIdx[t])' = Reserve(PoolIdx[t]) \cup Bytes(b)
           /\ \A j \in Pool : j # PoolIdx[t] => Reserve(j)' = Reserve(j)
<1> DEFINE i == PoolIdx[t]
<1>1. RequestInv /\ ListInv /\ ApartInv /\ FromMalloc /\ i \in Pool
  BY ManagerAssumption DEF HeapInv
<1>2. /\ freeList' = [freeList EXCEPT ![i] = free(freeList[i], b)] /\ held' = held \ {b}
      /\ pc' = pc /\ request' = request /\ malloced' = malloced
  BY DEF freeBlock
<1>3. b \in FreeBlock /\ \A j \in Pool : Bytes(b) \cap Reserve(j) = {}
  BY <1>1 DEF ListInv, ApartInv
<1> HIDE DEF i
<1>4. /\ DOMAIN freeList' = Pool /\ \A j \in Pool : Sorted(freeList'[j])
      /\ Reserve(i)' = Reserve(i) \cup Bytes(b)
      /\ \A j \in Pool : j # i => Reserve(j)' = Reserve(j)
  BY <1>1, <1>2, <1>3, FreedInto
<1>5. RequestInv' /\ Adding' = Adding
  BY <1>1, <1>2 DEF RequestInv, Adding, ARequest, Steps, Pool, FreeBlock, NoBlock, Block
<1>6. ListInv'
  BY <1>1, <1>2, <1>4 DEF ListInv, Pool, Memory
<1>7. ApartInv'
  <2>1. \A j, k \in Pool : j # k => Reserve(j)' \cap Reserve(k)' = {}
    BY <1>1, <1>3, <1>4 DEF ApartInv
  <2>2. \A j \in Pool, c \in held' : Reserve(j)' \cap Bytes(c) = {}
    BY <1>1, <1>2, <1>4 DEF ApartInv
  <2>3. \A u \in Adding : \A j \in Pool : Bytes(request[u].chunk) \cap Reserve(j)' = {}
    BY <1>1, <1>4 DEF ApartInv
  <2> QED BY <2>1, <2>2, <2>3, <1>1, <1>2, <1>5 DEF ApartInv, Pool, Bytes, End
<1>8. FromMalloc'
  <2>1. \A j \in Pool : Reserve(j)' \subseteq BytesOf(malloced)
    BY <1>1, <1>4 DEF FromMalloc
  <2> QED BY <2>1, <1>1, <1>2, <1>5 DEF FromMalloc, Pool, Bytes, End
<1>9. MallocInv' /\ Pending' = Pending
  <2>1. MallocInv /\ new_mem_map' = new_mem_map
    BY DEF HeapInv, freeBlock
  <2> QED BY <2>1, <1>2, <1>5, MallocStays
<1> QED BY <1>2, <1>4, <1>5, <1>6, <1>7, <1>8, <1>9 DEF HeapInv, i

LEMMA AddFreeKeepsInv ==
    ASSUME HeapInv, NEW t \in Thread, AddFree(t)
    PROVE  /\ HeapInv'
           /\ held' = held /\ malloced' = malloced
           /\ BytesOf(Pending) = BytesOf(Pending') \cup Bytes(request[t].chunk)
           /\ Reserve(PoolIdx[t])' = Reserve(PoolIdx[t]) \cup Bytes(request[t].chunk)
           /\ \A j \in Pool : j # PoolIdx[t] => Reserve(j)' = Reserve(j)
<1> DEFINE i == PoolIdx[t]
           b == request[t].chunk
<1>1. RequestInv /\ ListInv /\ ApartInv /\ FromMalloc /\ i \in Pool
  BY ManagerAssumption DEF HeapInv
<1>2. /\ freeList' = [freeList EXCEPT ![i] = free(freeList[i], b)] /\ held' = held
      /\ pc' = [pc EXCEPT ![t] = "again"] /\ request' = [request EXCEPT ![t].chunk = NoBlock]
      /\ malloced' = malloced /\ t \in Adding
  BY DEF AddFree, At, Goto, Adding
<1>3. b \in FreeBlock /\ \A j \in Pool : Bytes(b) \cap Reserve(j) = {}
  BY <1>1, <1>2 DEF RequestInv, ApartInv
<1> HIDE DEF i, b
<1>4. /\ DOMAIN freeList' = Pool /\ \A j \in Pool : Sorted(freeList'[j])
      /\ Reserve(i)' = Reserve(i) \cup Bytes(b)
      /\ \A j \in Pool : j # i => Reserve(j)' = Reserve(j)
  BY <1>1, <1>2, <1>3, FreedInto
<1>5. /\ Adding' = Adding \ {t} /\ \A u \in Adding' : request'[u] = request[u]
      /\ pc' \in [Thread -> Steps] /\ request' \in [Thread -> ARequest]
      /\ \A u \in Thread : request'[u].size = request[u].size
      /\ pc[t] # "idle"
  <2>1. request[t] \in ARequest /\ [request[t] EXCEPT !.chunk = NoBlock] \in ARequest
        /\ [request[t] EXCEPT !.chunk = NoBlock].size = request[t].size
    BY <1>1 DEF RequestInv, ARequest
  <2>2. /\ request'[t] = [request[t] EXCEPT !.chunk = NoBlock] /\ DOMAIN request' = Thread
        /\ \A u \in Thread : u # t => request'[u] = request[u]
    BY <1>1, <1>2 DEF RequestInv
  <2>3. request' \in [Thread -> ARequest]
    <3>1. request' = [u \in Thread |-> IF u = t THEN [request[t] EXCEPT !.chunk = NoBlock] ELSE request[u]]
      BY <1>1, <1>2 DEF RequestInv
    <3> QED BY <3>1, <2>1, <1>1 DEF RequestInv
  <2>4. pc' \in [Thread -> Steps] /\ Adding' = Adding \ {t} /\ pc[t] # "idle"
    BY <1>1, <1>2 DEF RequestInv, Adding, Steps
  <2> QED BY <2>1, <2>2, <2>3, <2>4 DEF Adding
<1>6. RequestInv'
  <2>1. \A u \in Thread : pc'[u] # "idle" => request'[u].size \in Size
    BY <1>1, <1>2, <1>5 DEF RequestInv
  <2>2. \A u \in Adding' : request'[u].chunk \in FreeBlock
    BY <1>1, <1>5 DEF RequestInv
  <2> QED BY <2>1, <2>2, <1>5 DEF RequestInv, ARequest, Steps, Pool, FreeBlock, NoBlock, Block
<1>7. ListInv'
  BY <1>1, <1>2, <1>4 DEF ListInv, Pool, Memory
<1>8. ApartInv'
  <2>1. \A j, k \in Pool : j # k => Reserve(j)' \cap Reserve(k)' = {}
    BY <1>1, <1>3, <1>4 DEF ApartInv
  <2>2. \A c \in held : Bytes(b) \cap Bytes(c) = {}
    BY <1>1, <1>2 DEF ApartInv, b
  <2>3. \A j \in Pool, c \in held : Reserve(j)' \cap Bytes(c) = {}
    BY <2>2, <1>1, <1>4 DEF ApartInv
  <2>4. \A u \in Adding' : Bytes(request[u].chunk) \cap Bytes(b) = {}
    BY <1>1, <1>2, <1>5 DEF ApartInv, b
  <2>5. \A u \in Adding' : \A j \in Pool : Bytes(request[u].chunk) \cap Reserve(j)' = {}
    BY <2>4, <1>1, <1>4, <1>5 DEF ApartInv
  <2>6. \A u \in Adding' : /\ \A j \in Pool : Bytes(request'[u].chunk) \cap Reserve(j)' = {}
                           /\ \A c \in held' : Bytes(request'[u].chunk) \cap Bytes(c) = {}
                           /\ \A v \in Adding' : v # u => Bytes(request'[u].chunk) \cap Bytes(request'[v].chunk) = {}
    BY <2>5, <1>1, <1>2, <1>5 DEF ApartInv
  <2> QED BY <2>1, <2>3, <2>6, <1>1, <1>2 DEF ApartInv, Pool, Bytes, End
<1>9. FromMalloc'
  <2>1. \A j \in Pool : Reserve(j)' \subseteq BytesOf(malloced)
    <3>1. Bytes(b) \subseteq BytesOf(malloced)
      BY <1>1, <1>2 DEF FromMalloc, b
    <3> QED BY <3>1, <1>1, <1>4 DEF FromMalloc
  <2>2. \A u \in Adding' : Bytes(request'[u].chunk) \subseteq BytesOf(malloced)
    BY <1>1, <1>5 DEF FromMalloc
  <2> QED BY <2>1, <2>2, <1>1, <1>2 DEF FromMalloc, Pool, Bytes, End
<1>10. MallocInv'
  <2>1. MallocInv
    BY DEF HeapInv
  <2>2. CASE recordNewMemMap
    <3>1. new_mem_map' = [new_mem_map EXCEPT ![i] = new_mem_map[i] \cup {b}]
      BY <2>2 DEF AddFree, Record, i, b
    <3>2. /\ DOMAIN new_mem_map' = Pool /\ new_mem_map'[i] = new_mem_map[i] \cup {b}
          /\ \A j \in Pool : j # i => new_mem_map'[j] = new_mem_map[j]
      BY <2>1, <3>1, <1>1 DEF MallocInv
    <3>3. b \in malloced /\ \A j \in Pool : b \notin new_mem_map[j]
      BY <2>1, <1>2 DEF MallocInv, b
    <3>4. \A j \in Pool : new_mem_map'[j] \subseteq malloced
      BY <2>1, <3>2, <3>3 DEF MallocInv
    <3>5. \A j, k \in Pool : j # k => new_mem_map'[j] \cap new_mem_map'[k] = {}
      <4> SUFFICES ASSUME NEW j \in Pool, NEW k \in Pool, j # k
                   PROVE  new_mem_map'[j] \cap new_mem_map'[k] = {}
        OBVIOUS
      <4>1. new_mem_map[j] \cap new_mem_map[k] = {}
        BY <2>1 DEF MallocInv
      <4> QED BY <4>1, <3>2, <3>3
    <3>6. \A u \in Adding' : /\ request'[u].chunk \in malloced
                             /\ \A j \in Pool : request'[u].chunk \notin new_mem_map'[j]
      <4> SUFFICES ASSUME NEW u \in Adding' PROVE /\ request[u].chunk \in malloced
                                                  /\ \A j \in Pool : request[u].chunk \notin new_mem_map'[j]
        BY <1>5
      <4>1. u \in Adding /\ u # t /\ request[u].chunk \in malloced /\ \A j \in Pool : request[u].chunk \notin new_mem_map[j]
        BY <2>1, <1>5 DEF MallocInv
      <4>2. request[u].chunk # b
        <5>1. Bytes(request[u].chunk) \cap Bytes(b) = {}
          BY <4>1, <1>1, <1>2 DEF ApartInv, b
        <5>2. b.address \in Bytes(b)
          BY <1>3, BlockBytes
        <5> QED BY <5>1, <5>2
      <4> QED BY <4>1, <4>2, <3>2
    <3> QED BY <2>1, <3>2, <3>4, <3>5, <3>6, <1>2 DEF MallocInv, Pool, FreeBlock, Bytes, End
  <2>3. CASE ~recordNewMemMap
    <3>1. new_mem_map' = new_mem_map
      BY <2>3 DEF AddFree, Record
    <3> QED BY <2>1, <3>1, <1>2, <1>5 DEF MallocInv, Pool, FreeBlock, Bytes, End
  <2> QED BY <2>2, <2>3
<1>11. BytesOf(Pending) = BytesOf(Pending') \cup Bytes(b)
  <2>1. \A c : c \in Pending <=> c \in Pending' \/ c = b
    BY <1>2, <1>5 DEF Pending, b
  <2> QED BY <2>1 DEF BytesOf
<1> QED BY <1>2, <1>4, <1>6, <1>7, <1>8, <1>9, <1>10, <1>11 DEF HeapInv, i, b

(* malloc gives bytes that are nowhere yet.                                *)
LEMMA AddMemoryKeepsInv ==
    ASSUME HeapInv, NEW t \in Thread, add_memory(t)
    PROVE  /\ HeapInv' /\ UNCHANGED <<freeList, held>>
           /\ \E b \in FreeBlock : /\ Bytes(b) \subseteq Memory /\ Bytes(b) \cap BytesOf(malloced) = {}
                                   /\ BytesOf(malloced') = BytesOf(malloced) \cup Bytes(b)
                                   /\ BytesOf(Pending') = BytesOf(Pending) \cup Bytes(b)
<1> DEFINE n == Max({request[t].size, secondaryMallocSize})
<1>1. RequestInv /\ ListInv /\ ApartInv /\ FromMalloc
  BY DEF HeapInv
<1>2. PICK b \in Chunks(n) :
         /\ malloced' = malloced \cup {b} /\ request' = [request EXCEPT ![t].chunk = b]
         /\ pc' = [pc EXCEPT ![t] = "add"] /\ freeList' = freeList /\ held' = held /\ pc[t] = "malloc"
  BY DEF add_memory, At, Goto
<1>3. n \in Nat \ {0}
  <2>1. request[t].size \in Nat \ {0} /\ secondaryMallocSize \in Nat \ {0}
    BY <1>1, <1>2, ManagerAssumption DEF RequestInv
  <2>2. ASSUME NEW x \in Nat \ {0}, NEW y \in Nat \ {0} PROVE Max({x, y}) \in Nat \ {0}
    <3>1. CASE x <= y
      <4>1. y \in {x, y} /\ \A z \in {x, y} : y >= z
        BY <3>1
      <4> QED BY <4>1 DEF Max
    <3>2. CASE y <= x
      <4>1. x \in {x, y} /\ \A z \in {x, y} : x >= z
        BY <3>2
      <4> QED BY <4>1 DEF Max
    <3> QED BY <3>1, <3>2
  <2> QED BY <2>1, <2>2
<1> HIDE DEF n
<1>4. /\ b.address \in Nat /\ b.size = n /\ b \in FreeBlock /\ End(b) <= MemorySize
      /\ Bytes(b) \cap BytesOf(malloced) = {}
  BY <1>2, <1>3, ManagerAssumption DEF Chunks, FreeBlock, Memory
<1>5. Bytes(b) \subseteq Memory
  BY <1>4, ManagerAssumption, BlockBytes DEF Memory, Bytes, End
<1>6. BytesOf(malloced') = BytesOf(malloced) \cup Bytes(b)
  BY <1>2 DEF BytesOf
<1>7. t \notin Adding /\ Adding' = Adding \cup {t}
  BY <1>1, <1>2 DEF Adding, RequestInv, Steps
<1>8. /\ request' \in [Thread -> ARequest] /\ pc' \in [Thread -> Steps]
      /\ request'[t].chunk = b /\ request'[t].size = request[t].size
      /\ \A u \in Thread : u # t => request'[u] = request[u] /\ pc'[u] = pc[u]
  <2>1. request[t] \in ARequest /\ [request[t] EXCEPT !.chunk = b] \in ARequest
        /\ [request[t] EXCEPT !.chunk = b].size = request[t].size
        /\ [request[t] EXCEPT !.chunk = b].chunk = b
    BY <1>1, <1>4 DEF RequestInv, ARequest
  <2>2. request' = [u \in Thread |-> IF u = t THEN [request[t] EXCEPT !.chunk = b] ELSE request[u]]
    BY <1>1, <1>2 DEF RequestInv
  <2>3. request' \in [Thread -> ARequest]
    BY <2>1, <2>2, <1>1 DEF RequestInv
  <2>4. pc' \in [Thread -> Steps] /\ \A u \in Thread : u # t => pc'[u] = pc[u]
    BY <1>1, <1>2 DEF RequestInv, Steps
  <2> QED BY <2>1, <2>2, <2>3, <2>4
<1>9. RequestInv'
  <2>1. \A u \in Thread : pc'[u] # "idle" => request'[u].size \in Size
    BY <1>1, <1>2, <1>8 DEF RequestInv
  <2>2. \A u \in Adding' : request'[u].chunk \in FreeBlock
    <3>1. \A u \in Adding : u \in Thread /\ u # t
      BY <1>7 DEF Adding
    <3> QED BY <3>1, <1>1, <1>4, <1>7, <1>8 DEF RequestInv
  <2> QED BY <2>1, <2>2, <1>8 DEF RequestInv, ARequest, Steps, Pool, FreeBlock, NoBlock, Block
<1>10. ListInv'
  <2>1. BytesOf(malloced') \subseteq Memory
    BY <1>1, <1>5, <1>6 DEF ListInv
  <2> QED BY <2>1, <1>1, <1>2 DEF ListInv, Pool, Memory
<1>11. (\A j \in Pool : Reserve(j)' = Reserve(j)) /\ \A u \in Adding : u \in Thread /\ u # t /\ request'[u] = request[u]
  BY <1>2, <1>7, <1>8 DEF Reserve, Adding
<1>12. ApartInv'
  <2>1. /\ \A j \in Pool : Bytes(b) \cap Reserve(j) = {}
        /\ \A c \in held : Bytes(b) \cap Bytes(c) = {}
        /\ \A u \in Adding : Bytes(b) \cap Bytes(request[u].chunk) = {}
    BY <1>1, <1>4 DEF FromMalloc
  <2>2. \A u \in Adding' : /\ \A j \in Pool : Bytes(request'[u].chunk) \cap Reserve(j)' = {}
                           /\ \A c \in held' : Bytes(request'[u].chunk) \cap Bytes(c) = {}
                           /\ \A v \in Adding' : v # u => Bytes(request'[u].chunk) \cap Bytes(request'[v].chunk) = {}
    <3> SUFFICES ASSUME NEW u \in Adding \cup {t}
                 PROVE  /\ \A j \in Pool : Bytes(request'[u].chunk) \cap Reserve(j) = {}
                        /\ \A c \in held : Bytes(request'[u].chunk) \cap Bytes(c) = {}
                        /\ \A v \in Adding \cup {t} : v # u => Bytes(request'[u].chunk) \cap Bytes(request'[v].chunk) = {}
      BY <1>2, <1>7, <1>11
    <3>1. CASE u = t
      BY <3>1, <2>1, <1>8, <1>11
    <3>2. CASE u \in Adding
      BY <3>2, <2>1, <1>1, <1>8, <1>11 DEF ApartInv
    <3> QED BY <3>1, <3>2
  <2> QED BY <2>2, <1>1, <1>2, <1>11 DEF ApartInv, Pool, Bytes, End
<1>13. FromMalloc'
  <2>1. \A u \in Adding' : Bytes(request'[u].chunk) \subseteq BytesOf(malloced')
    BY <1>1, <1>6, <1>7, <1>8, <1>11 DEF FromMalloc
  <2>2. \A j \in Pool : Reserve(j)' \subseteq BytesOf(malloced')
    BY <1>1, <1>6, <1>11 DEF FromMalloc
  <2>3. \A c \in held' : Bytes(c) \subseteq BytesOf(malloced')
    BY <1>1, <1>2, <1>6 DEF FromMalloc
  <2> QED BY <2>1, <2>2, <2>3 DEF FromMalloc, Pool, Bytes, End
<1>14. MallocInv'
  <2>1. MallocInv /\ new_mem_map' = new_mem_map
    BY DEF HeapInv, add_memory
  <2>2. b \notin malloced /\ \A c \in malloced : Bytes(b) \cap Bytes(c) = {}
    <3>1. b.address \in Bytes(b)
      BY <1>4, BlockBytes
    <3> QED BY <3>1, <1>4 DEF BytesOf
  <2>3. \A c, d \in malloced' : c # d => Bytes(c) \cap Bytes(d) = {}
    BY <2>1, <2>2, <1>2 DEF MallocInv
  <2>4. \A u \in Adding' : /\ request'[u].chunk \in malloced'
                           /\ \A j \in Pool : request'[u].chunk \notin new_mem_map[j]
    <3> SUFFICES ASSUME NEW u \in Adding \cup {t}
                 PROVE  /\ request'[u].chunk \in malloced'
                        /\ \A j \in Pool : request'[u].chunk \notin new_mem_map[j]
      BY <1>7
    <3>1. CASE u = t
      BY <3>1, <2>1, <2>2, <1>2, <1>8 DEF MallocInv
    <3>2. CASE u \in Adding
      BY <3>2, <2>1, <1>2, <1>11 DEF MallocInv
    <3> QED BY <3>1, <3>2
  <2>5. malloced' \subseteq FreeBlock /\ \A j \in Pool : new_mem_map[j] \subseteq malloced'
    BY <2>1, <1>2, <1>4 DEF MallocInv
  <2> QED BY <2>1, <2>3, <2>4, <2>5 DEF MallocInv, Pool, FreeBlock, Bytes, End
<1>15. BytesOf(Pending') = BytesOf(Pending) \cup Bytes(b)
  <2>1. \A c : c \in Pending' <=> c \in Pending \/ c = b
    <3>1. Pending' = {request'[u].chunk : u \in Adding \cup {t}}
      BY <1>7 DEF Pending
    <3> QED BY <3>1, <1>8, <1>11 DEF Pending
  <2> QED BY <2>1 DEF BytesOf
<1> QED BY <1>2, <1>4, <1>5, <1>6, <1>9, <1>10, <1>12, <1>13, <1>14, <1>15 DEF HeapInv

(* The steps that move no memory.                                          *)
LEMMA QuietKeepsInv ==
    ASSUME HeapInv, UNCHANGED <<freeList, held, malloced, new_mem_map>>,
           pc' \in [Thread -> Steps], request' \in [Thread -> ARequest],
           \A u \in Thread : /\ request'[u].chunk = request[u].chunk
                             /\ pc'[u] = "add" <=> pc[u] = "add"
                             /\ pc'[u] # "idle" => request'[u].size \in Size
    PROVE  HeapInv' /\ Pending' = Pending
<1>1. RequestInv /\ ListInv /\ ApartInv /\ FromMalloc
  BY DEF HeapInv
<1>2. /\ Adding' = Adding /\ \A u \in Adding : u \in Thread /\ request'[u].chunk = request[u].chunk
      /\ \A j \in Pool : Reserve(j)' = Reserve(j)
  BY DEF Adding, Reserve
<1>3. RequestInv'
  BY <1>1, <1>2 DEF RequestInv, ARequest, Steps, Pool, FreeBlock, NoBlock, Block
<1>4. ListInv'
  BY <1>1 DEF ListInv, Pool, Memory
<1>5. ApartInv'
  BY <1>1, <1>2 DEF ApartInv, Pool, Bytes, End
<1>6. FromMalloc'
  BY <1>1, <1>2 DEF FromMalloc, Pool, Bytes, End
<1>7. MallocInv' /\ Pending' = Pending
  BY <1>2, MallocStays DEF HeapInv
<1> QED BY <1>3, <1>4, <1>5, <1>6, <1>7 DEF HeapInv

LEMMA FailsKeepsInv ==
    ASSUME HeapInv, NEW t \in Thread, NEW i, NEW next \in {"steal", "malloc"}, NEW p \in Pool,
           Fails(t, i, next, p), pc[t] \notin {"idle", "add"}
    PROVE  HeapInv' /\ UNCHANGED <<freeList, held, malloced, Pending>>
<1>1. RequestInv /\ request \in [Thread -> ARequest] /\ pc \in [Thread -> Steps] /\ request[t] \in ARequest
  BY DEF HeapInv, RequestInv
<1>2. /\ UNCHANGED <<freeList, held, malloced, new_mem_map>> /\ pc' = [pc EXCEPT ![t] = next]
      /\ request' = [u \in Thread |-> IF u = t THEN [request[t] EXCEPT !.pool = p] ELSE request[u]]
  BY <1>1 DEF Fails, Goto
<1>3. /\ [request[t] EXCEPT !.pool = p] \in ARequest
      /\ [request[t] EXCEPT !.pool = p].chunk = request[t].chunk
      /\ [request[t] EXCEPT !.pool = p].size = request[t].size
  BY <1>1 DEF ARequest
<1>4. request' \in [Thread -> ARequest] /\ pc' \in [Thread -> Steps]
  BY <1>1, <1>2, <1>3 DEF Steps
<1>5. \A u \in Thread : /\ request'[u].chunk = request[u].chunk
                        /\ pc'[u] = "add" <=> pc[u] = "add"
                        /\ pc'[u] # "idle" => request'[u].size \in Size
  BY <1>1, <1>2, <1>3 DEF RequestInv
<1> QED BY <1>2, <1>4, <1>5, QuietKeepsInv

LEMMA BeginKeepsInv ==
    ASSUME HeapInv, NEW t \in Thread, NEW s \in Size, allocate_from_freelist(t, s)
    PROVE  HeapInv' /\ UNCHANGED <<freeList, held, malloced, Pending>>
<1>1. RequestInv /\ request \in [Thread -> ARequest] /\ pc \in [Thread -> Steps] /\ request[t] \in ARequest
  BY DEF HeapInv, RequestInv
<1>2. /\ UNCHANGED <<freeList, held, malloced, new_mem_map>> /\ pc' = [pc EXCEPT ![t] = "own"] /\ pc[t] = "idle"
      /\ request' = [u \in Thread |-> IF u = t THEN [request[t] EXCEPT !.size = s] ELSE request[u]]
  BY <1>1 DEF allocate_from_freelist, Goto, At
<1>3. /\ [request[t] EXCEPT !.size = s] \in ARequest
      /\ [request[t] EXCEPT !.size = s].chunk = request[t].chunk
      /\ [request[t] EXCEPT !.size = s].size = s
  BY <1>1, ManagerAssumption DEF ARequest
<1>4. request' \in [Thread -> ARequest] /\ pc' \in [Thread -> Steps]
  BY <1>1, <1>2, <1>3 DEF Steps
<1>5. \A u \in Thread : /\ request'[u].chunk = request[u].chunk
                        /\ pc'[u] = "add" <=> pc[u] = "add"
                        /\ pc'[u] # "idle" => request'[u].size \in Size
  BY <1>1, <1>2, <1>3 DEF RequestInv
<1> QED BY <1>2, <1>4, <1>5, QuietKeepsInv

LEMMA MallocFailsKeepsInv ==
    ASSUME HeapInv, NEW t \in Thread, mallocFails(t)
    PROVE  HeapInv' /\ UNCHANGED <<freeList, held, malloced, Pending>>
<1>1. RequestInv /\ request \in [Thread -> ARequest] /\ pc \in [Thread -> Steps]
  BY DEF HeapInv, RequestInv
<1>2. UNCHANGED <<freeList, held, malloced, new_mem_map, request>> /\ pc' = [pc EXCEPT ![t] = "again"] /\ pc[t] = "malloc"
  BY DEF mallocFails, Goto, At
<1>3. request' \in [Thread -> ARequest] /\ pc' \in [Thread -> Steps]
  BY <1>1, <1>2 DEF Steps
<1>4. \A u \in Thread : /\ request'[u].chunk = request[u].chunk
                        /\ pc'[u] = "add" <=> pc[u] = "add"
                        /\ pc'[u] # "idle" => request'[u].size \in Size
  BY <1>1, <1>2 DEF RequestInv
<1> QED BY <1>2, <1>3, <1>4, QuietKeepsInv

(* What is given back leaves the reserve; what stays is still malloc's.    *)
LEMMA ReturnKeepsInv ==
    ASSUME HeapInv, NEW i \in Pool, return_reserved(i)
    PROVE  /\ HeapInv' /\ held' = held /\ Pending' = Pending
           /\ \E G : /\ G \subseteq Reserve(i) /\ Reserve(i)' = Reserve(i) \ G
                     /\ \A j \in Pool : j # i => Reserve(j)' = Reserve(j)
                     /\ BytesOf(malloced') = BytesOf(malloced) \ G
<1>1. RequestInv /\ ListInv /\ ApartInv /\ FromMalloc /\ MallocInv
  BY DEF HeapInv
<1>2. PICK acc : acc = FoldLeft(ReturnFrom, [list |-> <<>>, map |-> new_mem_map[i]], freeList[i])
  OBVIOUS
<1>3. /\ freeList' = [freeList EXCEPT ![i] = acc.list] /\ new_mem_map' = [new_mem_map EXCEPT ![i] = acc.map]
      /\ malloced' = malloced \ (new_mem_map[i] \ acc.map)
      /\ held' = held /\ pc' = pc /\ request' = request
  BY <1>2 DEF return_reserved
<1>4. PICK G : G = BytesOf(new_mem_map[i] \ acc.map)
  OBVIOUS
<1>5. /\ Sorted(acc.list) /\ acc.map \subseteq new_mem_map[i]
      /\ G \subseteq Reserve(i) /\ Listed(acc.list) = Reserve(i) \ G
  <2>1. Sorted(freeList[i]) /\ new_mem_map[i] \in SUBSET FreeBlock
    BY <1>1 DEF ListInv, MallocInv
  <2> QED BY <2>1, <1>2, <1>4, ReturnKeeps DEF Reserve
<1>6. /\ DOMAIN freeList' = Pool /\ freeList'[i] = acc.list
      /\ \A j \in Pool : j # i => freeList'[j] = freeList[j]
  BY <1>1, <1>3 DEF ListInv
<1>7. /\ Reserve(i)' = Reserve(i) \ G /\ \A j \in Pool : j # i => Reserve(j)' = Reserve(j)
      /\ \A j \in Pool : Reserve(j)' \subseteq Reserve(j) /\ Reserve(j)' \cap G = {}
  <2>1. Reserve(i)' = Reserve(i) \ G /\ \A j \in Pool : j # i => Reserve(j)' = Reserve(j)
    BY <1>5, <1>6 DEF Reserve
  <2> QED BY <2>1, <1>1, <1>5 DEF ApartInv
<1>8. BytesOf(malloced') = BytesOf(malloced) \ G
  <2>1. ASSUME NEW x \in BytesOf(malloced), x \notin G PROVE x \in BytesOf(malloced')
    BY <2>1, <1>3, <1>4 DEF BytesOf
  <2>2. ASSUME NEW x \in BytesOf(malloced') PROVE x \in BytesOf(malloced) /\ x \notin G
    <3>1. PICK c \in malloced' : x \in Bytes(c)
      BY DEF BytesOf
    <3>2. c \in malloced /\ c \notin new_mem_map[i] \ acc.map
      BY <1>3
    <3>3. ASSUME NEW d \in new_mem_map[i] \ acc.map PROVE x \notin Bytes(d)
      <4>1. d \in malloced /\ d # c
        BY <3>2, <1>1 DEF MallocInv
      <4> QED BY <4>1, <3>1, <3>2, <1>1 DEF MallocInv
    <3> QED BY <3>1, <3>2, <3>3, <1>4 DEF BytesOf
  <2> QED BY <2>1, <2>2
<1>9. RequestInv' /\ Adding' = Adding /\ Pending' = Pending
  BY <1>1, <1>3 DEF RequestInv, Adding, Pending, ARequest, Steps, Pool, FreeBlock, NoBlock, Block
<1>10. ListInv'
  <2>1. \A j \in Pool : Sorted(freeList'[j])
    BY <1>1, <1>5, <1>6 DEF ListInv
  <2>2. BytesOf(malloced') \subseteq Memory
    BY <1>1, <1>8 DEF ListInv
  <2> QED BY <2>1, <2>2, <1>1, <1>3, <1>6 DEF ListInv, Pool, Memory
<1>11. ApartInv'
  <2>1. \A j, k \in Pool : j # k => Reserve(j)' \cap Reserve(k)' = {}
    BY <1>1, <1>7 DEF ApartInv
  <2>2. \A j \in Pool, b \in held : Reserve(j)' \cap Bytes(b) = {}
    BY <1>1, <1>7 DEF ApartInv
  <2>3. \A u \in Adding : \A j \in Pool : Bytes(request[u].chunk) \cap Reserve(j)' = {}
    BY <1>1, <1>7 DEF ApartInv
  <2> QED BY <2>1, <2>2, <2>3, <1>1, <1>3, <1>9 DEF ApartInv, Pool, Bytes, End
<1>12. FromMalloc'
  <2>1. \A j \in Pool : Reserve(j)' \subseteq BytesOf(malloced')
    BY <1>1, <1>7, <1>8 DEF FromMalloc
  <2>2. \A b \in held : Bytes(b) \subseteq BytesOf(malloced')
    BY <1>1, <1>5, <1>8 DEF FromMalloc, ApartInv
  <2>3. \A u \in Adding : Bytes(request[u].chunk) \subseteq BytesOf(malloced')
    BY <1>1, <1>5, <1>8 DEF FromMalloc, ApartInv
  <2> QED BY <2>1, <2>2, <2>3, <1>3, <1>9 DEF FromMalloc, Pool, Bytes, End
<1>13. MallocInv'
  <2>1. /\ DOMAIN new_mem_map' = Pool /\ new_mem_map'[i] = acc.map
        /\ \A j \in Pool : j # i => new_mem_map'[j] = new_mem_map[j]
    BY <1>1, <1>3 DEF MallocInv
  <2>2. \A j \in Pool : new_mem_map'[j] \subseteq new_mem_map[j]
    BY <2>1, <1>5
  <2>3. \A j \in Pool : new_mem_map'[j] \subseteq malloced'
    <3>1. acc.map \subseteq malloced'
      BY <1>1, <1>3, <1>5 DEF MallocInv
    <3>2. \A j \in Pool : j # i => new_mem_map[j] \subseteq malloced'
      BY <1>1, <1>3 DEF MallocInv
    <3> QED BY <2>1, <3>1, <3>2
  <2>4. \A j, k \in Pool : j # k => new_mem_map'[j] \cap new_mem_map'[k] = {}
    <3> SUFFICES ASSUME NEW j \in Pool, NEW k \in Pool, j # k
                 PROVE  new_mem_map'[j] \cap new_mem_map'[k] = {}
      OBVIOUS
    <3>1. new_mem_map[j] \cap new_mem_map[k] = {}
      BY <1>1 DEF MallocInv
    <3> QED BY <3>1, <2>2
  <2>5. \A u \in Adding : /\ request[u].chunk \in malloced'
                          /\ \A j \in Pool : request[u].chunk \notin new_mem_map'[j]
    BY <2>2, <1>1, <1>3 DEF MallocInv
  <2>6. malloced' \subseteq FreeBlock /\ \A c, d \in malloced' : c # d => Bytes(c) \cap Bytes(d) = {}
    BY <1>1, <1>3 DEF MallocInv
  <2> QED BY <2>1, <2>3, <2>4, <2>5, <2>6, <1>3, <1>9 DEF MallocInv, Pool, FreeBlock, Bytes, End
<1> QED BY <1>3, <1>5, <1>7, <1>8, <1>9, <1>10, <1>11, <1>12, <1>13 DEF HeapInv

(* What a pool is asked for it gives or refuses.                           *)
LEMMA PoolsAsked ==
    ASSUME RequestInv, NEW t \in Thread, OwnPool(t) \/ Steal(t) \/ Again(t)
    PROVE  /\ pc[t] \notin {"idle", "add"}
           /\ \E i \in Pool : \/ Allocates(t, i)
                              \/ \E next \in {"steal", "malloc"}, p \in Pool : Fails(t, i, next, p)
<1>1. PoolIdx[t] \in Pool /\ 0 \in Pool /\ request[t].pool \in Pool /\ poolCount \in Nat
  BY ManagerAssumption DEF RequestInv, ARequest, Pool
<1>2. CASE OwnPool(t)
  BY <1>1, <1>2 DEF OwnPool, At
<1>3. CASE Again(t)
  BY <1>1, <1>3 DEF Again, At
<1>4. CASE Steal(t)
  <2>1. request[t].pool + 1 < poolCount => request[t].pool + 1 \in Pool
    BY <1>1 DEF Pool
  <2> QED BY <1>1, <1>4, <2>1 DEF Steal, At
<1> QED BY <1>2, <1>3, <1>4

LEMMA InitHeapInv == Init => HeapInv
<1> SUFFICES ASSUME Init PROVE HeapInv
  OBVIOUS
<1>1. PICK f \in FirstChunks :
         /\ freeList = [i \in Pool |-> <<f[i]>>] /\ malloced = {f[i] : i \in Pool}
         /\ new_mem_map = [i \in Pool |-> IF recordNewMemMap THEN {f[i]} ELSE {}]
  BY DEF Init
<1>2. held = {} /\ pc = [t \in Thread |-> "idle"] /\ request = [t \in Thread |-> NoRequest]
  BY DEF Init
<1>3. /\ \A i \in Pool : f[i] \in FreeBlock /\ f[i].address \in Memory /\ End(f[i]) <= MemorySize
      /\ \A i, j \in Pool : i # j => Bytes(f[i]) \cap Bytes(f[j]) = {}
  BY ManagerAssumption DEF FirstChunks, FreeBlock, Memory
<1>4. ASSUME NEW i \in Pool PROVE Sorted(freeList[i]) /\ Reserve(i) = Bytes(f[i]) /\ Bytes(f[i]) \subseteq Memory
  <2>1. freeList[i] = <<f[i]>> /\ f[i] \in FreeBlock
    BY <1>1, <1>3
  <2>2. Sorted(freeList[i])
    BY <2>1 DEF Sorted
  <2>3. Reserve(i) = Bytes(f[i])
    <3>1. freeList[i] \in Seq(FreeBlock) /\ Len(freeList[i]) = 1 /\ freeList[i][1] = f[i]
      BY <2>1
    <3>2. \A x : x \in Listed(freeList[i]) <=>
                \E k \in 1 .. Len(freeList[i]) : x \in Bytes(freeList[i][k])
      BY <3>1, ListedBytes
    <3>3. \A k : k \in 1 .. Len(freeList[i]) <=> k = 1
      BY <3>1
    <3>4. \A x : x \in Listed(freeList[i]) <=> x \in Bytes(f[i])
      BY <3>1, <3>2, <3>3, Zenon
    <3> QED BY <3>4 DEF Reserve
  <2>4. Bytes(f[i]) \subseteq Memory
    <3>1. End(f[i]) <= MemorySize /\ f[i].address \in Nat /\ End(f[i]) \in Nat /\ MemorySize \in Nat
      BY <1>3, <2>1, BlockBytes, ManagerAssumption
    <3> QED BY <3>1 DEF Memory, Bytes
  <2> QED BY <2>2, <2>3, <2>4
<1>5. RequestInv
  <2>1. NoRequest \in ARequest
    BY ManagerAssumption DEF NoRequest, ARequest, Pool
  <2> QED BY <2>1, <1>2 DEF RequestInv, Adding, Steps
<1>6. ListInv
  <2>1. DOMAIN freeList = Pool
    BY <1>1
  <2>2. BytesOf(malloced) \subseteq Memory
    BY <1>1, <1>4 DEF BytesOf
  <2> QED BY <2>1, <2>2, <1>2, <1>4 DEF ListInv
<1>7. ApartInv
  BY <1>2, <1>3, <1>4 DEF ApartInv, Adding
<1>8. FromMalloc
  <2>1. \A i \in Pool : Bytes(f[i]) \subseteq BytesOf(malloced)
    BY <1>1 DEF BytesOf
  <2> QED BY <2>1, <1>2, <1>4 DEF FromMalloc, Adding
<1>9. MallocInv
  <2>1. \A i, j \in Pool : i # j => f[i] # f[j]
    <3>1. \A i \in Pool : f[i].address \in Bytes(f[i])
      BY <1>3, BlockBytes
    <3> QED BY <3>1, <1>3
  <2>2. /\ malloced \subseteq FreeBlock /\ Adding = {}
        /\ \A c, d \in malloced : c # d => Bytes(c) \cap Bytes(d) = {}
    BY <1>1, <1>2, <1>3 DEF Adding
  <2>3. /\ DOMAIN new_mem_map = Pool /\ \A i \in Pool : new_mem_map[i] \subseteq malloced
        /\ \A i, j \in Pool : i # j => new_mem_map[i] \cap new_mem_map[j] = {}
    BY <1>1, <2>1
  <2> QED BY <2>2, <2>3 DEF MallocInv
<1> QED BY <1>5, <1>6, <1>7, <1>8, <1>9 DEF HeapInv

(* One step: the invariant is kept, and to a region it is a step of one    *)
(* heap.                                                                   *)
system == BytesOf(malloced)
reserve == (UNION {BytesOf(Elements(freeList[i])) : i \in Pool}) \cup BytesOf(Pending)
LEMMA ReserveUnion == reserve = (UNION {Reserve(i) : i \in Pool}) \cup BytesOf(Pending)
BY DEF reserve, Reserve, Listed

LEMMA NextKeepsHeapInv ==
    ASSUME HeapInv, [Next]_vars
    PROVE  HeapInv' /\ [Heap!Next]_<<system, reserve, held>>
<1>1. RequestInv /\ ListInv /\ ApartInv /\ FromMalloc
  BY DEF HeapInv
<1>2. ASSUME UNCHANGED <<freeList, held, malloced, Pending>> PROVE UNCHANGED <<system, reserve, held>>
  BY <1>2 DEF system, reserve, Pool, BytesOf, Bytes, End
<1>3. /\ \A x : x \in reserve <=> (\E j \in Pool : x \in Reserve(j)) \/ x \in BytesOf(Pending)
      /\ \A x : x \in reserve' <=> (\E j \in Pool : x \in Reserve(j)') \/ x \in BytesOf(Pending')
  <2>1. reserve' = (UNION {Reserve(j)' : j \in Pool}) \cup BytesOf(Pending')
    BY DEF reserve, Reserve, Listed, Pool, BytesOf, Elements, Bytes, End
  <2> QED BY <2>1, ReserveUnion
<1>4. ASSUME malloced' = malloced PROVE system' = system
  BY <1>4 DEF system, BytesOf, Bytes, End
<1>5. BytesOf(Pending)' = BytesOf(Pending') /\ BytesOf(malloced)' = BytesOf(malloced')
  BY DEF BytesOf, Bytes, End
<1>6. ASSUME NEW t \in Thread, NEW i \in Pool, Allocates(t, i), pc[t] \notin {"idle", "add"}
      PROVE  HeapInv' /\ Heap!Allocate
  <2>1. HeapInv' /\ malloced' = malloced /\ Pending' = Pending
    BY <1>6, AllocatesKeepsInv
  <2>2. PICK b \in FreeBlock : /\ b.size \in Size /\ held' = held \cup {b}
                               /\ Bytes(b) \subseteq Reserve(i) /\ Reserve(i)' = Reserve(i) \ Bytes(b)
                               /\ \A j \in Pool : j # i => Reserve(j)' = Reserve(j)
    BY <1>6, AllocatesKeepsInv
  <2>3. Bytes(b) \subseteq reserve
    BY <2>2, ReserveUnion
  <2>4. \A j \in Pool : Reserve(j)' = Reserve(j) \ Bytes(b)
    BY <2>2, <1>1 DEF ApartInv
  <2>5. BytesOf(Pending) \cap Bytes(b) = {}
    BY <2>2, <1>1 DEF ApartInv, Pending, BytesOf
  <2>6. reserve' = reserve \ Bytes(b)
    <3>1. \A x : x \in reserve' <=> x \in reserve /\ x \notin Bytes(b)
      BY <2>1, <2>4, <2>5, <1>3
    <3> QED BY <3>1
  <2>7. b \in [address : Memory, size : Size]
    <3>1. b.address \in Bytes(b)
      BY BlockBytes
    <3>2. b.address \in Memory
      BY <3>1, <2>2, <1>1 DEF FromMalloc, ListInv
    <3> QED BY <3>2, <2>2 DEF FreeBlock
  <2>8. Heap!Bytes(b) = Bytes(b)
    BY HeapBytes
  <2>9. system' = system
    BY <2>1, <1>4
  <2> QED BY <2>1, <2>2, <2>3, <2>6, <2>7, <2>8, <2>9 DEF Heap!Allocate, reserve, system
<1>7. ASSUME NEW t \in Thread, NEW b \in held, freeBlock(t, b) PROVE HeapInv' /\ Heap!Free
  <2>1. /\ HeapInv' /\ held' = held \ {b} /\ Reserve(PoolIdx[t])' = Reserve(PoolIdx[t]) \cup Bytes(b)
        /\ \A j \in Pool : j # PoolIdx[t] => Reserve(j)' = Reserve(j)
        /\ malloced' = malloced /\ Pending' = Pending
    BY <1>7, FreeBlockKeepsInv
  <2>2. PoolIdx[t] \in Pool
    BY ManagerAssumption
  <2>3. reserve' = reserve \cup Bytes(b)
    <3>1. \A x : x \in reserve' <=> x \in reserve \/ x \in Bytes(b)
      BY <2>1, <2>2, <1>3
    <3> QED BY <3>1
  <2>4. Heap!Bytes(b) = Bytes(b)
    BY <1>1, HeapBytes DEF ListInv
  <2>5. system' = system
    BY <2>1, <1>4
  <2> QED BY <2>1, <2>3, <2>4, <2>5 DEF Heap!Free, reserve, system
<1>8. ASSUME NEW t \in Thread, AddFree(t) PROVE HeapInv' /\ UNCHANGED <<system, reserve, held>>
  <2>1. /\ HeapInv' /\ held' = held /\ malloced' = malloced
        /\ BytesOf(Pending) = BytesOf(Pending') \cup Bytes(request[t].chunk)
        /\ Reserve(PoolIdx[t])' = Reserve(PoolIdx[t]) \cup Bytes(request[t].chunk)
        /\ \A j \in Pool : j # PoolIdx[t] => Reserve(j)' = Reserve(j)
    BY <1>8, AddFreeKeepsInv
  <2>2. PoolIdx[t] \in Pool
    BY ManagerAssumption
  <2>3. reserve' = reserve
    <3>1. \A x : x \in reserve' <=> x \in reserve
      <4> TAKE x
      <4>1. x \in BytesOf(Pending) <=> x \in BytesOf(Pending') \/ x \in Bytes(request[t].chunk)
        BY <2>1
      <4>2. (\E j \in Pool : x \in Reserve(j)') <=> (\E j \in Pool : x \in Reserve(j)) \/ x \in Bytes(request[t].chunk)
        BY <2>1, <2>2
      <4> QED BY <4>1, <4>2, <1>3
    <3> QED BY <3>1
  <2> QED BY <2>1, <2>3, <1>4
<1>9. ASSUME NEW t \in Thread, add_memory(t) PROVE HeapInv' /\ Heap!Grow
  <2>1. HeapInv' /\ UNCHANGED <<freeList, held>>
    BY <1>9, AddMemoryKeepsInv
  <2>2. PICK b \in FreeBlock : /\ Bytes(b) \subseteq Memory /\ Bytes(b) \cap BytesOf(malloced) = {}
                               /\ BytesOf(malloced') = BytesOf(malloced) \cup Bytes(b)
                               /\ BytesOf(Pending') = BytesOf(Pending) \cup Bytes(b)
    BY <1>9, AddMemoryKeepsInv
  <2>3. \A j \in Pool : Reserve(j)' = Reserve(j)
    BY <2>1 DEF Reserve
  <2>4. reserve' = reserve \cup Bytes(b)
    <3>1. \A x : x \in reserve' <=> x \in reserve \/ x \in Bytes(b)
      BY <2>2, <2>3, <1>3
    <3> QED BY <3>1
  <2>5. system' = system \cup Bytes(b) /\ system \cap Bytes(b) = {} /\ system \subseteq Memory
    BY <2>2, <1>1, <1>5 DEF system, ListInv
  <2>6. /\ system \subseteq system' /\ system' \subseteq Memory
        /\ reserve' = reserve \cup (system' \ system)
    BY <2>2, <2>4, <2>5
  <2> QED BY <2>1, <2>6 DEF Heap!Grow, reserve, system
<1>10. ASSUME NEW i \in Pool, return_reserved(i) PROVE HeapInv' /\ Heap!Shrink
  <2>1. HeapInv' /\ held' = held /\ Pending' = Pending
    BY <1>10, ReturnKeepsInv
  <2>2. PICK G : /\ G \subseteq Reserve(i) /\ Reserve(i)' = Reserve(i) \ G
                 /\ \A j \in Pool : j # i => Reserve(j)' = Reserve(j)
                 /\ BytesOf(malloced') = BytesOf(malloced) \ G
    BY <1>10, ReturnKeepsInv
  <2>3. \A j \in Pool : Reserve(j)' = Reserve(j) \ G
    BY <2>2, <1>1 DEF ApartInv
  <2>4. BytesOf(Pending) \cap G = {}
    BY <2>2, <1>1 DEF ApartInv, Pending, BytesOf
  <2>5. reserve' = reserve \ G /\ G \subseteq reserve
    <3>1. \A x : x \in reserve' <=> x \in reserve /\ x \notin G
      BY <2>1, <2>3, <2>4, <1>3
    <3>2. \A x : x \in G => x \in reserve
      BY <2>2, <1>3
    <3> QED BY <3>1, <3>2
  <2>6. system' = system \ G /\ G \subseteq system
    BY <2>2, <1>1, <1>5 DEF system, FromMalloc
  <2>7. /\ system' \subseteq system /\ system \ system' \subseteq reserve
        /\ reserve' = reserve \ (system \ system')
    BY <2>5, <2>6
  <2> QED BY <2>1, <2>7 DEF Heap!Shrink, reserve, system
<1>11. ASSUME NEW t \in Thread, Allocating(t) PROVE HeapInv' /\ [Heap!Next]_<<system, reserve, held>>
  <2>1. CASE \E s \in Size : allocate_from_freelist(t, s)
    BY <2>1, <1>2, BeginKeepsInv
  <2>2. CASE OwnPool(t) \/ Steal(t) \/ Again(t)
    BY <2>2, <1>1, <1>2, <1>6, PoolsAsked, FailsKeepsInv DEF Heap!Next
  <2>3. CASE add_memory(t)
    BY <2>3, <1>9 DEF Heap!Next
  <2>4. CASE mallocFails(t)
    BY <2>4, <1>2, MallocFailsKeepsInv
  <2>5. CASE AddFree(t)
    BY <2>5, <1>8
  <2> QED BY <1>11, <2>1, <2>2, <2>3, <2>4, <2>5 DEF Allocating
<1>12. CASE UNCHANGED vars
  <2>1. UNCHANGED <<freeList, held, malloced, new_mem_map, pc, request>>
    BY <1>12 DEF vars
  <2>2. HeapInv' /\ Pending' = Pending
    BY <2>1, <1>1, QuietKeepsInv DEF RequestInv
  <2> QED BY <2>1, <2>2, <1>2
<1> QED BY <1>7, <1>10, <1>11, <1>12 DEF Next, Heap!Next

LEMMA InitHeap == Init => Heap!Init
<1> SUFFICES ASSUME Init PROVE Heap!Init
  OBVIOUS
<1>1. HeapInv /\ held = {} /\ Pending = {}
  BY InitHeapInv DEF Init, Pending, Adding
<1>2. PICK f \in FirstChunks : freeList = [i \in Pool |-> <<f[i]>>] /\ malloced = {f[i] : i \in Pool}
  BY DEF Init
<1>3. ASSUME NEW i \in Pool PROVE BytesOf(Elements(freeList[i])) = Bytes(f[i])
  <2>1. freeList[i] = <<f[i]>>
    BY <1>2
  <2>2. Elements(freeList[i]) = {f[i]}
    BY <2>1 DEF Elements
  <2> QED BY <2>2 DEF BytesOf
<1>4. reserve = system
  <2>1. BytesOf(Pending) = {}
    BY <1>1 DEF BytesOf
  <2>2. system = UNION {Bytes(f[i]) : i \in Pool}
    BY <1>2 DEF system, BytesOf
  <2> QED BY <2>1, <2>2, <1>3 DEF reserve
<1>5. system \in SUBSET Memory
  BY <1>1 DEF system, HeapInv, ListInv
<1> QED BY <1>1, <1>4, <1>5 DEF Heap!Init, reserve, system

(* The heap that the pools are accounts for every byte.                    *)
LEMMA HeapAccounts ==
    ASSUME Heap!Accounted, [Heap!Next]_<<system, reserve, held>>
    PROVE  Heap!Accounted'
<1>1. /\ reserve \cup Heap!Owned = system /\ reserve \cap Heap!Owned = {}
      /\ \A b, c \in held : b # c => Heap!Bytes(b) \cap Heap!Bytes(c) = {}
  BY DEF Heap!Accounted, reserve, system
<1>2. /\ \A x : x \in Heap!Owned <=> \E b \in held : x \in Heap!Bytes(b)
      /\ \A x : x \in Heap!Owned' <=> \E b \in held' : x \in Heap!Bytes(b)
  BY DEF Heap!Owned, Heap!Bytes
<1> SUFFICES /\ reserve' \cup Heap!Owned' = system' /\ reserve' \cap Heap!Owned' = {}
             /\ \A b, c \in held' : b # c => Heap!Bytes(b) \cap Heap!Bytes(c) = {}
  BY DEF Heap!Accounted, reserve, system, Heap!Bytes
<1>3. CASE Heap!Allocate
  <2>1. PICK b : /\ held' = held \cup {b} /\ Heap!Bytes(b) \subseteq reserve
                 /\ reserve' = reserve \ Heap!Bytes(b) /\ system' = system
    BY <1>3 DEF Heap!Allocate, reserve, system
  <2>2. Heap!Owned' = Heap!Owned \cup Heap!Bytes(b)
    BY <2>1, <1>2
  <2>3. \A c \in held : Heap!Bytes(b) \cap Heap!Bytes(c) = {}
    BY <2>1, <1>1, <1>2
  <2> QED BY <2>1, <2>2, <2>3, <1>1
<1>4. CASE Heap!Free
  <2>1. PICK b \in held : /\ held' = held \ {b} /\ reserve' = reserve \cup Heap!Bytes(b)
                          /\ system' = system
    BY <1>4 DEF Heap!Free, reserve, system
  <2>2. Heap!Owned' = Heap!Owned \ Heap!Bytes(b) /\ Heap!Bytes(b) \subseteq Heap!Owned
    BY <2>1, <1>1, <1>2
  <2> QED BY <2>1, <2>2, <1>1
<1>5. ASSUME held' = held PROVE Heap!Owned' = Heap!Owned
  BY <1>2, <1>5
<1>6. CASE Heap!Grow
  <2>1. system \subseteq system' /\ reserve' = reserve \cup (system' \ system) /\ held' = held
    BY <1>6 DEF Heap!Grow, reserve, system
  <2> QED BY <2>1, <1>1, <1>5
<1>7. CASE Heap!Shrink
  <2>1. /\ system' \subseteq system /\ system \ system' \subseteq reserve
        /\ reserve' = reserve \ (system \ system') /\ held' = held
    BY <1>7 DEF Heap!Shrink, reserve, system
  <2> QED BY <2>1, <1>1, <1>5
<1>8. CASE UNCHANGED <<system, reserve, held>>
  BY <1>1, <1>5, <1>8
<1> QED BY <1>3, <1>4, <1>6, <1>7, <1>8 DEF Heap!Next

LEMMA HeapInvariant == Spec => []HeapInv
<1>1. HeapInv /\ [Next]_vars => HeapInv'
  BY NextKeepsHeapInv
<1> QED BY <1>1, InitHeapInv, PTL DEF Spec

(* Each list of free blocks is in the order of the addresses and no two of *)
(* its blocks touch, for any memory, sizes and threads, whichever pool a   *)
(* block is allocated from and freed into, and also where a pool has given *)
(* chunks back from the middle of its blocks.                              *)
THEOREM PoolsStayInOrder == Spec => []ListsInOrder
<1>1. HeapInv => ListsInOrder
  <2> SUFFICES ASSUME HeapInv, NEW i \in Pool, NEW k \in 1 .. Len(freeList[i]) - 1
               PROVE  End(freeList[i][k]) < freeList[i][k + 1].address
    BY DEF ListsInOrder
  <2>1. Sorted(freeList[i])
    BY DEF HeapInv, ListInv
  <2>2. k \in 1 .. Len(freeList[i]) /\ k + 1 \in 1 .. Len(freeList[i]) /\ k < k + 1
    BY <2>1, ListBlocks
  <2> QED BY <2>1, <2>2 DEF Sorted
<1> QED BY <1>1, HeapInvariant, PTL

(* The pools are one heap, which gives a byte to one owner at a time,      *)
(* takes back what it gave and returns to the operating system only what   *)
(* it has in reserve, for any memory, sizes and threads.                   *)
THEOREM PoolsImplementHeap == Spec => ImplementsHeap
<1>1. Init => Heap!Init
  BY InitHeap
<1>2. HeapInv /\ [Next]_vars => [Heap!Next]_<<system, reserve, held>>
  BY NextKeepsHeapInv
<1> QED BY <1>1, <1>2, HeapInvariant, PTL DEF Spec, ImplementsHeap, Heap!Spec, reserve, system

(* Nothing is lost: every byte malloc gave and has not got back is in a    *)
(* list, in a chunk being added or in one block of one owner, and in no    *)
(* two of these places, for any memory, sizes and threads.                 *)
THEOREM PoolsLoseNothing == Spec => []Heap!Accounted
<1>1. Heap!Init => Heap!Accounted
  BY DEF Heap!Init, Heap!Accounted, Heap!Owned
<1>2. Heap!Accounted /\ [Heap!Next]_<<system, reserve, held>> => Heap!Accounted'
  BY HeapAccounts
<1>3. HeapInv /\ [Next]_vars => [Heap!Next]_<<system, reserve, held>>
  BY NextKeepsHeapInv
<1> QED BY <1>1, <1>2, <1>3, InitHeap, HeapInvariant, PTL DEF Spec

=============================================================================
