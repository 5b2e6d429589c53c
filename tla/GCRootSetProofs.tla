--------------------------- MODULE GCRootSetProofs ---------------------------
(***************************************************************************)
(* The array and the offsets of GCRootSet always agree; a scan reads each  *)
(* root once, however many ranges it is cut into, and the marking of its   *)
(* snapshot takes each element once, however many shares it is cut into:   *)
(* for any number of roots, of GC threads and any block size above one.    *)
(***************************************************************************)
EXTENDS GCRootSet, TLAPS

B == SINGLE_BLOCK_SIZE

(* A cell has a place in its block, and places tell cells apart: the       *)
(* arithmetic of block_idx and block_offset.                               *)
LEMMA DivMod ==
    ASSUME NEW p \in Nat
    PROVE  /\ BlockIdx(p) \in Nat \ {0} /\ Offset(p) \in 0 .. B - 1
           /\ p = (B * (BlockIdx(p) - 1)) + Offset(p)
<1>1. B \in Nat /\ B > 1
  BY RootSetAssumption DEF B
<1>2. /\ p \div B \in Nat /\ p % B \in 0 .. B - 1
      /\ p = (B * (p \div B)) + (p % B)
  BY <1>1
<1>3. BlockIdx(p) = (p \div B) + 1 /\ Offset(p) = p % B
  BY DEF BlockIdx, Offset, B
<1> QED BY <1>1, <1>2, <1>3

LEMMA PlaceTypes ==
    ASSUME NEW p \in Nat
    PROVE  BlockIdx(p) \in Nat \ {0} /\ Offset(p) \in 0 .. B - 1
BY DivMod

LEMMA PlacesDiffer ==
    ASSUME NEW p \in Nat, NEW q \in Nat, BlockIdx(p) = BlockIdx(q), Offset(p) = Offset(q)
    PROVE  p = q
BY DivMod

(* Cells lie in the order of their blocks. *)
LEMMA BlocksInOrder ==
    ASSUME NEW p \in Nat, NEW q \in Nat, p <= q
    PROVE  BlockIdx(p) <= BlockIdx(q)
<1> DEFINE a == BlockIdx(p) - 1
           b == BlockIdx(q) - 1
<1>1. B \in Nat /\ B > 1 /\ a \in Nat /\ b \in Nat
  BY DivMod, RootSetAssumption DEF B
<1>2. p = (B * a) + Offset(p) /\ q = (B * b) + Offset(q)
  BY DivMod
<1>3. Offset(p) \in 0 .. B - 1 /\ Offset(q) \in 0 .. B - 1
  BY DivMod
<1> HIDE DEF a, b
<1>4. a <= b
  BY <1>1, <1>2, <1>3
<1> QED BY <1>4, DivMod DEF a, b

(* The next cell is in the same block or in the next one. *)
LEMMA NextBlock ==
    ASSUME NEW p \in Nat
    PROVE  BlockIdx(p + 1) <= BlockIdx(p) + 1
<1> DEFINE a == BlockIdx(p) - 1
           b == BlockIdx(p + 1) - 1
<1>1. B \in Nat /\ B > 1 /\ a \in Nat /\ b \in Nat
  BY DivMod, RootSetAssumption DEF B
<1>2. p = (B * a) + Offset(p) /\ p + 1 = (B * b) + Offset(p + 1)
  BY DivMod
<1>3. Offset(p) \in 0 .. B - 1 /\ Offset(p + 1) \in 0 .. B - 1
  BY DivMod
<1> HIDE DEF a, b
<1>4. b <= a + 1
  BY <1>1, <1>2, <1>3
<1> QED BY <1>4, DivMod DEF a, b

(* The first block holds the first cell, since offset 0 is not its only one. *)
LEMMA FirstBlock == BlockIdx(1) = 1
<1> DEFINE a == BlockIdx(1) - 1
<1>1. B \in Nat /\ B > 1 /\ a \in Nat /\ Offset(1) \in Nat /\ 1 = (B * a) + Offset(1)
  BY DivMod, RootSetAssumption DEF B
<1> HIDE DEF a
<1>2. a = 0
  BY <1>1
<1> QED BY <1>2, DivMod DEF a

-----------------------------------------------------------------------------
(* The inductive invariant: remove throws only where the array and the     *)
(* offsets disagree, so the three need each other.                         *)
IInv == TypeOK /\ OffsetsAgree /\ NeverThrows

(* Every cell below the tail is in a block. *)
LEMMA CellsExist ==
    ASSUME TypeOK, NEW i \in 0 .. p_tail - 1, p_tail > 1
    PROVE  /\ BlockIdx(i) \in 1 .. Len(address_arr)
           /\ address_arr[BlockIdx(i)] \in Block /\ Offset(i) \in 0 .. B - 1
<1>1. /\ i \in Nat /\ p_tail - 1 \in Nat /\ i <= p_tail - 1
      /\ Len(address_arr) \in Nat /\ BlockIdx(p_tail - 1) <= Len(address_arr)
  BY DEF TypeOK
<1>2. /\ BlockIdx(i) \in Nat \ {0} /\ BlockIdx(p_tail - 1) \in Nat /\ Offset(i) \in 0 .. B - 1
      /\ BlockIdx(i) <= BlockIdx(p_tail - 1)
  BY <1>1, PlaceTypes, BlocksInOrder
<1>3. BlockIdx(i) \in 1 .. Len(address_arr)
  BY <1>1, <1>2
<1> QED BY <1>2, <1>3 DEF TypeOK

LEMMA InitIInv == Init => IInv
<1> SUFFICES ASSUME Init PROVE IInv
  OBVIOUS
<1>1. /\ address_arr = <<>> /\ p_tail = 1 /\ live = {} /\ thrown = FALSE
      /\ rootset_offset = [p \in Ptr |-> 0] /\ step = "idle"
  BY DEF Init
<1>2. address_arr \in Seq(Block) /\ rootset_offset \in [Ptr -> Nat]
  BY <1>1
<1>3. TypeOK
  <2>1. thrown \in BOOLEAN
    BY <1>1, Zenon
  <2> QED BY <1>1, <1>2, <2>1 DEF TypeOK
<1> QED BY <1>1, <1>3 DEF IInv, OffsetsAgree, NeverThrows

(* A new root at the tail. *)
LEMMA AddKeepsIInv ==
    ASSUME IInv, NEW from \in Ptr, add(from)
    PROVE  IInv'
<1> DEFINE arr == IF BlockIdx(p_tail) > Len(address_arr) THEN addBlock ELSE address_arr
<1>1. TypeOK /\ OffsetsAgree /\ ~thrown /\ from \notin live /\ p_tail \in Nat
  BY DEF IInv, NeverThrows, add, TypeOK
<1>2. Len(address_arr) \in Nat /\ BlockIdx(p_tail) \in Nat \ {0} /\ Offset(p_tail) \in 0 .. B - 1
  <2>1. address_arr \in Seq(Block)
    BY <1>1 DEF TypeOK
  <2>2. Len(address_arr) \in Nat
    BY <2>1
  <2>3. BlockIdx(p_tail) \in Nat \ {0} /\ Offset(p_tail) \in 0 .. B - 1
    BY <1>1, PlaceTypes
  <2> QED BY <2>2, <2>3
<1>3. BlockIdx(p_tail) <= Len(address_arr) + 1
  <2>1. CASE p_tail = 1
    BY <2>1, <1>2, FirstBlock
  <2>2. CASE p_tail > 1
    <3>1. BlockIdx((p_tail - 1) + 1) <= BlockIdx(p_tail - 1) + 1
      BY <2>2, <1>1, NextBlock
    <3>2. (p_tail - 1) + 1 = p_tail /\ BlockIdx(p_tail - 1) \in Nat
      BY <2>2, <1>1, PlaceTypes
    <3> QED BY <3>1, <3>2, <2>2, <1>1, <1>2 DEF TypeOK
  <2> QED BY <2>1, <2>2, <1>1 DEF TypeOK
<1>4. /\ arr \in Seq(Block) /\ Len(arr) \in Nat /\ BlockIdx(p_tail) \in 1 .. Len(arr)
      /\ Len(address_arr) <= Len(arr)
      /\ \A k \in 1 .. Len(address_arr) : arr[k] = address_arr[k]
  <2> DEFINE blk == [o \in 0 .. SINGLE_BLOCK_SIZE - 1 |-> Unset]
  <2>1. blk \in Block /\ address_arr \in Seq(Block) /\ addBlock = Append(address_arr, blk)
    BY <1>1 DEF Block, TypeOK, addBlock
  <2> HIDE DEF blk
  <2>2. /\ addBlock \in Seq(Block) /\ Len(addBlock) = Len(address_arr) + 1
        /\ \A k \in 1 .. Len(address_arr) : addBlock[k] = address_arr[k]
    BY <2>1
  <2> QED BY <2>1, <2>2, <1>2, <1>3
<1> DEFINE bi == BlockIdx(p_tail)
           bo == Offset(p_tail)
<1>5. address_arr' = [arr EXCEPT ![bi] = [arr[bi] EXCEPT ![bo] = from]]
  BY DEF add
<1> HIDE DEF arr
<1>6. arr[bi] \in Block /\ [arr[bi] EXCEPT ![bo] = from] \in Block
  BY <1>2, <1>4 DEF Block, B
<1>7. address_arr' \in Seq(Block) /\ Len(address_arr') = Len(arr)
  BY <1>4, <1>5, <1>6
<1>8. p_tail' = p_tail + 1 /\ live' = live \cup {from} /\ ~thrown'
  BY <1>1 DEF add
<1>9. rootset_offset' = [rootset_offset EXCEPT ![from] = p_tail] /\ rootset_offset' \in [Ptr -> Nat]
  BY <1>1 DEF add, TypeOK
<1>10. address_arr'[bi][bo] = from
  <2>1. address_arr'[bi] = [arr[bi] EXCEPT ![bo] = from]
    BY <1>4, <1>5
  <2> QED BY <2>1, <1>6, <1>2 DEF Block, B
<1>11. ASSUME NEW i \in 1 .. p_tail - 1 PROVE address_arr'[BlockIdx(i)][Offset(i)] = Cell(i)
  <2>1. /\ BlockIdx(i) \in 1 .. Len(address_arr) /\ Offset(i) \in 0 .. B - 1
    BY <1>1, CellsExist
  <2>2. arr[BlockIdx(i)] = address_arr[BlockIdx(i)] /\ BlockIdx(i) \in 1 .. Len(arr)
    BY <2>1, <1>4, <1>2
  <2>3. CASE BlockIdx(i) # bi
    BY <2>2, <2>3, <1>4, <1>5 DEF Cell
  <2>4. CASE BlockIdx(i) = bi
    <3>1. Offset(i) # bo
      BY <2>4, PlacesDiffer, <1>1
    <3>2. address_arr'[bi] = [arr[bi] EXCEPT ![bo] = from]
      BY <1>4, <1>5
    <3>3. address_arr'[bi][Offset(i)] = arr[bi][Offset(i)]
      BY <3>1, <3>2, <2>1, <1>6 DEF Block, B
    <3> QED BY <3>3, <2>2, <2>4 DEF Cell
  <2> QED BY <2>3, <2>4
<1>12. TypeOK'
  <2>1. (p_tail > 1 => BlockIdx(p_tail - 1) <= Len(address_arr))'
    <3>1. p_tail' - 1 = p_tail
      BY <1>8, <1>1
    <3>2. BlockIdx(p_tail' - 1) <= Len(address_arr')
      BY <3>1, <1>7, <1>4
    <3> QED BY <3>2 DEF BlockIdx
  <2>2. p_tail' \in Nat \ {0} /\ live' \subseteq Ptr
    BY <1>1, <1>8 DEF TypeOK
  <2>3. thrown' = thrown /\ step' = step
    BY DEF add, scanVars
  <2>4. thrown' \in BOOLEAN /\ step' \in {"idle", "scan", "mark"}
    BY <2>3, <1>1, Zenon DEF TypeOK
  <2>5. address_arr' \in Seq(Block)
    BY <1>7
  <2> QED BY <2>1, <2>2, <2>4, <2>5, <1>9, Zenon DEF TypeOK, Block
<1>13. OffsetsAgree'
  <2>1. ASSUME NEW p \in live'
        PROVE  rootset_offset'[p] \in 1 .. p_tail' - 1
               /\ address_arr'[BlockIdx(rootset_offset'[p])][Offset(rootset_offset'[p])] = p
    <3>1. CASE p = from
      <4>1. rootset_offset'[p] = p_tail
        BY <3>1, <1>9, <1>1 DEF TypeOK
      <4> QED BY <4>1, <3>1, <1>8, <1>10, <1>1 DEF TypeOK
    <3>2. CASE p \in live /\ p # from
      <4>1. rootset_offset'[p] = rootset_offset[p]
        BY <3>2, <1>9, <1>1 DEF TypeOK
      <4>2. rootset_offset[p] \in 1 .. p_tail - 1 /\ Cell(rootset_offset[p]) = p
        BY <3>2, <1>1 DEF OffsetsAgree
      <4> QED BY <4>1, <4>2, <1>11, <1>8, <1>1
    <3> QED BY <3>1, <3>2, <1>8
  <2>2. ASSUME NEW i \in 1 .. p_tail' - 1
        PROVE  /\ address_arr'[BlockIdx(i)][Offset(i)] \in live'
               /\ rootset_offset'[address_arr'[BlockIdx(i)][Offset(i)]] = i
    <3>1. CASE i = p_tail
      <4>1. address_arr'[BlockIdx(i)][Offset(i)] = from
        BY <3>1, <1>10
      <4> QED BY <4>1, <3>1, <1>8, <1>9, <1>1 DEF TypeOK
    <3>2. CASE i \in 1 .. p_tail - 1
      <4>1. address_arr'[BlockIdx(i)][Offset(i)] = Cell(i) /\ Cell(i) \in live /\ rootset_offset[Cell(i)] = i
        BY <3>2, <1>11, <1>1 DEF OffsetsAgree
      <4> QED BY <4>1, <1>8, <1>9, <1>1 DEF TypeOK
    <3> QED BY <3>1, <3>2, <1>8, <1>1
  <2> QED BY <2>1, <2>2 DEF OffsetsAgree, Cell, BlockIdx, Offset
<1> QED BY <1>8, <1>12, <1>13 DEF IInv, NeverThrows

(* The last root moves into the hole. *)
LEMMA UnlinkKeepsIInv ==
    ASSUME IInv, NEW from \in Ptr, from \in live, Unlink(from), UNCHANGED scanVars
    PROVE  IInv'
<1> DEFINE p == rootset_offset[from]
           bi == BlockIdx(p)
           bo == Offset(p)
           c_tail == Cell(p_tail - 1)
<1>1. /\ TypeOK /\ OffsetsAgree /\ ~thrown /\ from \in live
      /\ p_tail \in Nat /\ rootset_offset \in [Ptr -> Nat] /\ live \subseteq Ptr
  BY DEF IInv, NeverThrows, TypeOK
<1>2. p \in 1 .. p_tail - 1 /\ Cell(p) = from /\ p_tail > 1 /\ p \in Nat
  BY <1>1 DEF OffsetsAgree
<1>3. c_tail \in live /\ rootset_offset[c_tail] = p_tail - 1
  BY <1>1, <1>2 DEF OffsetsAgree
<1>4. /\ bi \in 1 .. Len(address_arr) /\ address_arr[bi] \in Block /\ bo \in 0 .. B - 1
  BY <1>1, <1>2, CellsExist
<1>5. /\ address_arr' = [address_arr EXCEPT ![bi] = [address_arr[bi] EXCEPT ![bo] = c_tail]]
      /\ rootset_offset' = [rootset_offset EXCEPT ![c_tail] = p]
      /\ p_tail' = p_tail - 1 /\ live' = live \ {from} /\ ~thrown'
  BY <1>1 DEF Unlink
<1>6. address_arr \in Seq(Block) /\ Len(address_arr) \in Nat
  BY <1>1 DEF TypeOK
<1>7. c_tail \in Ptr /\ rootset_offset' \in [Ptr -> Nat]
  BY <1>1, <1>2, <1>3, <1>5
<1> HIDE DEF p, bi, bo, c_tail
<1>8. [address_arr[bi] EXCEPT ![bo] = c_tail] \in Block
  BY <1>4, <1>7 DEF Block, B
<1>9. address_arr' \in Seq(Block) /\ Len(address_arr') = Len(address_arr)
  BY <1>4, <1>5, <1>6, <1>8
<1>10. address_arr'[bi][bo] = c_tail
  <2>1. address_arr'[bi] = [address_arr[bi] EXCEPT ![bo] = c_tail]
    BY <1>4, <1>5, <1>6
  <2> QED BY <2>1, <1>4 DEF Block, B
<1>11. ASSUME NEW i \in 1 .. p_tail - 1, i # p
       PROVE  address_arr'[BlockIdx(i)][Offset(i)] = Cell(i)
  <2>1. BlockIdx(i) \in 1 .. Len(address_arr) /\ Offset(i) \in 0 .. B - 1
    BY <1>1, <1>2, CellsExist
  <2>2. CASE BlockIdx(i) # bi
    BY <2>1, <2>2, <1>4, <1>5, <1>6 DEF Cell
  <2>3. CASE BlockIdx(i) = bi
    <3>1. Offset(i) # bo
      <4>1. i \in Nat /\ p \in Nat /\ i # p
        BY <1>1, <1>2, <1>11
      <4> QED BY <4>1, <2>3, PlacesDiffer DEF bi, bo
    <3>2. address_arr'[bi] = [address_arr[bi] EXCEPT ![bo] = c_tail]
      BY <1>4, <1>5, <1>6
    <3>3. address_arr'[bi][Offset(i)] = address_arr[bi][Offset(i)]
      BY <3>1, <3>2, <2>1, <1>4 DEF Block, B
    <3> QED BY <3>3, <2>3 DEF Cell
  <2> QED BY <2>2, <2>3
<1>12. TypeOK'
  <2>1. (p_tail > 1 => BlockIdx(p_tail - 1) <= Len(address_arr))'
    <3> SUFFICES ASSUME p_tail' > 1 PROVE BlockIdx(p_tail' - 1) <= Len(address_arr')
      BY DEF BlockIdx
    <3>1. p_tail' - 1 \in 0 .. p_tail - 1
      BY <1>1, <1>2, <1>5
    <3>2. BlockIdx(p_tail' - 1) \in 1 .. Len(address_arr)
      BY <3>1, <1>1, <1>2, CellsExist
    <3> QED BY <3>2, <1>9
  <2>2. p_tail' \in Nat \ {0}
    BY <1>1, <1>2, <1>5
  <2>3. thrown' = thrown /\ step' = step
    BY DEF Unlink, scanVars
  <2>4. thrown' \in BOOLEAN /\ step' \in {"idle", "scan", "mark"}
    BY <2>3, <1>1, Zenon DEF TypeOK
  <2>5. address_arr' \in Seq(Block) /\ live' \subseteq Ptr
    BY <1>1, <1>5, <1>9
  <2> QED BY <2>1, <2>2, <2>4, <2>5, <1>7, Zenon DEF TypeOK, Block
<1>13. OffsetsAgree'
  <2>1. ASSUME NEW q \in live'
        PROVE  /\ rootset_offset'[q] \in 1 .. p_tail' - 1
               /\ address_arr'[BlockIdx(rootset_offset'[q])][Offset(rootset_offset'[q])] = q
    <3>1. q \in live /\ q # from /\ q \in Ptr
      BY <1>1, <1>5
    <3>2. rootset_offset[q] \in 1 .. p_tail - 1 /\ Cell(rootset_offset[q]) = q
      BY <3>1, <1>1 DEF OffsetsAgree
    <3>3. CASE q = c_tail
      <4>1. p # p_tail - 1
        BY <3>1, <3>3, <1>2 DEF c_tail
      <4>2. rootset_offset'[q] = p
        BY <3>1, <3>3, <1>1, <1>5
      <4>3. address_arr'[BlockIdx(p)][Offset(p)] = q
        BY <3>3, <1>10 DEF bi, bo
      <4> QED BY <4>1, <4>2, <4>3, <1>1, <1>2, <1>5
    <3>4. CASE q # c_tail
      <4>1. rootset_offset'[q] = rootset_offset[q]
        BY <3>1, <3>4, <1>1, <1>5
      <4>2. rootset_offset[q] # p_tail - 1
        BY <3>2, <3>4 DEF c_tail
      <4>3. rootset_offset[q] # p
        BY <3>1, <3>2, <1>2
      <4> QED BY <4>1, <4>2, <4>3, <3>2, <1>1, <1>5, <1>11
    <3> QED BY <3>3, <3>4
  <2>2. ASSUME NEW i \in 1 .. p_tail' - 1
        PROVE  /\ address_arr'[BlockIdx(i)][Offset(i)] \in live'
               /\ rootset_offset'[address_arr'[BlockIdx(i)][Offset(i)]] = i
    <3>1. i \in 1 .. p_tail - 1 /\ i # p_tail - 1
      BY <1>1, <1>2, <1>5
    <3>2. CASE i = p
      <4>1. address_arr'[BlockIdx(i)][Offset(i)] = c_tail
        BY <3>2, <1>10 DEF bi, bo
      <4>2. c_tail # from
        BY <3>1, <3>2, <1>3, <1>5 DEF p
      <4> QED BY <4>1, <4>2, <3>2, <1>1, <1>3, <1>5, <1>7
    <3>3. CASE i # p
      <4>1. address_arr'[BlockIdx(i)][Offset(i)] = Cell(i) /\ Cell(i) \in live /\ rootset_offset[Cell(i)] = i
        BY <3>1, <3>3, <1>1, <1>11 DEF OffsetsAgree
      <4>2. Cell(i) # from /\ Cell(i) # c_tail
        BY <4>1, <3>1, <3>3, <1>3 DEF p
      <4> QED BY <4>1, <4>2, <1>1, <1>5
    <3> QED BY <3>2, <3>3
  <2> QED BY <2>1, <2>2 DEF OffsetsAgree, Cell, BlockIdx, Offset
<1> QED BY <1>5, <1>12, <1>13 DEF IInv, NeverThrows

(* Where the array and the offsets agree, a root can always be removed. *)
LEMMA RemovalFindsRoot ==
    ASSUME IInv, NEW from \in live
    PROVE  Removable(from)
BY DEF IInv, TypeOK, OffsetsAgree, Removable

(* A scan reads the array and leaves it alone. *)
LEMMA ScanKeepsIInv ==
    ASSUME IInv, ScanStep
    PROVE  IInv'
<1>1. UNCHANGED setVars /\ step' \in {"idle", "scan", "mark"}
  BY DEF ScanStep, beginMark, shareOut, endGC, mark_root, mark_v2, IInv, TypeOK
<1> QED BY <1>1 DEF setVars, IInv, TypeOK, OffsetsAgree, NeverThrows, Cell

LEMMA NextKeepsIInv == IInv /\ [Next]_vars => IInv'
<1> SUFFICES ASSUME IInv, [Next]_vars PROVE IInv'
  OBVIOUS
<1>1. CASE ScanStep
  BY <1>1, ScanKeepsIInv
<1>2. ASSUME NEW p \in Ptr, UserStep(p) PROVE IInv'
  <2>1. CASE add(p)
    BY <2>1, AddKeepsIInv
  <2>2. CASE remove(p)
    <3>1. p \in live /\ Removable(p)
      BY <2>2, RemovalFindsRoot DEF remove
    <3> QED BY <2>2, <3>1, UnlinkKeepsIInv DEF remove
  <2> QED BY <2>1, <2>2, <1>2 DEF UserStep
<1>3. CASE UNCHANGED vars
  BY <1>3 DEF vars, setVars, scanVars, IInv, TypeOK, OffsetsAgree, NeverThrows, Cell
<1> QED BY <1>1, <1>2, <1>3 DEF Next

LEMMA RootSetInvariant == Spec => []IInv
BY InitIInv, NextKeepsIInv, PTL DEF Spec

-----------------------------------------------------------------------------
(* The blocks, the tail and the offsets of GCRootSet keep to their types:  *)
(* no cell outside the blocks is ever read or written.                     *)
THEOREM RootSetTypeCorrect == Spec => []TypeOK
<1>1. IInv => TypeOK
  BY DEF IInv
<1> QED BY <1>1, RootSetInvariant, PTL

(* Each root is in the cell its offset names and each cell below the tail  *)
(* holds a root that names it, for any number of roots and any block size. *)
THEOREM RootSetOffsetsAgree == Spec => []OffsetsAgree
<1>1. IInv => OffsetsAgree
  BY DEF IInv
<1> QED BY <1>1, RootSetInvariant, PTL

(* The destructor of a root never meets an exception of remove. *)
THEOREM RootSetNeverThrows == Spec => []NeverThrows
<1>1. IInv => NeverThrows
  BY DEF IInv
<1> QED BY <1>1, RootSetInvariant, PTL

-----------------------------------------------------------------------------
(* The two divisions: consecutive multiples of any length cut the cells,   *)
(* and the last thread takes what is left.                                 *)
LEMMA MultiplesInOrder ==
    ASSUME NEW a \in Nat, NEW b \in Nat, NEW L \in Nat, a <= b
    PROVE  a * L \in Nat /\ b * L \in Nat /\ a * L <= b * L
<1>1. PICK d \in Nat : b = a + d
  <2>1. b - a \in Nat /\ b = a + (b - a)
    OBVIOUS
  <2> QED BY <2>1
<1>2. a * L \in Nat /\ d * L \in Nat /\ b * L = (a * L) + (d * L)
  BY <1>1
<1> QED BY <1>2

LEMMA SomeMultiple ==
    ASSUME NEW n \in Nat \ {0}, NEW L \in Nat, NEW c \in Nat, c < (n - 1) * L
    PROVE  \E i \in 0 .. n - 2 : i * L <= c /\ c < (i + 1) * L
<1>1. L # 0
  OBVIOUS
<1> DEFINE i == c \div L
<1>2. i \in Nat /\ c = (L * i) + (c % L) /\ c % L \in 0 .. L - 1
  BY <1>1
<1> HIDE DEF i
<1>3. i * L = L * i /\ (i + 1) * L = (L * i) + L /\ L * i \in Nat
  BY <1>2
<1>4. i * L <= c /\ c < (i + 1) * L
  BY <1>2, <1>3
<1>5. i <= n - 2
  <2> SUFFICES ASSUME n - 1 <= i PROVE FALSE
    BY <1>2
  <2>1. (n - 1) * L <= i * L
    BY <1>2, MultiplesInOrder
  <2> QED BY <2>1, <1>3, <1>4, <1>2
<1>6. i \in 0 .. n - 2
  BY <1>2, <1>5
<1> QED BY <1>4, <1>6, Zenon

LEMMA OneMore ==
    ASSUME NEW S, NEW c, c \notin S
    PROVE  SetToBag(S) (+) SetToBag({c}) = SetToBag(S \cup {c})
BY DEF SetToBag, (+)

-----------------------------------------------------------------------------
(* The scan.  Part(t) is what a thread is to read, Seen(t) what it has     *)
(* read; the parts cut the array and visited holds the cells seen, once.   *)
Cells == 1 .. p_tail - 1
Part(t) == {c \in Cells : iterator[t].p_start <= c /\ c < iterator[t].p_tail}
Seen(t) == {c \in Part(t) : c <= iterator[t].p}
Read == {c \in Cells : \E t \in DOMAIN iterator : c \in Seen(t)}
AnIterator == [p : Nat, p_start : Nat \ {0}, p_tail : Nat]

IteratorsCut ==
    /\ \A c \in Cells : \E t \in DOMAIN iterator : c \in Part(t)
    /\ \A t, u \in DOMAIN iterator : t # u => Part(t) \cap Part(u) = {}
IteratorTypes ==
    /\ DOMAIN iterator = {GC} \/ (gcThreadCount > 0 /\ DOMAIN iterator = Pool)
    /\ iterator \in [DOMAIN iterator -> AnIterator]
    /\ \A t \in DOMAIN iterator : iterator[t].p # 0 => iterator[t].p \in Part(t)
ScanInv ==
    step = "scan" => /\ IteratorTypes /\ IteratorsCut
                     /\ visited = SetToBag({Cell(c) : c \in Read})

(* Ranges of any length, the last one open, cut the cells. *)
LEMMA IteratorsAreCut ==
    ASSUME TypeOK, gcThreadCount > 0, iterator' = getIterators, p_tail' = p_tail
    PROVE  IteratorTypes' /\ IteratorsCut' /\ \A t \in DOMAIN iterator' : iterator'[t].p = 0
<1> DEFINE L == (getSize + gcThreadCount - 1) \div gcThreadCount
           n == gcThreadCount
           lo(i) == i * L + 1
           hi(i) == IF i = n - 1 THEN p_tail ELSE (i + 1) * L + 1
           it(i) == [p |-> 0, p_start |-> lo(i), p_tail |-> hi(i)]
<1>1. n \in Nat \ {0} /\ p_tail \in Nat \ {0} /\ getSize \in Nat
  BY RootSetAssumption DEF TypeOK, getSize
<1>2. L \in Nat
  BY <1>1
<1>3. getIterators = [i \in Pool |-> it(i)]
  BY DEF getIterators
<1>4. Pool = 0 .. n - 1
  BY DEF Pool
<1> HIDE DEF L, n
<1>5. ASSUME NEW i \in Pool PROVE lo(i) \in Nat \ {0} /\ hi(i) \in Nat
  <2>1. i \in Nat /\ i + 1 \in Nat
    BY <1>1, <1>4
  <2>2. i * L \in Nat /\ (i + 1) * L \in Nat
    BY <2>1, <1>2, MultiplesInOrder
  <2> QED BY <2>2, <1>1
<1>6. ASSUME NEW i \in Pool, NEW j \in Pool, i < j PROVE hi(i) <= lo(j)
  <2>1. i \in Nat /\ j \in Nat /\ i + 1 \in Nat /\ i + 1 <= j /\ i # n - 1
    BY <1>1, <1>4, <1>6
  <2>2. (i + 1) * L <= j * L /\ (i + 1) * L \in Nat /\ j * L \in Nat
    BY <2>1, <1>2, MultiplesInOrder
  <2> QED BY <2>1, <2>2
<1>7. ASSUME NEW c \in Cells PROVE \E i \in Pool : lo(i) <= c /\ c < hi(i)
  <2>1. c \in Nat \ {0} /\ c < p_tail /\ c - 1 \in Nat /\ n - 1 \in Nat /\ n - 1 \in Pool
    BY <1>1, <1>4 DEF Cells
  <2>2. (n - 1) * L \in Nat
    BY <2>1, <1>2, MultiplesInOrder
  <2>3. CASE (n - 1) * L <= c - 1
    <3>1. lo(n - 1) <= c /\ c < hi(n - 1)
      BY <2>1, <2>2, <2>3
    <3> QED BY <3>1, <2>1, Zenon
  <2>4. CASE c - 1 < (n - 1) * L
    <3>1. PICK i \in 0 .. n - 2 : i * L <= c - 1 /\ c - 1 < (i + 1) * L
      BY <2>1, <2>4, <1>1, <1>2, SomeMultiple
    <3>2. i \in Pool /\ i # n - 1 /\ i \in Nat /\ i + 1 \in Nat
      BY <1>1, <1>4
    <3>3. i * L \in Nat /\ (i + 1) * L \in Nat
      BY <3>2, <1>2, MultiplesInOrder
    <3>4. lo(i) <= c /\ c < hi(i)
      BY <3>1, <3>2, <3>3, <2>1
    <3> QED BY <3>2, <3>4, Zenon
  <2> QED BY <2>1, <2>2, <2>3, <2>4
<1>8. DOMAIN iterator' = Pool /\ \A i \in Pool : iterator'[i] = it(i)
  BY <1>3
<1> HIDE DEF lo, hi
<1>9. \A i \in Pool : it(i) \in AnIterator /\ it(i).p = 0 /\ it(i).p_start = lo(i) /\ it(i).p_tail = hi(i)
  BY <1>5 DEF AnIterator
<1>10. \A i \in Pool : Part(i)' = {c \in Cells : lo(i) <= c /\ c < hi(i)}
  BY <1>8, <1>9 DEF Part, Cells
<1> HIDE DEF it
<1>11. \A i, j \in Pool : i < j => Part(i)' \cap Part(j)' = {}
  <2> SUFFICES ASSUME NEW i \in Pool, NEW j \in Pool, i < j, NEW c \in Cells, c < hi(i), lo(j) <= c
               PROVE  FALSE
    BY <1>10
  <2> QED BY <1>5, <1>6, <1>1 DEF Cells
<1>12. IteratorsCut'
  <2>1. \A c \in Cells' : \E t \in Pool : c \in Part(t)'
    BY <1>7, <1>10 DEF Cells
  <2>2. \A t, u \in Pool : t # u => Part(t)' \cap Part(u)' = {}
    <3> SUFFICES ASSUME NEW t \in Pool, NEW u \in Pool, t # u PROVE Part(t)' \cap Part(u)' = {}
      OBVIOUS
    <3>1. t < u \/ u < t
      BY <1>1, <1>4
    <3> QED BY <3>1, <1>11
  <2> QED BY <2>1, <2>2, <1>8 DEF IteratorsCut
<1>13. IteratorTypes'
  <2>1. gcThreadCount' > 0 /\ DOMAIN iterator' = Pool /\ \A t \in Pool : iterator'[t].p = 0
    BY <1>8, <1>9
  <2>2. iterator' \in [Pool -> AnIterator]
    BY <1>3, <1>9
  <2> QED BY <2>1, <2>2 DEF IteratorTypes, AnIterator, Pool
<1> QED BY <1>8, <1>9, <1>12, <1>13

(* The one iterator of the GC thread does too. *)
LEMMA IteratorIsCut ==
    ASSUME TypeOK, iterator' = [t \in {GC} |-> getIterator], p_tail' = p_tail
    PROVE  IteratorTypes' /\ IteratorsCut' /\ \A t \in DOMAIN iterator' : iterator'[t].p = 0
<1>1. p_tail \in Nat \ {0} /\ getIterator \in AnIterator
  BY DEF TypeOK, getIterator, AnIterator
<1>2. DOMAIN iterator' = {GC} /\ iterator'[GC] = getIterator
  OBVIOUS
<1>3. Part(GC)' = Cells'
  BY <1>1, <1>2 DEF Part, Cells, getIterator
<1>4. IteratorsCut'
  BY <1>2, <1>3 DEF IteratorsCut
<1>5. iterator'[GC].p = 0 /\ iterator' \in [{GC} -> AnIterator]
  BY <1>1, <1>2 DEF getIterator
<1> QED BY <1>2, <1>4, <1>5 DEF IteratorTypes, AnIterator, GC

(* Two cells never hold the same root. *)
LEMMA CellsHoldRoots ==
    ASSUME IInv, NEW c \in Cells
    PROVE  Cell(c) \in live /\ Cell(c) \in Ptr /\ \A d \in Cells : Cell(c) = Cell(d) => c = d
BY DEF IInv, TypeOK, OffsetsAgree, Cells

(* A root is read that no thread has read. *)
LEMMA MarkRootReads ==
    ASSUME IInv, ScanInv, NEW t \in DOMAIN iterator, mark_root(t)
    PROVE  /\ ScanInv'
           /\ \E x \in Ptr : /\ x \notin DOMAIN visited
                             /\ DOMAIN visited' = DOMAIN visited \cup {x}
                             /\ \/ snapshot' = [snapshot EXCEPT ![t] = Append(@, x)]
                                \/ UNCHANGED snapshot
<1> DEFINE it == iterator[t]
           p == Advance(it)
<1>1. /\ step = "scan" /\ HasNext(it)
      /\ iterator' = [iterator EXCEPT ![t].p = p]
      /\ visited' = visited (+) SetToBag({Cell(p)})
      /\ \/ snapshot' = [snapshot EXCEPT ![t] = Append(@, Cell(p))]
         \/ UNCHANGED snapshot
      /\ step' = "scan" /\ UNCHANGED <<setVars, marked>>
  BY DEF mark_root
<1>2. IteratorTypes /\ IteratorsCut /\ visited = SetToBag({Cell(c) : c \in Read})
  BY <1>1 DEF ScanInv
<1>3. /\ iterator \in [DOMAIN iterator -> AnIterator] /\ it \in AnIterator
      /\ it.p # 0 => it.p \in Part(t)
  BY <1>2 DEF IteratorTypes
<1>4. p_tail \in Nat /\ p_tail' = p_tail /\ address_arr' = address_arr
  BY <1>1 DEF IInv, TypeOK, setVars
<1>5. /\ p \in Part(t) /\ p \notin Seen(t)
      /\ \A c \in Part(t) : c <= p <=> c <= it.p \/ c = p
  <2>1. p < it.p_tail /\ p < p_tail
    BY <1>1 DEF HasNext, Within
  <2>2. CASE it.p = 0
    <3>1. p = it.p_start /\ p \in Nat \ {0}
      BY <2>2, <1>3 DEF Advance, AnIterator
    <3> QED BY <3>1, <2>1, <2>2, <1>4 DEF Part, Seen, Cells
  <2>3. CASE it.p # 0
    <3>1. p = it.p + 1 /\ it.p \in Nat /\ it.p_start \in Nat /\ it.p_start <= it.p
      BY <2>3, <1>3 DEF Advance, AnIterator, Part
    <3> QED BY <3>1, <2>1, <1>4 DEF Part, Seen, Cells
  <2> QED BY <2>2, <2>3
<1> HIDE DEF p
<1>6. /\ DOMAIN iterator' = DOMAIN iterator
      /\ iterator'[t] = [it EXCEPT !.p = p]
      /\ \A u \in DOMAIN iterator : u # t => iterator'[u] = iterator[u]
  BY <1>1, <1>3
<1>7. /\ iterator'[t] \in AnIterator /\ iterator'[t].p = p
      /\ iterator'[t].p_start = it.p_start /\ iterator'[t].p_tail = it.p_tail
  <2>1. p \in Nat
    BY <1>5, <1>4 DEF Part, Cells
  <2> QED BY <2>1, <1>3, <1>6 DEF AnIterator
<1>8. Cells' = Cells /\ \A c \in Cells : Cell(c)' = Cell(c)
  BY <1>4 DEF Cells, Cell
<1>9. \A u \in DOMAIN iterator : Part(u)' = Part(u)
  BY <1>6, <1>7, <1>8 DEF Part
<1>10. Seen(t)' = Seen(t) \cup {p} /\ \A u \in DOMAIN iterator : u # t => Seen(u)' = Seen(u)
  BY <1>5, <1>6, <1>7, <1>9 DEF Seen
<1>11. p \in Cells /\ p \notin Read
  <2>1. \A u \in DOMAIN iterator : u # t => p \notin Part(u)
    BY <1>2, <1>5 DEF IteratorsCut
  <2> QED BY <2>1, <1>5 DEF Read, Seen, Part
<1>12. Read' = Read \cup {p} /\ Read \subseteq Cells
  BY <1>6, <1>8, <1>10, <1>11 DEF Read
<1>13. Cell(p) \in Ptr /\ Cell(p) \notin {Cell(c) : c \in Read}
  BY <1>11, <1>12, CellsHoldRoots
<1>14. {Cell(c) : c \in Read}' = {Cell(c) : c \in Read} \cup {Cell(p)}
  <2>1. {Cell(c) : c \in Read}' = {Cell(c) : c \in Read'}
    BY <1>4 DEF Cell
  <2> QED BY <2>1, <1>12
<1> DEFINE S == {Cell(c) : c \in Read}
<1>15. visited = SetToBag(S) /\ visited' = SetToBag(S \cup {Cell(p)})
  <2>1. visited = SetToBag(S) /\ visited' = visited (+) SetToBag({Cell(p)}) /\ Cell(p) \notin S
    BY <1>1, <1>2, <1>13
  <2> HIDE DEF S
  <2> QED BY <2>1, OneMore
<1>16. IteratorTypes'
  <2>1. \A u \in DOMAIN iterator : iterator'[u].p # 0 => iterator'[u].p \in Part(u)'
    <3>1. \A u \in DOMAIN iterator : iterator[u].p # 0 => iterator[u].p \in Part(u)
      BY <1>2 DEF IteratorTypes
    <3> QED BY <3>1, <1>5, <1>6, <1>7, <1>9
  <2>2. iterator' \in [DOMAIN iterator -> AnIterator]
    <3>1. iterator' = [u \in DOMAIN iterator |-> IF u = t THEN [it EXCEPT !.p = p] ELSE iterator[u]]
      BY <1>1
    <3> QED BY <3>1, <1>3, <1>6, <1>7
  <2>3. DOMAIN iterator = {GC} \/ (gcThreadCount > 0 /\ DOMAIN iterator = Pool)
    BY <1>2 DEF IteratorTypes
  <2> QED BY <2>1, <2>2, <2>3, <1>6 DEF IteratorTypes, AnIterator, Pool, GC
<1>17. IteratorsCut'
  BY <1>2, <1>6, <1>8, <1>9 DEF IteratorsCut
<1>18. visited' = SetToBag({Cell(c) : c \in Read}')
  BY <1>14, <1>15
<1>19. ScanInv'
  BY <1>16, <1>17, <1>18 DEF ScanInv, Cell, SetToBag
<1>20. DOMAIN visited = S /\ DOMAIN visited' = S \cup {Cell(p)}
  BY <1>15 DEF SetToBag
<1> QED BY <1>1, <1>13, <1>19, <1>20

(* When no thread has a next cell, every root has been read, once. *)
LEMMA ScanReadsAll ==
    ASSUME IInv, ScanInv, shareOut
    PROVE  visited = SetToBag(live)
<1>1. /\ step = "scan" /\ IteratorTypes /\ IteratorsCut
      /\ visited = SetToBag({Cell(c) : c \in Read})
      /\ \A t \in DOMAIN iterator : ~HasNext(iterator[t])
  BY DEF shareOut, ScanInv
<1>2. ASSUME NEW c \in Cells PROVE c \in Read
  <2>1. PICK t \in DOMAIN iterator : c \in Part(t)
    BY <1>1 DEF IteratorsCut
  <2> DEFINE it == iterator[t]
  <2>2. it \in AnIterator /\ ~HasNext(it) /\ p_tail \in Nat
    BY <1>1 DEF IteratorTypes, IInv, TypeOK
  <2>3. c <= it.p
    BY <2>1, <2>2 DEF HasNext, Within, Advance, Part, Cells, AnIterator
  <2> QED BY <2>1, <2>3 DEF Read, Seen
<1>3. Read = Cells
  BY <1>2 DEF Read
<1>4. {Cell(c) : c \in Cells} = live
  BY DEF IInv, OffsetsAgree, Cells
<1> QED BY <1>1, <1>3, <1>4

LEMMA BeginMarkScans ==
    ASSUME IInv, beginMark
    PROVE  ScanInv'
<1>1. /\ step' = "scan" /\ visited' = EmptyBag /\ p_tail' = p_tail
      /\ iterator' = IF enableParallelGC /\ getSize >= ROOT_SET_PARALLEL_THRESHOLD
                     THEN getIterators ELSE [t \in {GC} |-> getIterator]
  BY DEF beginMark, setVars
<1>2. IteratorTypes' /\ IteratorsCut' /\ \A t \in DOMAIN iterator' : iterator'[t].p = 0
  <2>1. CASE iterator' = [t \in {GC} |-> getIterator]
    BY <1>1, <2>1, IteratorIsCut DEF IInv
  <2>2. CASE enableParallelGC /\ iterator' = getIterators
    BY <1>1, <2>2, IteratorsAreCut DEF IInv, enableParallelGC
  <2> QED BY <1>1, <2>1, <2>2
<1>3. Read' = {}
  BY <1>2 DEF Read, Seen, Part, Cells
<1>4. visited' = SetToBag({Cell(c) : c \in Read}')
  BY <1>1, <1>3 DEF EmptyBag
<1> QED BY <1>2, <1>4 DEF ScanInv, SetToBag

LEMMA NextKeepsScanInv == IInv /\ ScanInv /\ [Next]_vars => ScanInv'
<1> SUFFICES ASSUME IInv, ScanInv, [Next]_vars PROVE ScanInv'
  OBVIOUS
<1>1. CASE beginMark
  BY <1>1, BeginMarkScans
<1>2. ASSUME NEW t \in DOMAIN iterator, mark_root(t) PROVE ScanInv'
  BY <1>2, MarkRootReads
<1>3. CASE shareOut \/ endGC \/ \E t \in DOMAIN share : mark_v2(t)
  <2>1. step' # "scan"
    BY <1>3 DEF shareOut, endGC, mark_v2
  <2> QED BY <2>1 DEF ScanInv
<1>4. ASSUME NEW p \in Ptr, UserStep(p) PROVE ScanInv'
  <2>1. step' # "scan"
    BY <1>4 DEF UserStep, add, remove, scanVars
  <2> QED BY <2>1 DEF ScanInv
<1>5. CASE UNCHANGED vars
  BY <1>5 DEF vars, setVars, scanVars, ScanInv, IteratorTypes, IteratorsCut, Part, Seen, Read, Cells,
              Cell, BlockIdx, Offset, SetToBag, AnIterator
<1> QED BY <1>1, <1>2, <1>3, <1>4, <1>5 DEF Next, ScanStep

LEMMA ScanInvariant == Spec => [](IInv /\ ScanInv)
<1>1. Init => ScanInv
  BY DEF Init, ScanInv
<1> QED BY <1>1, NextKeepsScanInv, RootSetInvariant, PTL DEF Spec

-----------------------------------------------------------------------------
(* Each step of the root set is one of the registry, or none at all.       *)
LEMMA NextIsRegistryStep ==
    ASSUME IInv, ScanInv, [Next]_vars
    PROVE  [Registry!Next]_<<live, IF step = "scan" THEN EmptyBag ELSE visited>>
<1> DEFINE handed == IF step = "scan" THEN EmptyBag ELSE visited
<1>1. CASE beginMark
  <2>1. handed' = EmptyBag /\ live' = live
    BY <1>1 DEF beginMark, setVars, EmptyBag, SetToBag
  <2> QED BY <2>1 DEF Registry!Next, Registry!Forget, EmptyBag, SetToBag, Registry!EmptyBag, Registry!SetToBag
<1>2. ASSUME NEW t \in DOMAIN iterator, mark_root(t) PROVE UNCHANGED <<live, handed>>
  BY <1>2 DEF mark_root, setVars, EmptyBag, SetToBag
<1>3. CASE shareOut
  <2>1. handed' = SetToBag(live) /\ live' = live
    BY <1>3, ScanReadsAll DEF shareOut, setVars
  <2> QED BY <2>1 DEF Registry!Next, Registry!Scan, SetToBag, Registry!SetToBag
<1>4. CASE endGC \/ \E t \in DOMAIN share : mark_v2(t)
  BY <1>4 DEF endGC, AllMarked, mark_v2, setVars
<1>5. ASSUME NEW p \in Ptr, add(p) PROVE Registry!Add(p)
  BY <1>5 DEF add, scanVars, Registry!Add
<1>6. ASSUME NEW p \in Ptr, remove(p) PROVE Registry!Remove(p)
  <2>1. Unlink(p) /\ p \in live
    BY <1>6, RemovalFindsRoot DEF remove
  <2> QED BY <1>6, <2>1 DEF remove, Unlink, scanVars, Registry!Remove
<1>7. CASE UNCHANGED vars
  BY <1>7 DEF vars, setVars, scanVars
<1> QED BY <1>1, <1>2, <1>3, <1>4, <1>5, <1>6, <1>7 DEF Next, ScanStep, UserStep, Registry!Next

(* For any roots, block size, GC threads and threshold, every scan hands   *)
(* over each root there is, once, and nothing else.                        *)
THEOREM RootSetImplementsRegistry == Spec => ImplementsRegistry
<1>1. Init => Registry!Init
  BY DEF Init, Registry!Init, EmptyBag, SetToBag, Registry!EmptyBag, Registry!SetToBag
<1>2. IInv /\ ScanInv /\ [Next]_vars => [Registry!Next]_<<live, IF step = "scan" THEN EmptyBag ELSE visited>>
  BY NextIsRegistryStep
<1> QED BY <1>1, <1>2, ScanInvariant, PTL DEF Spec, ImplementsRegistry, Registry!Spec

-----------------------------------------------------------------------------
(* The snapshot and its shares.  An element has a place, <<of, index>>;    *)
(* Due(t) are the places a thread has yet to mark.                         *)
Owners == Pool \cup {GC}
Places == {q \in Owners \X (Nat \ {0}) : q[2] <= Len(snapshot[q[1]])}
At(q) == snapshot[q[1]][q[2]]
Due(t) == {q \in Places : q[1] = share[t].of /\ share[t].from < q[2] /\ q[2] <= share[t].to}
Done == {q \in Places : \A t \in DOMAIN share : q \notin Due(t)}
AShare == [of : Owners, from : Nat, to : Nat]

(* The elements were read by this scan, and no two places hold the same.   *)
SnapshotInv ==
    step # "idle" =>
        /\ snapshot \in [Owners -> Seq(Ptr)]
        /\ \A q \in Places : At(q) \in DOMAIN visited
        /\ \A q, r \in Places : At(q) = At(r) => q = r
(* Until it is shared out only the threads that scan have elements.        *)
TakenInv ==
    step = "scan" =>
        /\ \A o \in Owners : o \notin DOMAIN iterator => snapshot[o] = <<>>
        /\ marked = EmptyBag
(* The shares cut what is left, and marked holds the rest, once.           *)
SharesCut ==
    /\ share \in [DOMAIN share -> AShare]
    /\ \A t \in DOMAIN share : /\ share[t].from <= share[t].to
                               /\ share[t].to <= Len(snapshot[share[t].of])
    /\ \A t, u \in DOMAIN share : t # u => Due(t) \cap Due(u) = {}
ShareInv ==
    step = "mark" => SharesCut /\ marked = SetToBag({At(q) : q \in Done})
MarkInv == SnapshotInv /\ TakenInv /\ ShareInv

LEMMA MarkRootKeepsMarkInv ==
    ASSUME IInv, ScanInv, MarkInv, NEW t \in DOMAIN iterator, mark_root(t)
    PROVE  MarkInv'
<1>1. step = "scan" /\ step' = "scan" /\ marked' = marked /\ DOMAIN iterator' = DOMAIN iterator
  BY DEF mark_root
<1>2. /\ snapshot \in [Owners -> Seq(Ptr)]
      /\ \A q \in Places : At(q) \in DOMAIN visited
      /\ \A q, r \in Places : At(q) = At(r) => q = r
      /\ \A o \in Owners : o \notin DOMAIN iterator => snapshot[o] = <<>>
      /\ marked = EmptyBag
  BY <1>1 DEF MarkInv, SnapshotInv, TakenInv
<1>3. PICK x \in Ptr : /\ x \notin DOMAIN visited
                       /\ DOMAIN visited' = DOMAIN visited \cup {x}
                       /\ \/ snapshot' = [snapshot EXCEPT ![t] = Append(@, x)]
                          \/ UNCHANGED snapshot
  BY MarkRootReads
<1>4. t \in Owners
  BY <1>1 DEF ScanInv, IteratorTypes, Owners
<1>5. TakenInv'
  <2>1. \A o \in Owners : o \notin DOMAIN iterator => snapshot'[o] = <<>>
    BY <1>2, <1>3
  <2> QED BY <2>1, <1>1, <1>2 DEF TakenInv, Owners, Pool, GC, EmptyBag, SetToBag
<1>6. SnapshotInv'
  <2>1. CASE UNCHANGED snapshot
    <3>1. Places' = Places /\ \A q \in Places : At(q)' = At(q)
      BY <2>1 DEF Places, At, Owners, Pool, GC
    <3> QED BY <3>1, <2>1, <1>2, <1>3 DEF SnapshotInv, Owners, Pool, GC, At
  <2>2. CASE snapshot' = [snapshot EXCEPT ![t] = Append(@, x)]
    <3> DEFINE new == <<t, Len(snapshot[t]) + 1>>
               After(q) == snapshot'[q[1]][q[2]]
    <3>1. /\ snapshot[t] \in Seq(Ptr) /\ Len(snapshot[t]) \in Nat
          /\ snapshot'[t] = Append(snapshot[t], x)
          /\ \A o \in Owners : o # t => snapshot'[o] = snapshot[o]
      BY <1>2, <1>4, <2>2
    <3>2. /\ snapshot'[t] \in Seq(Ptr) /\ Len(snapshot'[t]) = Len(snapshot[t]) + 1
          /\ snapshot'[t][Len(snapshot[t]) + 1] = x
          /\ \A k \in 1 .. Len(snapshot[t]) : snapshot'[t][k] = snapshot[t][k]
      BY <3>1
    <3>3. snapshot' \in [Owners -> Seq(Ptr)]
      BY <2>2, <3>1, <3>2, <1>2, <1>4
    <3>4. Places' = {q \in Owners \X (Nat \ {0}) : q[2] <= Len(snapshot'[q[1]])}
      BY DEF Places, Owners, Pool, GC
    <3>5. ASSUME NEW q \in Places' PROVE q \in Places \/ q = new
      <4>1. q \in Owners \X (Nat \ {0}) /\ q[2] <= Len(snapshot'[q[1]]) /\ q = <<q[1], q[2]>>
        BY <3>4, <3>5
      <4>2. CASE q[1] # t
        BY <4>1, <4>2, <3>1 DEF Places
      <4>3. CASE q[1] = t
        BY <4>1, <4>3, <3>1, <3>2 DEF Places
      <4> QED BY <4>2, <4>3
    <3>6. \A q \in Places : After(q) = At(q)
      <4> SUFFICES ASSUME NEW q \in Places PROVE snapshot'[q[1]][q[2]] = snapshot[q[1]][q[2]]
        BY DEF At
      <4> QED BY <3>1, <3>2 DEF Places
    <3>7. After(new) = x
      BY <3>2
    <3> HIDE DEF new, After
    <3>8. \A q \in Places : After(q) \in DOMAIN visited /\ After(q) # x
      BY <3>6, <1>2, <1>3
    <3>9. \A q \in Places' : After(q) \in DOMAIN visited'
      BY <3>5, <3>7, <3>8, <1>3
    <3>10. \A q, r \in Places' : After(q) = After(r) => q = r
      <4> SUFFICES ASSUME NEW q \in Places', NEW r \in Places', After(q) = After(r) PROVE q = r
        OBVIOUS
      <4>1. CASE q = new
        BY <4>1, <3>5, <3>7, <3>8
      <4>2. CASE r = new
        BY <4>2, <3>5, <3>7, <3>8
      <4>3. CASE q \in Places /\ r \in Places
        BY <4>3, <3>6, <1>2
      <4> QED BY <4>1, <4>2, <4>3, <3>5
    <3> QED BY <3>3, <3>9, <3>10 DEF SnapshotInv, Owners, Pool, GC, At, After
  <2> QED BY <2>1, <2>2, <1>3
<1> QED BY <1>1, <1>5, <1>6 DEF MarkInv, ShareInv

LEMMA BeginMarkKeepsMarkInv ==
    ASSUME beginMark
    PROVE  MarkInv'
<1>1. step' = "scan" /\ snapshot' = NothingTaken /\ marked' = EmptyBag
  BY DEF beginMark
<1>2. snapshot' \in [Owners -> Seq(Ptr)] /\ \A o \in Owners : snapshot'[o] = <<>>
  BY <1>1 DEF NothingTaken, Owners
<1>3. Places' = {}
  <2>1. Places' = {q \in Owners \X (Nat \ {0}) : q[2] <= Len(snapshot'[q[1]])}
    BY DEF Places, Owners, Pool, GC
  <2> QED BY <2>1, <1>2
<1>4. SnapshotInv'
  BY <1>2, <1>3 DEF SnapshotInv, Owners, Pool, GC
<1>5. TakenInv'
  BY <1>1, <1>2 DEF TakenInv, Owners, Pool, GC, EmptyBag, SetToBag
<1> QED BY <1>1, <1>4, <1>5 DEF MarkInv, ShareInv

(* Whole snapshots, of every thread that has elements, are shares.         *)
LEMMA WholeSharesCut ==
    ASSUME snapshot \in [Owners -> Seq(Ptr)], NEW D \in SUBSET Owners,
           \A o \in Owners : o \notin D => snapshot[o] = <<>>,
           share' = [t \in D |-> Whole(t)], snapshot' = snapshot
    PROVE  SharesCut' /\ Done' = {}
<1>1. \A t \in D : /\ Len(snapshot[t]) \in Nat
                   /\ share'[t] = [of |-> t, from |-> 0, to |-> Len(snapshot[t])]
  BY DEF Whole
<1>2. Places' = Places /\ \A t \in D : Due(t)' = {q \in Places : q[1] = t}
  <2>1. Places' = Places
    BY DEF Places, Owners, Pool, GC
  <2> QED BY <2>1, <1>1 DEF Due, Places
<1>3. \A t \in D : share'[t] \in AShare
  BY <1>1 DEF AShare
<1>4. SharesCut'
  <2>1. share' \in [D -> AShare] /\ DOMAIN share' = D
    BY <1>3
  <2> QED BY <2>1, <1>1, <1>2 DEF SharesCut, AShare, Owners, Pool, GC
<1>5. ASSUME NEW q \in Places PROVE q[1] \in D
  BY DEF Places
<1>6. Done' = {}
  <2>1. \A q \in Places : \E t \in D : q \in Due(t)'
    BY <1>2, <1>5
  <2> QED BY <2>1, <1>2 DEF Done
<1> QED BY <1>4, <1>6

(* So are its parts, the last of which takes the remainder.                *)
LEMMA PartSharesCut ==
    ASSUME snapshot \in [Owners -> Seq(Ptr)], gcThreadCount > 0,
           \A o \in Pool : snapshot[o] = <<>>,
           share' = [i \in Pool |-> getParallelIndex(i)], snapshot' = snapshot
    PROVE  SharesCut' /\ Done' = {}
<1> DEFINE n == gcThreadCount
           size == Len(snapshot[GC])
           L == size \div n
           lo(i) == i * L
           hi(i) == IF i = n - 1 THEN size ELSE (i + 1) * L
<1>1. n \in Nat \ {0} /\ size \in Nat /\ Pool = 0 .. n - 1 /\ n - 1 \in Nat /\ n - 1 \in Pool
  BY RootSetAssumption DEF Owners, Pool
<1>2. L \in Nat /\ n * L <= size
  <2> HIDE DEF n, size
  <2>1. /\ size \div n \in Nat /\ size % n \in 0 .. n - 1
        /\ size = (n * (size \div n)) + (size % n)
    BY <1>1
  <2>2. n * (size \div n) \in Nat
    BY <2>1, <1>1, MultiplesInOrder
  <2> QED BY <2>1, <2>2, <1>1
<1>3. \A i \in Pool : share'[i] = [of |-> GC, from |-> lo(i), to |-> hi(i)]
  BY DEF getParallelIndex
<1> HIDE DEF n, size, L
<1>4. (n - 1) * L \in Nat /\ (n - 1) * L <= size
  <2>1. n - 1 \in Nat /\ n \in Nat /\ n - 1 <= n
    BY <1>1
  <2> QED BY <2>1, <1>1, <1>2, MultiplesInOrder
<1>5. ASSUME NEW i \in Pool PROVE lo(i) \in Nat /\ hi(i) \in Nat /\ lo(i) <= hi(i) /\ hi(i) <= size
  <2>1. i \in Nat /\ i + 1 \in Nat /\ i <= i + 1 /\ i <= n - 1 /\ (i # n - 1 => i + 1 <= n - 1)
    BY <1>1
  <2>2. i * L \in Nat /\ (i + 1) * L \in Nat /\ i * L <= (i + 1) * L
    BY <2>1, <1>2, MultiplesInOrder
  <2>3. CASE i = n - 1
    BY <2>2, <2>3, <1>1, <1>4
  <2>4. CASE i # n - 1
    <3>1. (i + 1) * L <= (n - 1) * L
      BY <2>1, <2>4, <1>1, <1>2, MultiplesInOrder
    <3> QED BY <3>1, <2>2, <2>4, <1>1, <1>4
  <2> QED BY <2>3, <2>4
<1>6. ASSUME NEW i \in Pool, NEW j \in Pool, i < j PROVE hi(i) <= lo(j)
  <2>1. i \in Nat /\ j \in Nat /\ i + 1 \in Nat /\ i + 1 <= j /\ i # n - 1
    BY <1>1, <1>6
  <2>2. (i + 1) * L <= j * L
    BY <2>1, <1>2, MultiplesInOrder
  <2> QED BY <2>1, <2>2
<1>7. ASSUME NEW k \in Nat \ {0}, k <= size PROVE \E i \in Pool : lo(i) < k /\ k <= hi(i)
  <2>1. k - 1 \in Nat
    OBVIOUS
  <2>2. CASE (n - 1) * L <= k - 1
    <3>1. lo(n - 1) < k /\ k <= hi(n - 1)
      BY <2>1, <2>2, <1>4, <1>7
    <3> QED BY <3>1, <1>1, Zenon
  <2>3. CASE k - 1 < (n - 1) * L
    <3>1. PICK i \in 0 .. n - 2 : i * L <= k - 1 /\ k - 1 < (i + 1) * L
      BY <2>1, <2>3, <1>1, <1>2, SomeMultiple
    <3>2. i \in Pool /\ i # n - 1 /\ i \in Nat /\ i + 1 \in Nat
      BY <1>1
    <3>3. i * L \in Nat /\ (i + 1) * L \in Nat
      BY <3>2, <1>2, MultiplesInOrder
    <3>4. lo(i) < k /\ k <= hi(i)
      BY <3>1, <3>2, <3>3
    <3> QED BY <3>2, <3>4, Zenon
  <2> QED BY <2>1, <2>2, <2>3, <1>4
<1> HIDE DEF lo, hi
<1>8. ASSUME NEW q \in Places PROVE q[1] = GC /\ q[2] \in Nat \ {0} /\ q[2] <= size
  BY DEF Places, Owners, size
<1>9. Places' = Places /\ \A i \in Pool : Due(i)' = {q \in Places : lo(i) < q[2] /\ q[2] <= hi(i)}
  <2>1. Places' = Places
    BY DEF Places, Owners, Pool, GC
  <2> QED BY <2>1, <1>3, <1>8 DEF Due
<1>10. \A i, j \in Pool : i < j => Due(i)' \cap Due(j)' = {}
  <2> SUFFICES ASSUME NEW i \in Pool, NEW j \in Pool, i < j, NEW q \in Places, q[2] <= hi(i), lo(j) < q[2]
               PROVE  FALSE
    BY <1>9
  <2> QED BY <1>5, <1>6, <1>8
<1>11. SharesCut'
  <2>1. \A t, u \in Pool : t # u => Due(t)' \cap Due(u)' = {}
    <3> SUFFICES ASSUME NEW t \in Pool, NEW u \in Pool, t # u PROVE Due(t)' \cap Due(u)' = {}
      OBVIOUS
    <3>1. t < u \/ u < t
      BY <1>1
    <3> QED BY <3>1, <1>10
  <2>2. \A t \in Pool : share'[t] \in AShare /\ share'[t].from <= share'[t].to
                        /\ share'[t].to <= Len(snapshot[share'[t].of])
    BY <1>3, <1>5 DEF AShare, Owners, size
  <2>3. share' \in [Pool -> AShare] /\ DOMAIN share' = Pool
    BY <2>2
  <2> QED BY <2>1, <2>2, <2>3 DEF SharesCut, AShare, Owners, Pool, GC
<1>12. \A q \in Places : \E i \in Pool : q \in Due(i)'
  BY <1>7, <1>8, <1>9
<1> QED BY <1>9, <1>11, <1>12 DEF Done

LEMMA ShareOutKeepsMarkInv ==
    ASSUME IInv, ScanInv, MarkInv, shareOut
    PROVE  MarkInv'
<1>1. /\ step = "scan" /\ step' = "mark"
      /\ UNCHANGED <<iterator, visited, snapshot, marked>>
      /\ share' = IF ~enableParallelGC THEN [t \in {GC} |-> Whole(t)]
                  ELSE IF parallel_markroot THEN [i \in Pool |-> Whole(i)]
                  ELSE [i \in Pool |-> getParallelIndex(i)]
  BY DEF shareOut
<1>2. /\ snapshot \in [Owners -> Seq(Ptr)] /\ marked = EmptyBag
      /\ \A o \in Owners : o \notin DOMAIN iterator => snapshot[o] = <<>>
      /\ IteratorTypes
  BY <1>1 DEF MarkInv, SnapshotInv, TakenInv, ScanInv
<1>3. GC \notin Pool /\ gcThreadCount \in Nat
  BY RootSetAssumption DEF GC, Pool
<1>4. SharesCut' /\ Done' = {}
  <2>1. CASE ~enableParallelGC
    <3>1. share' = [t \in {GC} |-> Whole(t)] /\ DOMAIN iterator = {GC} /\ {GC} \in SUBSET Owners
      BY <1>1, <1>2, <2>1 DEF enableParallelGC, IteratorTypes, Owners
    <3> QED BY <3>1, <1>1, <1>2, WholeSharesCut
  <2>2. CASE enableParallelGC /\ parallel_markroot
    <3>1. share' = [t \in Pool |-> Whole(t)] /\ DOMAIN iterator = Pool /\ Pool \in SUBSET Owners
      BY <1>1, <1>2, <2>2 DEF parallel_markroot, IteratorTypes, Owners
    <3> QED BY <3>1, <1>1, <1>2, WholeSharesCut
  <2>3. CASE enableParallelGC /\ ~parallel_markroot
    <3>1. share' = [i \in Pool |-> getParallelIndex(i)] /\ DOMAIN iterator = {GC} /\ gcThreadCount > 0
      BY <1>1, <2>3 DEF parallel_markroot, enableParallelGC
    <3>2. \A o \in Pool : snapshot[o] = <<>>
      BY <3>1, <1>2, <1>3 DEF Owners
    <3> QED BY <3>1, <3>2, <1>1, <1>2, PartSharesCut
  <2> QED BY <2>1, <2>2, <2>3
<1>5. ShareInv'
  <2>1. {At(q) : q \in Done}' = {}
    BY <1>4
  <2> QED BY <2>1, <1>1, <1>2, <1>4 DEF ShareInv, EmptyBag, SetToBag
<1>6. SnapshotInv' /\ TakenInv'
  <2>1. Places' = Places /\ \A q \in Places : At(q)' = At(q)
    BY <1>1 DEF Places, At, Owners, Pool, GC
  <2> QED BY <2>1, <1>1 DEF MarkInv, SnapshotInv, TakenInv, Owners, Pool, GC, At
<1> QED BY <1>5, <1>6 DEF MarkInv

(* An element that is due is marked; it is no element marked before.       *)
LEMMA MarkKeepsMarkInv ==
    ASSUME MarkInv, NEW t \in DOMAIN share, mark_v2(t)
    PROVE  MarkInv'
<1> DEFINE s == share[t]
<1>1. /\ step = "mark" /\ step' = "mark" /\ s.from < s.to
      /\ marked' = marked (+) SetToBag({snapshot[s.of][s.from + 1]})
      /\ share' = [share EXCEPT ![t].from = @ + 1]
      /\ UNCHANGED <<visited, snapshot, iterator>>
  BY DEF mark_v2
<1>2. /\ snapshot \in [Owners -> Seq(Ptr)]
      /\ \A q, r \in Places : At(q) = At(r) => q = r
      /\ SharesCut /\ marked = SetToBag({At(q) : q \in Done})
  BY <1>1 DEF MarkInv, SnapshotInv, ShareInv
<1>3. /\ share \in [DOMAIN share -> AShare] /\ s \in AShare
      /\ s.from <= s.to /\ s.to <= Len(snapshot[s.of])
  BY <1>2 DEF SharesCut
<1>4. PICK q0 : q0 = <<s.of, s.from + 1>>
  OBVIOUS
<1>5. /\ q0 \in Places /\ q0 \in Due(t) /\ q0[1] = s.of /\ q0[2] = s.from + 1
      /\ snapshot[s.of][s.from + 1] = At(q0)
  <2>1. s.of \in Owners /\ s.from \in Nat /\ s.to \in Nat /\ Len(snapshot[s.of]) \in Nat
    BY <1>2, <1>3 DEF AShare
  <2>2. q0[1] = s.of /\ q0[2] = s.from + 1 /\ q0 \in Owners \X (Nat \ {0})
    BY <2>1, <1>4
  <2> QED BY <2>1, <2>2, <1>1, <1>3 DEF Places, Due, At
<1>6. /\ DOMAIN share' = DOMAIN share /\ share'[t] = [s EXCEPT !.from = s.from + 1]
      /\ \A u \in DOMAIN share : u # t => share'[u] = share[u]
  BY <1>1, <1>3
<1>7. /\ share'[t] \in AShare /\ share'[t].of = s.of /\ share'[t].from = s.from + 1
      /\ share'[t].to = s.to
  BY <1>3, <1>6 DEF AShare
<1>8. Places' = Places /\ \A q \in Places : At(q)' = At(q)
  BY <1>1 DEF Places, At, Owners, Pool, GC
<1>9. Due(t)' = Due(t) \ {q0} /\ \A u \in DOMAIN share : u # t => Due(u)' = Due(u)
  <2>1. ASSUME NEW q \in Places, q[1] = s.of
        PROVE  s.from + 1 < q[2] <=> s.from < q[2] /\ q # q0
    <3>1. s.from \in Nat /\ q[2] \in Nat /\ q = <<q[1], q[2]>>
      BY <1>3 DEF AShare, Places
    <3> QED BY <3>1, <2>1, <1>4, <1>5
  <2>2. Due(t)' = {q \in Places : q[1] = s.of /\ s.from + 1 < q[2] /\ q[2] <= s.to}
    BY <1>7, <1>8 DEF Due
  <2>3. Due(t)' = Due(t) \ {q0}
    BY <2>1, <2>2 DEF Due
  <2>4. \A u \in DOMAIN share : u # t => Due(u)' = Due(u)
    BY <1>6, <1>8 DEF Due
  <2> QED BY <2>3, <2>4
<1>10. q0 \notin Done /\ \A u \in DOMAIN share : u # t => q0 \notin Due(u)
  BY <1>2, <1>5 DEF Done, SharesCut
<1>11. Done' = Done \cup {q0} /\ Done \subseteq Places
  BY <1>5, <1>6, <1>8, <1>9, <1>10 DEF Done
<1>12. At(q0) \notin {At(q) : q \in Done}
  BY <1>2, <1>5, <1>10, <1>11
<1>13. {At(q) : q \in Done}' = {At(q) : q \in Done} \cup {At(q0)}
  <2>1. {At(q) : q \in Done}' = {At(q) : q \in Done'}
    BY <1>1 DEF At
  <2> QED BY <2>1, <1>11
<1> DEFINE S == {At(q) : q \in Done}
<1>14. marked' = SetToBag(S \cup {At(q0)})
  <2>1. marked = SetToBag(S) /\ marked' = marked (+) SetToBag({At(q0)}) /\ At(q0) \notin S
    BY <1>1, <1>2, <1>5, <1>12
  <2> HIDE DEF S
  <2> QED BY <2>1, OneMore
<1>15. SharesCut'
  <2>1. \A u, v \in DOMAIN share : u # v => Due(u)' \cap Due(v)' = {}
    BY <1>2, <1>9 DEF SharesCut
  <2>2. \A u \in DOMAIN share : share'[u].from <= share'[u].to /\ share'[u].to <= Len(snapshot[share'[u].of])
    BY <1>1, <1>2, <1>3, <1>6, <1>7 DEF SharesCut, AShare
  <2>3. share' \in [DOMAIN share -> AShare]
    <3>1. share' = [u \in DOMAIN share |-> IF u = t THEN [s EXCEPT !.from = s.from + 1] ELSE share[u]]
      BY <1>1
    <3> QED BY <3>1, <1>3, <1>6, <1>7
  <2> QED BY <2>1, <2>2, <2>3, <1>1, <1>6 DEF SharesCut, AShare, Owners, Pool, GC
<1>16. ShareInv'
  <2>1. marked' = SetToBag({At(q) : q \in Done}')
    BY <1>13, <1>14
  <2> QED BY <2>1, <1>15 DEF ShareInv, At, SetToBag
<1>17. SnapshotInv' /\ TakenInv'
  BY <1>1, <1>8 DEF MarkInv, SnapshotInv, TakenInv, Owners, Pool, GC, At
<1> QED BY <1>16, <1>17 DEF MarkInv

LEMMA NextKeepsMarkInv == IInv /\ ScanInv /\ MarkInv /\ [Next]_vars => MarkInv'
<1> SUFFICES ASSUME IInv, ScanInv, MarkInv, [Next]_vars PROVE MarkInv'
  OBVIOUS
<1>1. CASE beginMark
  BY <1>1, BeginMarkKeepsMarkInv
<1>2. ASSUME NEW t \in DOMAIN iterator, mark_root(t) PROVE MarkInv'
  BY <1>2, MarkRootKeepsMarkInv
<1>3. CASE shareOut
  BY <1>3, ShareOutKeepsMarkInv
<1>4. ASSUME NEW t \in DOMAIN share, mark_v2(t) PROVE MarkInv'
  BY <1>4, MarkKeepsMarkInv
<1>5. CASE endGC
  BY <1>5 DEF endGC, MarkInv, SnapshotInv, TakenInv, ShareInv
<1>6. ASSUME UNCHANGED scanVars PROVE MarkInv'
  <2>1. UNCHANGED <<step, iterator, visited, snapshot, share, marked>>
    BY <1>6 DEF scanVars
  <2> QED BY <2>1 DEF MarkInv, SnapshotInv, TakenInv, ShareInv, SharesCut, Places, At, Due, Done, Owners,
                      Pool, GC, AShare, SetToBag, EmptyBag
<1>7. ASSUME NEW p \in Ptr, UserStep(p) PROVE UNCHANGED scanVars
  BY <1>7 DEF UserStep, add, remove, scanVars
<1> QED BY <1>1, <1>2, <1>3, <1>4, <1>5, <1>6, <1>7 DEF Next, ScanStep, vars

(* For any roots, GC threads, ranges and shares: when the marking of the   *)
(* snapshot ends, each root the scan took has been marked, once, and they  *)
(* are roots this scan read.                                               *)
THEOREM RootSetMarkedOnce == Spec => []MarkedOnce
<1>1. Init => MarkInv
  BY DEF Init, MarkInv, SnapshotInv, TakenInv, ShareInv
<1>2. IInv /\ ScanInv /\ MarkInv => MarkedOnce
  <2> SUFFICES ASSUME MarkInv, AllMarked
               PROVE  marked = SetToBag(Taken) /\ Taken \subseteq BagToSet(visited)
    BY DEF MarkedOnce
  <2>1. /\ snapshot \in [Owners -> Seq(Ptr)] /\ \A q \in Places : At(q) \in DOMAIN visited
        /\ SharesCut /\ marked = SetToBag({At(q) : q \in Done})
        /\ \A t \in DOMAIN share : share[t].from = share[t].to
    BY DEF AllMarked, MarkInv, SnapshotInv, ShareInv
  <2>2. \A t \in DOMAIN share : Due(t) = {}
    BY <2>1 DEF Due, SharesCut, AShare, Places
  <2>3. Done = Places
    BY <2>2 DEF Done
  <2>4. {At(q) : q \in Places} = Taken
    <3>1. ASSUME NEW q \in Places PROVE At(q) \in Taken
      BY <2>1 DEF Places, At, Taken
    <3>2. ASSUME NEW x \in Taken PROVE \E q \in Places : x = At(q)
      <4>1. PICK o \in Owners : \E k \in DOMAIN snapshot[o] : x = snapshot[o][k]
        BY <2>1 DEF Taken
      <4>2. PICK k \in DOMAIN snapshot[o] : x = snapshot[o][k]
        BY <4>1
      <4>3. k \in Nat \ {0} /\ k <= Len(snapshot[o])
        BY <2>1
      <4>4. <<o, k>> \in Places /\ At(<<o, k>>) = x
        BY <4>2, <4>3 DEF Places, At
      <4> QED BY <4>4
    <3> QED BY <3>1, <3>2
  <2> QED BY <2>1, <2>3, <2>4 DEF BagToSet
<1> QED BY <1>1, <1>2, NextKeepsMarkInv, ScanInvariant, PTL DEF Spec

=============================================================================
