--------------------------- MODULE GCRegionProofs ---------------------------
(***************************************************************************)
(* Why the mark bitmap needs no lock, and what the sweep may rely on, for  *)
(* any threads, object sizes, region size and layout of the bitmap.        *)
(*                                                                         *)
(* The layout: what is made, what is being allocated and what a relocation *)
(* that lost could not withdraw (the holes, a set H of objects no variable *)
(* of the program holds) lie one after the other up to the offset, without *)
(* a gap.  So no two entries share a byte.                                 *)
(* The sizes: a write to an entry therefore keeps the digits in the        *)
(* others, and the sweep is always at the start of a whole entry.          *)
(* The colours: which mark states an object may have at each stage of the  *)
(* cycle, behind the iterator and before it.                               *)
(* The tally: the live size is the sum of what is marked and counted, and  *)
(* of what the calls caught by the switch have added besides.              *)
(***************************************************************************)
EXTENDS GCRegion, FiniteSetTheorems, WellFoundedInduction, TLAPS

UserPc == {"idle", "test", "state", "head", "size", "count", "done"}
States == {NOT_ALLOCATED, REMAPPED, M0, M1}
UserRecord == [pc : UserPc, kind : {"none", "make", "relocate"}, at : Nat, size : Nat,
               state : States, digit : Int, counts : BOOLEAN]
Typed == user \in [Thread -> UserRecord] /\ cms \in States /\ total_size \in Nat

(* The smallest object leaves room for the whole of its entry. *)
Room == PerByte * (SizeBytes + 1)

LEMMA SizeFacts ==
    /\ total_size \in Nat /\ PerByte \in Nat \ {0} /\ SizeBytes \in Nat \ {0}
    /\ Room \in Nat \ {0} /\ \A n \in Size : n \in Nat /\ Room <= n
<1>1. total_size \in Nat /\ PerByte \in Nat \ {0} /\ SizeBytes \in Nat \ {0}
  BY BitmapAssumption, SizeAssumption
<1>2. Room \in Nat \ {0}
  BY <1>1 DEF Room
<1>3. ASSUME NEW n \in Size PROVE n \in Nat /\ Room <= n
  <2> DEFINE top == Radix ^ SizeBytes - 1
  <2>1. n \in Room..top
    BY SizeAssumption DEF Room
  <2> HIDE DEF top
  <2> QED BY <1>2, <2>1
<1> QED BY <1>1, <1>2, <1>3

-----------------------------------------------------------------------------
(* Below the offset lie the objects, the allocations under way, and the    *)
(* holes H that losers of a relocation have left; none overlap,            *)
Inside(o, top) ==
    o.at \in Nat /\ o.size \in Size /\ o.size \in Nat /\ Room <= o.size /\ o.at + o.size <= top
Disjoint(x, y) == x.at + x.size <= y.at \/ y.at + y.size <= x.at
Placed(H) ==
    /\ allocated_offset \in 0..total_size
    /\ \A o \in made \cup H : Inside(o, allocated_offset)
    /\ \A t \in Busy : Inside(Object(t), allocated_offset)
    /\ \A x, y \in made \cup H : x # y => Disjoint(x, y)
    /\ \A t \in Busy : \A x \in made \cup H : Disjoint(Object(t), x)
    /\ \A t, u \in Busy : t # u => Disjoint(Object(t), Object(u))
    /\ made \cap H = {}
(* and where one ends another begins, or the free memory. *)
Meets(H, p) ==
    \/ p = allocated_offset
    \/ \E o \in made \cup H : o.at = p
    \/ \E t \in Busy : user[t].at = p
Chained(H) ==
    /\ Meets(H, 0)
    /\ \A o \in made \cup H : Meets(H, o.at + o.size)
    /\ \A t \in Busy : Meets(H, user[t].at + user[t].size)
Laid(H) == Placed(H) /\ Chained(H)

LEMMA IdleTyped == Idle \in UserRecord /\ Idle.pc = "idle"
BY DEF Idle, UserRecord, UserPc, States

LEMMA InitLaid == Init => Typed /\ Laid({})
<1> SUFFICES ASSUME Init PROVE Typed /\ Laid({})
  OBVIOUS
<1>1. user = [t \in Thread |-> Idle] /\ cms = REMAPPED /\ made = {} /\ allocated_offset = 0
  BY DEF Init
<1>2. Busy = {}
  BY <1>1, IdleTyped DEF Busy, At
<1> QED BY <1>1, <1>2, IdleTyped, SizeFacts DEF Typed, Laid, Placed, Chained, Meets, States

(* The steps of a call after its allocation keep its object. *)
Moves(t) ==
    /\ user \in [Thread -> UserRecord] /\ user' \in [Thread -> UserRecord] /\ t \in Busy
    /\ \A u \in Thread : u # t => user'[u] = user[u]
    /\ user'[t].at = user[t].at /\ user'[t].size = user[t].size
    /\ user'[t].pc # "idle"

LEMMA Moving ==
    ASSUME Typed, NEW t \in Thread, ~At(t, "idle"), NEW r \in UserRecord, r.pc # "idle",
           user' = [user EXCEPT ![t] = r], r.at = user[t].at, r.size = user[t].size
    PROVE  Moves(t) /\ user'[t] = r
BY DEF Typed, Moves, Busy, At

LEMMA TestPhaseEffect ==
    ASSUME Typed, NEW t \in Thread, TestPhase(t)
    PROVE  /\ Moves(t) /\ user[t].pc = "test" /\ user'[t].digit = user[t].digit
           /\ duringGC => user'[t].pc = "state"
           /\ ~duringGC => user'[t].pc = "head" /\ user'[t].state = REMAPPED
<1>1. user[t] \in UserRecord /\ user[t].pc = "test" /\ ~At(t, "idle")
  BY DEF Typed, TestPhase, At
<1>2. CASE duringGC
  <2> DEFINE r == [user[t] EXCEPT !.pc = "state", !.counts = TRUE]
  <2>1. r \in UserRecord /\ r.at = user[t].at /\ r.size = user[t].size /\ r.pc = "state"
        /\ r.digit = user[t].digit
    BY <1>1 DEF UserRecord, UserPc
  <2>2. user' = [user EXCEPT ![t] = r]
    BY <1>2 DEF TestPhase
  <2> HIDE DEF r
  <2> QED BY <1>1, <1>2, <2>1, <2>2, Moving
<1>3. CASE ~duringGC
  <2> DEFINE r == [user[t] EXCEPT !.pc = "head", !.state = REMAPPED]
  <2>1. r \in UserRecord /\ r.at = user[t].at /\ r.size = user[t].size /\ r.pc = "head"
        /\ r.state = REMAPPED /\ r.digit = user[t].digit
    BY <1>1 DEF UserRecord, UserPc, States
  <2>2. user' = [user EXCEPT ![t] = r]
    BY <1>3 DEF TestPhase
  <2> HIDE DEF r
  <2> QED BY <1>1, <1>3, <2>1, <2>2, Moving
<1> QED BY <1>2, <1>3

LEMMA ReadStateEffect ==
    ASSUME Typed, NEW t \in Thread, ReadState(t)
    PROVE  /\ Moves(t) /\ user[t].pc = "state" /\ user'[t].digit = user[t].digit
           /\ user'[t].pc = "head" /\ user'[t].state = cms
<1>1. user[t] \in UserRecord /\ user[t].pc = "state" /\ cms \in States /\ ~At(t, "idle")
  BY DEF Typed, ReadState, At
<1> DEFINE r == [user[t] EXCEPT !.pc = "head", !.state = cms]
<1>2. r \in UserRecord /\ r.at = user[t].at /\ r.size = user[t].size /\ r.pc = "head"
      /\ r.state = cms /\ r.digit = user[t].digit
  BY <1>1 DEF UserRecord, UserPc
<1>3. user' = [user EXCEPT ![t] = r]
  BY DEF ReadState
<1> HIDE DEF r
<1> QED BY <1>1, <1>2, <1>3, Moving

LEMMA GotoEffect ==
    ASSUME Typed, NEW t \in Thread, ~At(t, "idle"), NEW step \in UserPc \ {"idle"}, Goto(t, step)
    PROVE  Moves(t) /\ user'[t].digit = user[t].digit /\ user'[t].state = user[t].state
           /\ user'[t].pc = step
<1>1. user[t] \in UserRecord
  BY DEF Typed
<1> DEFINE r == [user[t] EXCEPT !.pc = step]
<1>2. r \in UserRecord /\ r.at = user[t].at /\ r.size = user[t].size /\ r.pc = step
      /\ r.state = user[t].state /\ r.digit = user[t].digit
  BY <1>1 DEF UserRecord
<1>3. user' = [user EXCEPT ![t] = r]
  BY DEF Goto
<1> HIDE DEF r
<1> QED BY <1>1, <1>2, <1>3, Moving

LEMMA MarkHeadEffect ==
    ASSUME Typed, NEW t \in Thread, MarkHead(t)
    PROVE  /\ Moves(t) /\ user[t].pc = "head" /\ user'[t].digit = user[t].digit
           /\ user'[t].state = user[t].state /\ user'[t].pc = "size"
<1>1. user[t].pc = "head" /\ ~At(t, "idle") /\ Goto(t, "size") /\ "size" \in UserPc \ {"idle"}
  BY DEF MarkHead, At, UserPc
<1> QED BY <1>1, GotoEffect

LEMMA CountAllocatedEffect ==
    ASSUME Typed, NEW t \in Thread, CountAllocated(t)
    PROVE  /\ Moves(t) /\ user[t].pc = "count" /\ user'[t].digit = user[t].digit
           /\ user'[t].state = user[t].state /\ user'[t].pc = "done"
<1>1. user[t].pc = "count" /\ ~At(t, "idle") /\ Goto(t, "done") /\ "done" \in UserPc \ {"idle"}
  BY DEF CountAllocated, At, UserPc
<1> QED BY <1>1, GotoEffect

LEMMA StoreSizeEffect ==
    ASSUME Typed, NEW t \in Thread, StoreSize(t)
    PROVE  /\ Moves(t) /\ user[t].pc = "size" /\ user'[t].state = user[t].state
           /\ user[t].digit < SizeBytes - 1 =>
                 user'[t].pc = "size" /\ user'[t].digit = user[t].digit + 1
           /\ ~(user[t].digit < SizeBytes - 1) =>
                 user'[t].pc \in {"count", "done"} /\ user'[t].digit = 0
<1>1. user[t] \in UserRecord /\ user[t].pc = "size" /\ ~At(t, "idle")
  BY DEF Typed, StoreSize, At
<1>2. CASE user[t].digit < SizeBytes - 1
  <2> DEFINE r == [user[t] EXCEPT !.digit = @ + 1]
  <2>1. r \in UserRecord /\ r.at = user[t].at /\ r.size = user[t].size /\ r.pc = "size"
        /\ r.state = user[t].state /\ r.digit = user[t].digit + 1
    BY <1>1 DEF UserRecord
  <2>2. user' = [user EXCEPT ![t] = r]
    BY <1>2 DEF StoreSize
  <2> HIDE DEF r
  <2> QED BY <1>1, <1>2, <2>1, <2>2, Moving
<1>3. CASE ~(user[t].digit < SizeBytes - 1)
  <2> DEFINE next == IF user[t].counts THEN "count" ELSE "done"
             first == [user[t] EXCEPT !.digit = 0]
             r == [first EXCEPT !.pc = next]
  <2>1. next \in {"count", "done"}
    OBVIOUS
  <2>2. user' = [user EXCEPT ![t] = r]
    BY <1>3 DEF StoreSize
  <2> HIDE DEF next
  <2>3. r \in UserRecord /\ r.at = user[t].at /\ r.size = user[t].size /\ r.pc = next
        /\ r.state = user[t].state /\ r.digit = 0
    <3>1. /\ first \in UserRecord /\ first.at = user[t].at /\ first.size = user[t].size
          /\ first.state = user[t].state /\ first.digit = 0
      BY <1>1 DEF UserRecord
    <3> HIDE DEF first
    <3> QED BY <2>1, <3>1 DEF UserRecord, UserPc
  <2> HIDE DEF r
  <2> QED BY <1>1, <1>3, <2>1, <2>2, <2>3, Moving
<1> QED BY <1>2, <1>3

LEMMA MovesKeepsObjects ==
    ASSUME NEW t \in Thread, Moves(t)
    PROVE  Busy' = Busy /\ \A u \in Thread : Object(u)' = Object(u)
BY DEF Moves, Busy, At, Object

(* A step that only goes on with calls places nothing. *)
LEMMA QuietStepKeepsLaid ==
    ASSUME NEW H, Laid(H), UNCHANGED <<made, allocated_offset>>, Busy' = Busy,
           \A t \in Busy : Object(t)' = Object(t)
    PROVE  Laid(H)' /\ \A p : Meets(H, p) => Meets(H, p)'
<1>1. \A t \in Busy : user'[t].at = user[t].at /\ user'[t].size = user[t].size
  BY DEF Object
<1>2. \A p : Meets(H, p) => Meets(H, p)'
  BY <1>1 DEF Meets
<1> QED BY <1>1, <1>2 DEF Laid, Placed, Chained

(* The steps that do.  An allocation is placed at the offset, *)
LEMMA AllocateKeepsLaid ==
    ASSUME Typed, NEW H, Laid(H), NEW t \in Thread, allocate(t)
    PROVE  Typed' /\ Laid(H)' /\ \A p : Meets(H, p) => Meets(H, p)'
<1> PICK n \in Size, kind \in {"make", "relocate"} :
        /\ allocated_offset + n <= total_size
        /\ allocated_offset' = allocated_offset + n
        /\ user' = [user EXCEPT ![t] = [Idle EXCEPT !.pc = "test", !.kind = kind,
                                        !.at = allocated_offset, !.size = n]]
  BY DEF allocate
<1> DEFINE r == [Idle EXCEPT !.pc = "test", !.kind = kind, !.at = allocated_offset, !.size = n]
<1>1. /\ allocated_offset \in Nat /\ n \in Nat /\ Room <= n /\ total_size \in Nat
      /\ cms' = cms /\ made' = made /\ t \notin Busy
  BY SizeFacts DEF Laid, Placed, allocate, phaseVars, heapVars, Busy
<1>2. r \in UserRecord /\ r.at = allocated_offset /\ r.size = n /\ r.pc = "test"
  BY <1>1, IdleTyped DEF UserRecord, UserPc
<1>3. Typed'
  BY <1>1, <1>2 DEF Typed
<1>4. /\ Object(t)'.at = allocated_offset /\ Object(t)'.size = n /\ user'[t] = r
      /\ \A u \in Thread : u # t => Object(u)' = Object(u) /\ user'[u] = user[u]
  BY <1>2 DEF Typed, Object
<1>5. Busy' = Busy \cup {t}
  BY <1>2, <1>4 DEF Busy, At
<1>6. \A x : Inside(x, allocated_offset) =>
          Inside(x, allocated_offset') /\ x.at + x.size <= allocated_offset
  BY <1>1 DEF Inside
<1>7. Inside(Object(t)', allocated_offset')
  BY <1>1, <1>4 DEF Inside
<1>8. \A x : Inside(x, allocated_offset) => Disjoint(Object(t)', x) /\ Disjoint(x, Object(t)')
  BY <1>4, <1>6 DEF Disjoint
<1>9. \A u \in Busy' : u # t => u \in Busy /\ Object(u)' = Object(u)
  BY <1>4, <1>5 DEF Busy
<1>10. allocated_offset' \in 0..total_size
  BY <1>1
<1>11. \A u \in Busy' : Inside(Object(u)', allocated_offset')
  BY <1>6, <1>7, <1>9 DEF Laid, Placed
<1>12. \A u \in Busy' : \A x \in made \cup H : Disjoint(Object(u)', x)
  BY <1>8, <1>9 DEF Laid, Placed
<1>13. \A u, v \in Busy' : u # v => Disjoint(Object(u)', Object(v)')
  <2> SUFFICES ASSUME NEW u \in Busy', NEW v \in Busy', u # v
               PROVE  Disjoint(Object(u)', Object(v)')
    OBVIOUS
  <2>1. CASE u = t
    BY <1>8, <1>9, <2>1 DEF Laid, Placed
  <2>2. CASE v = t
    BY <1>8, <1>9, <2>2 DEF Laid, Placed
  <2>3. CASE u # t /\ v # t
    BY <1>9, <2>3 DEF Laid, Placed
  <2> QED BY <2>1, <2>2, <2>3
<1>14. /\ \A x \in made \cup H : Inside(x, allocated_offset')
       /\ \A x, y \in made \cup H : x # y => Disjoint(x, y)
       /\ made \cap H = {}
  BY <1>6 DEF Laid, Placed
<1>15. Placed(H)'
  BY <1>1, <1>10, <1>11, <1>12, <1>13, <1>14 DEF Placed
<1>16. \A p : Meets(H, p) => Meets(H, p)'
  <2> SUFFICES ASSUME NEW p, Meets(H, p) PROVE Meets(H, p)'
    OBVIOUS
  <2>1. CASE p = allocated_offset
    BY <1>2, <1>4, <1>5, <2>1 DEF Meets
  <2>2. CASE \E o \in made \cup H : o.at = p
    BY <1>1, <2>2 DEF Meets
  <2>3. CASE \E u \in Busy : user[u].at = p
    <3> PICK u \in Busy : user[u].at = p
      BY <2>3
    <3>1. u \in Busy' /\ user'[u].at = p
      BY <1>1, <1>4, <1>5 DEF Busy
    <3> QED BY <3>1 DEF Meets
  <2> QED BY <2>1, <2>2, <2>3 DEF Meets
<1>17. Meets(H, user[t].at + user[t].size)'
  BY <1>2, <1>4 DEF Meets
<1>18. \A u \in Busy' : u # t => u \in Busy /\ user'[u] = user[u]
  BY <1>4, <1>5 DEF Busy
<1>19. Chained(H)'
  BY <1>1, <1>16, <1>17, <1>18 DEF Laid, Chained
<1> QED BY <1>3, <1>15, <1>16, <1>19 DEF Laid

(* one that ends with its memory in use, or left as a hole, stays where it *)
(* is,                                                                     *)
LEMMA ReturnEffect ==
    ASSUME Typed, NEW t \in Thread, t \in Busy, Return(t)
    PROVE  /\ user' \in [Thread -> UserRecord] /\ Busy' = Busy \ {t}
           /\ \A u \in Busy' : Object(u)' = Object(u) /\ user'[u] = user[u]
<1>1. user' = [user EXCEPT ![t] = Idle] /\ user \in [Thread -> UserRecord]
  BY DEF Return, Typed
<1> QED BY <1>1, IdleTyped DEF Busy, At, Object

LEMMA SettleKeepsLaid ==
    ASSUME Typed, NEW H, Laid(H), NEW t \in Thread, t \in Busy, Return(t),
           UNCHANGED <<cms, allocated_offset>>,
           NEW G, made' \cup G = (made \cup H) \cup {Object(t)},
           made' \cap G = {} \/ (Object(t) \notin made \cup H => made' \cap G = {})
    PROVE  Typed' /\ Laid(G)' /\ \A p : Meets(H, p) => Meets(G, p)'
<1>1. /\ user' \in [Thread -> UserRecord] /\ Busy' = Busy \ {t}
      /\ \A u \in Busy' : Object(u)' = Object(u) /\ user'[u] = user[u]
  BY ReturnEffect
<1>2. \A x, y : Disjoint(x, y) => Disjoint(y, x)
  BY DEF Disjoint
<1>3. \A x \in made' \cup G : x \in made \cup H \/ x = Object(t)
  OBVIOUS
<1>4. \A x \in made' \cup G : Inside(x, allocated_offset)
  BY <1>3 DEF Laid, Placed
<1>5. \A x, y \in made' \cup G : x # y => Disjoint(x, y)
  BY <1>2, <1>3 DEF Laid, Placed
<1>6. \A u \in Busy' : \A x \in made' \cup G : Disjoint(Object(u)', x)
  <2> SUFFICES ASSUME NEW u \in Busy', NEW x \in made' \cup G PROVE Disjoint(Object(u), x)
    BY <1>1
  <2> QED BY <1>1, <1>3 DEF Laid, Placed
<1>7. \A u, v \in Busy' : u # v => Disjoint(Object(u)', Object(v)')
  BY <1>1 DEF Laid, Placed
<1>8. \A u \in Busy' : Inside(Object(u)', allocated_offset)
  BY <1>1 DEF Laid, Placed
<1>9. Object(t) \notin made \cup H
  <2>1. Inside(Object(t), allocated_offset) /\ Room \in Nat \ {0}
    BY SizeFacts DEF Laid, Placed
  <2>2. ~Disjoint(Object(t), Object(t))
    <3> HIDE DEF Object
    <3> QED BY <2>1 DEF Inside, Disjoint
  <2> QED BY <2>2 DEF Laid, Placed
<1>10. Placed(G)'
  BY <1>1, <1>4, <1>5, <1>6, <1>7, <1>8, <1>9 DEF Laid, Placed
<1>11. \A p : Meets(H, p) => Meets(G, p)'
  <2> SUFFICES ASSUME NEW p, Meets(H, p) PROVE Meets(G, p)'
    OBVIOUS
  <2>1. CASE p = allocated_offset
    BY <2>1 DEF Meets
  <2>2. CASE \E o \in made \cup H : o.at = p
    BY <2>2 DEF Meets
  <2>3. CASE \E u \in Busy : user[u].at = p
    <3> PICK u \in Busy : user[u].at = p
      BY <2>3
    <3>1. CASE u = t
      BY <3>1 DEF Meets, Object
    <3>2. CASE u # t
      BY <1>1, <3>2 DEF Meets
    <3> QED BY <3>1, <3>2
  <2> QED BY <2>1, <2>2, <2>3 DEF Meets
<1>12. /\ Meets(H, 0) /\ \A o \in made \cup H : Meets(H, o.at + o.size)
       /\ \A u \in Busy : Meets(H, user[u].at + user[u].size)
  BY DEF Laid, Chained
<1>13. Object(t).at = user[t].at /\ Object(t).size = user[t].size
  BY DEF Object
<1>14. \A o \in made' \cup G : Meets(H, o.at + o.size)
  BY <1>3, <1>12, <1>13
<1>15. Chained(G)'
  BY <1>1, <1>11, <1>12, <1>14 DEF Chained
<1> QED BY <1>1, <1>10, <1>11, <1>15 DEF Typed, Laid

(* and one withdrawn was the last: every other ends where it begins, or    *)
(* before.                                                                 *)
LEMMA WithdrawKeepsLaid ==
    ASSUME Typed, NEW H, Laid(H), NEW t \in Thread, t \in Busy, Return(t),
           user[t].at + user[t].size = allocated_offset, allocated_offset' = user[t].at,
           UNCHANGED <<cms, made>>
    PROVE  Typed' /\ Laid(H)' /\ \A p : Meets(H, p) /\ p # allocated_offset => Meets(H, p)'
<1>1. /\ user' \in [Thread -> UserRecord] /\ Busy' = Busy \ {t}
      /\ \A u \in Busy' : Object(u)' = Object(u) /\ user'[u] = user[u]
  BY ReturnEffect
<1> DEFINE o == Object(t)
<1>2. /\ o.at + o.size = allocated_offset /\ allocated_offset' = o.at
      /\ o.at \in Nat /\ o.size \in Nat /\ total_size \in Nat /\ Room \in Nat \ {0}
      /\ Room <= o.size
      /\ allocated_offset \in 0..total_size
  BY SizeFacts DEF Object, Laid, Placed, Inside
<1>3. ASSUME NEW x, Inside(x, allocated_offset), Disjoint(o, x)
      PROVE  Inside(x, allocated_offset') /\ x.at + x.size # allocated_offset
             /\ x.at # allocated_offset
  <2> HIDE DEF o
  <2> QED BY <1>2, <1>3 DEF Inside, Disjoint
<1>4. allocated_offset' \in 0..total_size
  <2> HIDE DEF o
  <2> QED BY <1>2
<1>5. \A x, y : Disjoint(x, y) => Disjoint(y, x)
  BY DEF Disjoint
<1>6. \A x \in made \cup H : Disjoint(o, x) /\ Inside(x, allocated_offset)
  BY DEF Laid, Placed
<1>7. \A u \in Busy' : Disjoint(o, Object(u)) /\ Inside(Object(u), allocated_offset)
  BY <1>1 DEF Laid, Placed
<1>8. \A u \in Busy' : Inside(Object(u)', allocated_offset')
  BY <1>1, <1>3, <1>7
<1>9. Placed(H)'
  <2>1. /\ \A u \in Busy' : \A x \in made \cup H : Disjoint(Object(u)', x)
        /\ \A u, v \in Busy' : u # v => Disjoint(Object(u)', Object(v)')
        /\ \A x, y \in made \cup H : x # y => Disjoint(x, y)
        /\ made \cap H = {}
    BY <1>1 DEF Laid, Placed
  <2>2. \A x \in made \cup H : Inside(x, allocated_offset')
    BY <1>3, <1>6
  <2> QED BY <1>4, <1>8, <2>1, <2>2 DEF Placed
<1>10. ASSUME NEW p, Meets(H, p), p # allocated_offset PROVE Meets(H, p)'
  <2>1. CASE \E x \in made \cup H : x.at = p
    BY <2>1 DEF Meets
  <2>2. CASE \E u \in Busy : user[u].at = p
    <3> PICK u \in Busy : user[u].at = p
      BY <2>2
    <3>1. CASE u = t
      BY <3>1 DEF Meets
    <3>2. CASE u # t
      BY <1>1, <3>2 DEF Meets
    <3> QED BY <3>1, <3>2
  <2> QED BY <1>10, <2>1, <2>2 DEF Meets
<1>11. Meets(H, 0)'
  <2>1. allocated_offset # 0
    <3> HIDE DEF o
    <3> QED BY <1>2
  <2> QED BY <1>10, <2>1 DEF Laid, Chained
<1>12. \A x \in made \cup H : Meets(H, x.at + x.size)'
  BY <1>3, <1>6, <1>10 DEF Laid, Chained
<1>13. \A u \in Busy' : Meets(H, user[u].at + user[u].size)'
  <2> SUFFICES ASSUME NEW u \in Busy' PROVE Meets(H, user[u].at + user[u].size)'
    OBVIOUS
  <2> PICK p : p = user[u].at + user[u].size
    OBVIOUS
  <2>1. Object(u).at = user[u].at /\ Object(u).size = user[u].size
    BY DEF Object
  <2>2. user[u].at + user[u].size # allocated_offset /\ user'[u] = user[u] /\ u \in Busy
    BY <1>1, <1>3, <1>7, <2>1
  <2>3. Meets(H, user[u].at + user[u].size)
    BY <2>2 DEF Laid, Chained
  <2>4. Meets(H, p)'
    BY <1>10, <2>2, <2>3
  <2> QED BY <2>2, <2>4
<1>14. Chained(H)'
  BY <1>11, <1>12, <1>13 DEF Chained
<1> QED BY <1>1, <1>9, <1>10, <1>14 DEF Typed, Laid

-----------------------------------------------------------------------------
(* What that means for the bytes of the bitmap: Byte rounds down, and an   *)
(* object is at least as long as Room. *)
LEMMA Division ==
    ASSUME NEW p \in Nat
    PROVE  Byte(p) \in Nat /\ PerByte * Byte(p) <= p /\ p < PerByte * Byte(p) + PerByte
<1>1. PerByte \in Nat /\ PerByte > 0
  BY SizeFacts
<1>2. /\ p \div PerByte \in Nat /\ p % PerByte \in 0..(PerByte - 1)
      /\ p = PerByte * (p \div PerByte) + (p % PerByte)
  BY <1>1
<1> QED BY <1>1, <1>2 DEF Byte

LEMMA Monotone ==
    ASSUME NEW k \in Nat, NEW a \in Nat, NEW b \in Nat, a <= b
    PROVE  k * a <= k * b
OBVIOUS

LEMMA EntryEnds ==
    ASSUME NEW a \in Nat, NEW n \in Nat, NEW b \in Nat, Room <= n, a + n <= b
    PROVE  Byte(a) + SizeBytes < Byte(b)
<1> DEFINE p == Byte(a)
           q == Byte(b)
<1>1. /\ p \in Nat /\ q \in Nat /\ PerByte \in Nat \ {0} /\ SizeBytes \in Nat
      /\ PerByte * p <= a /\ b < PerByte * q + PerByte
  BY Division, SizeFacts
<1> HIDE DEF p, q
<1>2. SUFFICES ASSUME q <= p + SizeBytes PROVE FALSE
  BY <1>1 DEF p, q
<1>3. PerByte * q <= PerByte * (p + SizeBytes)
  BY <1>1, <1>2, Monotone
<1>4. PerByte * (p + SizeBytes) + PerByte = PerByte * p + Room
  BY <1>1 DEF Room
<1>5. PerByte * q \in Nat /\ PerByte * p \in Nat /\ Room \in Nat
  BY <1>1, SizeFacts
<1>6. PerByte * (p + SizeBytes) \in Nat
  BY <1>1
<1> QED BY <1>1, <1>3, <1>4, <1>5, <1>6

LEMMA DisjointApart ==
    ASSUME NEW x, NEW y, Inside(x, allocated_offset), Inside(y, allocated_offset), Disjoint(x, y)
    PROVE  Apart(x, y)
<1>1. /\ x.at \in Nat /\ y.at \in Nat /\ SizeBytes \in Nat
      /\ Byte(x.at) \in Nat /\ Byte(y.at) \in Nat
  BY Division, SizeFacts DEF Inside
<1>2. Byte(x.at) + SizeBytes < Byte(y.at) \/ Byte(y.at) + SizeBytes < Byte(x.at)
  BY <1>1, EntryEnds DEF Inside, Disjoint
<1> QED BY <1>1, <1>2 DEF Apart, EntryBytes

LEMMA InsideBitmap ==
    ASSUME NEW x, allocated_offset \in 0..total_size, Inside(x, allocated_offset)
    PROVE  EntryBytes(x) \subseteq 0..(bitmap_size - 1)
<1>1. /\ x.at \in Nat /\ x.size \in Nat /\ Room <= x.size /\ x.at + x.size <= total_size
      /\ total_size \in Nat /\ PerByte \in Nat \ {0} /\ SizeBytes \in Nat /\ Byte(x.at) \in Nat
  BY Division, SizeFacts DEF Inside
<1>2. total_size + PerByte - 1 \in Nat /\ x.at + x.size <= total_size + PerByte - 1
  BY <1>1
<1>3. Byte(x.at) + SizeBytes < Byte(total_size + PerByte - 1)
  BY <1>1, <1>2, EntryEnds
<1>4. bitmap_size = Byte(total_size + PerByte - 1) /\ bitmap_size \in Nat
  BY <1>2, Division DEF bitmap_size, Byte
<1> QED BY <1>1, <1>3, <1>4 DEF EntryBytes

LEMMA BitmapSize == bitmap_size \in Nat
<1>1. total_size + PerByte - 1 \in Nat
  BY SizeFacts
<1> QED BY <1>1, Division DEF bitmap_size, Byte

LEMMA WholeBytes == total_size <= PerByte * bitmap_size /\ PerByte * bitmap_size \in Nat
<1> DEFINE n == total_size + PerByte - 1
<1>1. n \in Nat /\ total_size \in Nat /\ PerByte \in Nat \ {0} /\ bitmap_size = Byte(n)
  BY SizeFacts DEF bitmap_size, Byte
<1>2. Byte(n) \in Nat /\ n < PerByte * Byte(n) + PerByte
  BY <1>1, Division
<1>3. PerByte * bitmap_size \in Nat /\ n < PerByte * bitmap_size + PerByte
  BY <1>1, <1>2
<1> QED BY <1>1, <1>3

(* The bytes of the bitmap.  The state of an object is the remainder that  *)
(* two divisions leave, *)
LEMMA Quotient ==
    ASSUME NEW q \in Nat \ {0}, NEW a \in Int, NEW r \in 0..(q - 1)
    PROVE  (q * a + r) \div q = a /\ (q * a + r) % q = r
OBVIOUS

LEMMA Dividing ==
    ASSUME NEW q \in Nat \ {0}, NEW x \in Int
    PROVE  x \div q \in Int /\ x % q \in 0..(q - 1) /\ x = q * (x \div q) + (x % q)
OBVIOUS

Bitmap == bitmap_arr \in [0..(bitmap_size - 1) -> Int]

LEMMA StateIsState ==
    ASSUME Bitmap, NEW p \in Nat, Byte(p) \in 0..(bitmap_size - 1)
    PROVE  /\ 4 ^ (p % PerByte) \in Nat \ {0} /\ bitmap_arr[Byte(p)] \in Int
           /\ getMarkState(p) \in States
<1>1. p % PerByte \in 0..PerByte
  <2>1. PerByte \in Nat \ {0}
    BY SizeFacts
  <2>2. p % PerByte \in 0..(PerByte - 1)
    BY <2>1
  <2> QED BY <2>1, <2>2
<1> DEFINE q == 4 ^ (p % PerByte)
           x == bitmap_arr[Byte(p)]
<1>2. q \in Nat \ {0}
  BY <1>1, PowerAssumption
<1>3. x \in Int
  BY DEF Bitmap
<1> HIDE DEF q, x
<1>4. (x \div q) \in Int
  BY <1>2, <1>3
<1>5. (x \div q) % 4 \in 0..3
  BY <1>4
<1>6. getMarkState(p) \in 0..3
  BY <1>5 DEF getMarkState, q, x
<1> QED BY <1>2, <1>3, <1>6 DEF q, x, States, NOT_ALLOCATED, REMAPPED, M0, M1

LEMMA StateWritten ==
    ASSUME Bitmap, NEW p \in Nat, Byte(p) \in 0..(bitmap_size - 1), NEW s \in States,
           bitmap_arr' = WithState(p, s)
    PROVE  /\ bitmap_arr' \in [0..(bitmap_size - 1) -> Int]
           /\ \A b \in 0..(bitmap_size - 1) : b # Byte(p) => bitmap_arr'[b] = bitmap_arr[b]
           /\ getMarkState(p)' = s
<1> DEFINE q == 4 ^ (p % PerByte)
           x == bitmap_arr[Byte(p)]
           g == getMarkState(p)
           y == x + (s - g) * q
<1>1. q \in Nat \ {0} /\ x \in Int /\ g \in States /\ g = (x \div q) % 4
  BY StateIsState DEF getMarkState
<1>2. bitmap_arr' = [bitmap_arr EXCEPT ![Byte(p)] = y]
  BY DEF WithState
<1>3. s \in 0..3 /\ g \in 0..3
  BY <1>1 DEF States, NOT_ALLOCATED, REMAPPED, M0, M1
<1>4. getMarkState(p)' = (bitmap_arr'[Byte(p)] \div q) % 4
  BY DEF getMarkState, Byte
<1> HIDE DEF q, x, g
<1>5. y \in Int
  <2>1. (s - g) * q \in Int
    BY <1>1, <1>3
  <2> QED BY <1>1, <2>1
<1>6. (y \div q) % 4 = s
  <2> DEFINE a == x \div q
             r == x % q
             c == a \div 4
  <2>1. a \in Int /\ r \in 0..(q - 1) /\ x = q * a + r
    BY <1>1, Dividing
  <2>2. c \in Int /\ a = 4 * c + g
    BY <1>1, <2>1, Dividing
  <2> HIDE DEF a, r, c
  <2>3. y = q * (4 * c + s) + r
    <3>1. y = q * (4 * c + g) + r + (s - g) * q
      BY <2>1, <2>2
    <3>2. q * (4 * c + g) = q * (4 * c) + q * g
      BY <1>1, <1>3, <2>2
    <3>3. (s - g) * q = q * s - q * g
      BY <1>1, <1>3
    <3>4. q * (4 * c + s) = q * (4 * c) + q * s
      BY <1>1, <1>3, <2>2
    <3>5. q * (4 * c) \in Int /\ q * g \in Int /\ q * s \in Int /\ r \in Int
      BY <1>1, <1>3, <2>1, <2>2
    <3> HIDE DEF y
    <3> QED BY <3>1, <3>2, <3>3, <3>4, <3>5
  <2> HIDE DEF y
  <2>4. 4 * c + s \in Int
    BY <1>3, <2>2
  <2>5. y \div q = 4 * c + s
    BY <1>1, <2>1, <2>3, <2>4, Quotient
  <2>6. (4 * c + s) % 4 = s
    BY <1>3, <2>2
  <2> QED BY <2>5, <2>6
<1> HIDE DEF y
<1>7. bitmap_arr'[Byte(p)] = y
  BY <1>2 DEF Bitmap
<1> QED BY <1>2, <1>4, <1>5, <1>6, <1>7 DEF Bitmap, g

LEMMA StateKept ==
    ASSUME NEW p, bitmap_arr'[Byte(p)] = bitmap_arr[Byte(p)]
    PROVE  getMarkState(p)' = getMarkState(p)
BY DEF getMarkState, Byte

(* and a size is the only number with its digits: two numbers with the     *)
(* same digits have the same quotient by Radix ^ SizeBytes, which is 0,    *)
(* and so by each lower power of Radix, down to 1.                         *)
Below == {pair \in Nat \X Nat : pair[1] < pair[2]}
LEMMA Least ==
    ASSUME NEW T \in SUBSET Nat, T # {}
    PROVE  \E x \in T : \A y \in T : x <= y
<1>1. IsWellFoundedOn(Below, Nat)
  BY NatLessThanWellFounded, Zenon DEF OpToRel, Below
<1>2. \A x, y \in Nat : y < x => <<y, x>> \in Below
  BY DEF Below
<1>3. PICK x \in T : \A y \in T : <<y, x>> \notin Below
  BY <1>1, WFMin
<1>4. ASSUME NEW y \in T PROVE x <= y
  <2>1. x \in Nat /\ y \in Nat /\ ~(y < x)
    BY <1>2, <1>3
  <2> QED BY <2>1
<1> QED BY <1>4

LEMMA DividedTwice ==
    ASSUME NEW q \in Nat \ {0}, NEW r \in Nat \ {0}, NEW x \in Nat
    PROVE  (x \div q) \div r = x \div (r * q)
OBVIOUS

Top == Radix ^ SizeBytes
LEMMA PowerFacts ==
    /\ Radix \in Nat \ {0} /\ Top \in Nat \ {0} /\ SizeBytes \in Nat \ {0} /\ Radix ^ 0 = 1
    /\ \A i \in 0..SizeBytes : Radix ^ i \in Nat \ {0}
    /\ \A i \in 0..(SizeBytes - 1) : Radix ^ (i + 1) = Radix * Radix ^ i
<1>1. PerByte \in 0..PerByte /\ SizeBytes \in 0..SizeBytes
  BY SizeFacts
<1> QED BY <1>1, SizeFacts, PowerAssumption DEF Radix, Top

LEMMA SameDigits ==
    ASSUME NEW m \in 0..(Top - 1), NEW n \in 0..(Top - 1),
           \A i \in 0..(SizeBytes - 1) : Digit(m, i) = Digit(n, i)
    PROVE  m = n
<1>1. m \in Nat /\ n \in Nat /\ m < Top /\ n < Top
  BY PowerFacts
<1> DEFINE T == {i \in 0..SizeBytes : m \div Radix ^ i = n \div Radix ^ i}
<1>2. SizeBytes \in T
  <2>1. m \div Top = 0 /\ n \div Top = 0
    BY <1>1, PowerFacts
  <2> QED BY <2>1, PowerFacts DEF Top
<1>3. T \subseteq Nat
  BY PowerFacts
<1>4. PICK k \in T : \A i \in T : k <= i
  BY <1>2, <1>3, Least
<1>5. k = 0
  <2> SUFFICES ASSUME k # 0 PROVE FALSE
    OBVIOUS
  <2> DEFINE i == k - 1
             q == Radix ^ i
             a == m \div q
             b == n \div q
  <2>1. i \in 0..(SizeBytes - 1) /\ i \in 0..SizeBytes /\ k = i + 1 /\ i \in Nat /\ k \in Nat
    BY PowerFacts
  <2>2. q \in Nat \ {0} /\ Radix \in Nat \ {0} /\ Radix ^ k = Radix * q
    BY <2>1, PowerFacts
  <2> HIDE DEF i, q
  <2>3. a \in Nat /\ b \in Nat
    BY <1>1, <2>2
  <2>4. a \div Radix = m \div Radix ^ k /\ b \div Radix = n \div Radix ^ k
    <3>1. a \div Radix = m \div (Radix * q) /\ b \div Radix = n \div (Radix * q)
      BY <1>1, <2>2, DividedTwice
    <3> QED BY <2>2, <3>1
  <2>5. a % Radix = b % Radix
    BY <2>1 DEF Digit, q
  <2>6. a \div Radix = b \div Radix
    BY <2>4
  <2> HIDE DEF a, b
  <2>7. a = b
    <3>1. /\ a = Radix * (a \div Radix) + (a % Radix)
          /\ b = Radix * (b \div Radix) + (b % Radix)
      BY <2>2, <2>3, Dividing
    <3> QED BY <2>5, <2>6, <3>1
  <2>8. i \in T
    BY <2>1, <2>7 DEF a, b, q
  <2> HIDE DEF T
  <2> QED BY <1>4, <2>1, <2>8
<1>6. m \div 1 = n \div 1
  BY <1>5, PowerFacts
<1> QED BY <1>1, <1>6

DigitHeld(o, i) == bitmap_arr[Byte(o.at) + 1 + i] = Digit(o.size, i)
Held(o) == \A i \in 0..(SizeBytes - 1) : DigitHeld(o, i)

LEMMA HeldIsRead ==
    ASSUME NEW o, o.at \in Nat, o.size \in Size, EntryBytes(o) \subseteq 0..(bitmap_size - 1), Held(o)
    PROVE  getObjectSize(o.at) = o.size
<1> DEFINE Fits(n) == \A i \in 0..(SizeBytes - 1) : Digit(n, i) = ByteAt(Byte(o.at) + 1 + i)
<1>1. o.size \in 0..(Top - 1)
  <2>1. o.size \in Nat /\ Room <= o.size /\ Room \in Nat /\ o.size \in Room..(Top - 1) /\ Top \in Nat
    BY SizeFacts, SizeAssumption, PowerFacts DEF Room, Top
  <2> QED BY <2>1
<1>2. Byte(o.at) \in Nat /\ SizeBytes \in Nat
  BY Division, SizeFacts
<1>3. \A i \in 0..(SizeBytes - 1) : ByteAt(Byte(o.at) + 1 + i) = Digit(o.size, i)
  <2> SUFFICES ASSUME NEW i \in 0..(SizeBytes - 1)
               PROVE  ByteAt(Byte(o.at) + 1 + i) = Digit(o.size, i)
    OBVIOUS
  <2>1. Byte(o.at) + 1 + i \in EntryBytes(o)
    BY <1>2 DEF EntryBytes
  <2>2. Byte(o.at) + 1 + i < bitmap_size
    <3>1. Byte(o.at) + 1 + i \in 0..(bitmap_size - 1) /\ bitmap_size \in Nat
      BY <2>1, BitmapSize
    <3> QED BY <3>1
  <2> QED BY <2>2 DEF ByteAt, Held, DigitHeld
<1>4. Fits(o.size)
  BY <1>3
<1>5. getObjectSize(o.at) = CHOOSE n \in 0..(Top - 1) : Fits(n)
  BY DEF getObjectSize, Top
<1> DEFINE m == CHOOSE n \in 0..(Top - 1) : Fits(n)
<1>6. m \in 0..(Top - 1) /\ Fits(m)
  BY <1>1, <1>4
<1> HIDE DEF m
<1>7. \A i \in 0..(SizeBytes - 1) : Digit(m, i) = Digit(o.size, i)
  BY <1>3, <1>6
<1>8. m = o.size
  BY <1>1, <1>6, <1>7, SameDigits
<1> QED BY <1>5, <1>8 DEF m

-----------------------------------------------------------------------------
(* Everything that is laid out in the region. *)
Blocks(H) == made \cup H \cup {Object(t) : t \in Busy}

LEMMA BlocksApart ==
    ASSUME NEW H, Laid(H)
    PROVE  /\ \A x \in Blocks(H) : /\ Inside(x, allocated_offset) /\ x.at \in Nat /\ x.size \in Size
                                   /\ EntryBytes(x) \subseteq 0..(bitmap_size - 1)
                                   /\ Byte(x.at) \in EntryBytes(x)
           /\ \A x, y \in Blocks(H) : x # y => Disjoint(x, y) /\ Apart(x, y) /\ x.at # y.at
           /\ \A t \in Busy : Object(t) \notin made \cup H
           /\ \A t, u \in Busy : t # u => Object(t) # Object(u)
<1>1. ASSUME NEW x, Inside(x, allocated_offset)
      PROVE  ~Disjoint(x, x)
  BY <1>1, SizeFacts DEF Inside, Disjoint
<1>2. \A x \in Blocks(H) : Inside(x, allocated_offset) /\ x.at \in Nat /\ x.size \in Size
  BY DEF Blocks, Laid, Placed, Inside
<1>3. ASSUME NEW x \in Blocks(H)
      PROVE  EntryBytes(x) \subseteq 0..(bitmap_size - 1) /\ Byte(x.at) \in EntryBytes(x)
  <2>1. EntryBytes(x) \subseteq 0..(bitmap_size - 1)
    BY <1>2, InsideBitmap DEF Laid, Placed
  <2>2. Byte(x.at) \in Nat /\ SizeBytes \in Nat
    BY <1>2, Division, SizeFacts
  <2> QED BY <2>1, <2>2 DEF EntryBytes
<1>4. \A t \in Busy : Object(t) \notin made \cup H
  BY <1>1 DEF Laid, Placed
<1>5. \A t, u \in Busy : t # u => Object(t) # Object(u)
  BY <1>1 DEF Laid, Placed
<1>6. \A x, y : Disjoint(x, y) => Disjoint(y, x)
  BY DEF Disjoint
<1>7. ASSUME NEW x \in Blocks(H), NEW y \in Blocks(H), x # y
      PROVE  Disjoint(x, y)
  <2>1. CASE x \in made \cup H /\ y \in made \cup H
    BY <1>7, <2>1 DEF Laid, Placed
  <2>2. CASE x \in made \cup H /\ y \notin made \cup H
    BY <1>6, <2>2 DEF Blocks, Laid, Placed
  <2>3. CASE x \notin made \cup H /\ y \in made \cup H
    BY <2>3 DEF Blocks, Laid, Placed
  <2>4. CASE x \notin made \cup H /\ y \notin made \cup H
    <3>1. PICK t \in Busy : x = Object(t)
      BY <2>4 DEF Blocks
    <3>2. PICK u \in Busy : y = Object(u)
      BY <2>4 DEF Blocks
    <3> QED BY <1>7, <3>1, <3>2 DEF Laid, Placed
  <2> QED BY <2>1, <2>2, <2>3, <2>4
<1>8. ASSUME NEW x \in Blocks(H), NEW y \in Blocks(H), x # y
      PROVE  Apart(x, y) /\ x.at # y.at
  <2>1. Disjoint(x, y) /\ Inside(x, allocated_offset) /\ Inside(y, allocated_offset)
    BY <1>2, <1>7, <1>8
  <2>2. Apart(x, y)
    BY <2>1, DisjointApart
  <2> QED BY <2>1, <2>2, SizeFacts DEF Inside, Disjoint
<1> QED BY <1>2, <1>3, <1>4, <1>5, <1>7, <1>8

LEMMA LaidApart == ASSUME NEW H, Laid(H) PROVE EntriesApart
<1>1. /\ made \subseteq Blocks(H) /\ \A t \in Busy : Object(t) \in Blocks(H)
  BY DEF Blocks
<1>2. \A t \in Busy : \A x \in made : Object(t) # x
  BY BlocksApart
<1> QED BY <1>1, <1>2, BlocksApart DEF EntriesApart

-----------------------------------------------------------------------------
(* The mark state of a block is written into a byte of its own, *)
State(o) == getMarkState(o.at)

LEMMA BytesKept ==
    ASSUME NEW o, o.at \in Nat, \A b \in EntryBytes(o) \ {Byte(o.at)} : bitmap_arr'[b] = bitmap_arr[b]
    PROVE  \A i \in 0..(SizeBytes - 1) : DigitHeld(o, i)' <=> DigitHeld(o, i)
<1> SUFFICES ASSUME NEW i \in 0..(SizeBytes - 1) PROVE DigitHeld(o, i)' <=> DigitHeld(o, i)
  OBVIOUS
<1>1. Byte(o.at) \in Nat /\ SizeBytes \in Nat
  BY Division, SizeFacts
<1>2. Byte(o.at) + 1 + i \in EntryBytes(o) \ {Byte(o.at)}
  BY <1>1 DEF EntryBytes
<1> QED BY <1>2 DEF DigitHeld, Digit, Byte

LEMMA HeadWritten ==
    ASSUME NEW H, Laid(H), Bitmap, NEW x \in Blocks(H), NEW s \in States,
           bitmap_arr' = WithState(x.at, s)
    PROVE  /\ Bitmap' /\ State(x)' = s
           /\ \A y \in Blocks(H) : \A i \in 0..(SizeBytes - 1) : DigitHeld(y, i)' <=> DigitHeld(y, i)
           /\ \A y \in Blocks(H) : y # x => State(y)' = State(y)
<1>1. /\ x.at \in Nat /\ EntryBytes(x) \subseteq 0..(bitmap_size - 1) /\ Byte(x.at) \in EntryBytes(x)
  BY BlocksApart
<1>2. /\ bitmap_arr' \in [0..(bitmap_size - 1) -> Int]
      /\ \A b \in 0..(bitmap_size - 1) : b # Byte(x.at) => bitmap_arr'[b] = bitmap_arr[b]
      /\ getMarkState(x.at)' = s
  BY <1>1, StateWritten
<1>3. ASSUME NEW y \in Blocks(H)
      PROVE  /\ \A i \in 0..(SizeBytes - 1) : DigitHeld(y, i)' <=> DigitHeld(y, i)
             /\ y # x => State(y)' = State(y)
  <2>1. /\ y.at \in Nat /\ EntryBytes(y) \subseteq 0..(bitmap_size - 1) /\ Byte(y.at) \in EntryBytes(y)
        /\ y # x => Apart(x, y)
    BY BlocksApart
  <2>2. \A b \in EntryBytes(y) \ {Byte(y.at)} : bitmap_arr'[b] = bitmap_arr[b]
    <3>1. CASE y = x
      BY <1>2, <2>1, <3>1
    <3>2. CASE y # x
      BY <1>1, <1>2, <2>1, <3>2 DEF Apart
    <3> QED BY <3>1, <3>2
  <2>3. ASSUME y # x PROVE State(y)' = State(y)
    <3>1. bitmap_arr'[Byte(y.at)] = bitmap_arr[Byte(y.at)]
      BY <1>1, <1>2, <2>1, <2>3 DEF Apart
    <3> QED BY <3>1, StateKept DEF State
  <2> QED BY <2>1, <2>2, <2>3, BytesKept
<1>4. Bitmap'
  BY <1>2 DEF Bitmap, bitmap_size
<1>5. State(x)' = s
  BY <1>2 DEF State
<1> QED BY <1>3, <1>4, <1>5

(* each digit of its size into another, *)
LEMMA DigitWritten ==
    ASSUME NEW H, Laid(H), Bitmap, NEW x \in Blocks(H), NEW j \in 0..(SizeBytes - 1),
           bitmap_arr' = [bitmap_arr EXCEPT ![Byte(x.at) + 1 + j] = Digit(x.size, j)]
    PROVE  /\ Bitmap' /\ DigitHeld(x, j)'
           /\ \A i \in 0..(SizeBytes - 1) : DigitHeld(x, i) => DigitHeld(x, i)'
           /\ \A y \in Blocks(H) : y # x =>
                  \A i \in 0..(SizeBytes - 1) : DigitHeld(y, i)' <=> DigitHeld(y, i)
           /\ \A y \in Blocks(H) : State(y)' = State(y)
<1> DEFINE c == Byte(x.at) + 1 + j
           d == Digit(x.size, j)
<1>1. /\ x.at \in Nat /\ EntryBytes(x) \subseteq 0..(bitmap_size - 1) /\ Byte(x.at) \in Nat
      /\ SizeBytes \in Nat /\ x.size \in Nat
  BY BlocksApart, Division, SizeFacts
<1>2. c \in EntryBytes(x) /\ c # Byte(x.at) /\ c \in 0..(bitmap_size - 1)
  BY <1>1 DEF EntryBytes
<1>3. d \in Int
  <2>1. Radix ^ j \in Nat \ {0} /\ Radix \in Nat \ {0}
    BY <1>1, PowerFacts
  <2> DEFINE q == Radix ^ j
             a == x.size \div q
  <2>2. a \in Int
    <3> HIDE DEF q
    <3> QED BY <1>1, <2>1 DEF q
  <2> HIDE DEF a
  <2>3. a % Radix \in Int
    BY <2>1, <2>2
  <2> QED BY <2>3 DEF Digit, a
<1> HIDE DEF d
<1>4. bitmap_arr' = [bitmap_arr EXCEPT ![c] = d]
  BY DEF d
<1> HIDE DEF c
<1>5. /\ bitmap_arr' \in [0..(bitmap_size - 1) -> Int] /\ bitmap_arr'[c] = d
      /\ \A b \in 0..(bitmap_size - 1) : b # c => bitmap_arr'[b] = bitmap_arr[b]
  BY <1>2, <1>3, <1>4 DEF Bitmap
<1>6. Bitmap'
  BY <1>5 DEF Bitmap, bitmap_size
<1>7. DigitHeld(x, j)'
  BY <1>5 DEF DigitHeld, Digit, Byte, c, d
<1>8. ASSUME NEW i \in 0..(SizeBytes - 1), DigitHeld(x, i) PROVE DigitHeld(x, i)'
  <2>1. CASE i = j
    BY <1>7, <2>1
  <2>2. CASE i # j
    <3> DEFINE b == Byte(x.at) + 1 + i
    <3>1. b \in EntryBytes(x) /\ b # c
      BY <1>1, <2>2 DEF EntryBytes, c
    <3>2. bitmap_arr'[b] = bitmap_arr[b]
      BY <1>1, <1>5, <3>1
    <3> QED BY <1>8, <3>2 DEF DigitHeld, Digit, Byte
  <2> QED BY <2>1, <2>2
<1>9. ASSUME NEW y \in Blocks(H)
      PROVE  /\ y # x => \A i \in 0..(SizeBytes - 1) : DigitHeld(y, i)' <=> DigitHeld(y, i)
             /\ State(y)' = State(y)
  <2>1. /\ y.at \in Nat /\ EntryBytes(y) \subseteq 0..(bitmap_size - 1) /\ Byte(y.at) \in EntryBytes(y)
        /\ y # x => Apart(x, y)
    BY BlocksApart
  <2>2. ASSUME y # x PROVE \A b \in EntryBytes(y) : bitmap_arr'[b] = bitmap_arr[b]
    BY <1>2, <1>5, <2>1, <2>2 DEF Apart
  <2>3. bitmap_arr'[Byte(y.at)] = bitmap_arr[Byte(y.at)]
    <3>1. CASE y = x
      BY <1>2, <1>5, <2>1, <3>1
    <3>2. CASE y # x
      BY <2>1, <2>2, <3>2
    <3> QED BY <3>1, <3>2
  <2>4. State(y)' = State(y)
    BY <2>3, StateKept DEF State
  <2> QED BY <2>1, <2>2, <2>4, BytesKept
<1> QED BY <1>6, <1>7, <1>8, <1>9

(* and to write a size that is there changes nothing. *)
LEMMA SizeRead ==
    ASSUME NEW H, Laid(H), Bitmap, NEW x \in Blocks(H), Held(x)
    PROVE  /\ getObjectSize(x.at) = x.size /\ x.size \in Nat \ {0}
           /\ SizeAgrees(x.at, x.size) /\ WithSize(bitmap_arr, x.at, x.size) = bitmap_arr
<1>1. x.at \in Nat /\ x.size \in Size /\ EntryBytes(x) \subseteq 0..(bitmap_size - 1)
      /\ Byte(x.at) \in Nat
  BY BlocksApart, Division
<1>2. getObjectSize(x.at) = x.size
  BY <1>1, HeldIsRead
<1>3. x.size \in Nat \ {0}
  BY <1>1, SizeFacts
<1>4. WithSize(bitmap_arr, x.at, x.size) = bitmap_arr
  <2>1. DOMAIN bitmap_arr = 0..(bitmap_size - 1)
        /\ bitmap_arr = [b \in 0..(bitmap_size - 1) |-> bitmap_arr[b]]
    BY DEF Bitmap
  <2>2. ASSUME NEW b \in 0..(bitmap_size - 1), b - Byte(x.at) - 1 \in 0..(SizeBytes - 1)
        PROVE  Digit(x.size, b - Byte(x.at) - 1) = bitmap_arr[b]
    <3> DEFINE i == b - Byte(x.at) - 1
    <3>1. DigitHeld(x, i)
      BY <2>2 DEF Held
    <3>2. Byte(x.at) + 1 + i = b
      BY <1>1
    <3> QED BY <3>1, <3>2 DEF DigitHeld
  <2> QED BY <2>1, <2>2 DEF WithSize
<1> QED BY <1>2, <1>3, <1>4 DEF SizeAgrees

-----------------------------------------------------------------------------
(* The layout through a step: only the loser of a relocation that cannot   *)
(* withdraw its memory adds a hole.                                        *)
Leaves(t) == free(t) /\ user[t].at + user[t].size # allocated_offset

LEMMA MarkerFrame ==
    ASSUME NEW k \in Marker, MarkerStep(k)
    PROVE  UNCHANGED <<user, made, dead, allocated_offset, cms, phase, gcpc, limit, iter, early, doomed>>
BY DEF MarkerStep, marked, MarkBit, MarkSize, CountLive, phaseVars, regionVars, heapVars, sweepVars,
       history

LEMMA GCThreadFrame ==
    ASSUME GCThread
    PROVE  /\ UNCHANGED <<user, made, dead, allocated_offset, mark>>
           /\ cms' = cms \/ cms' = switchState(cms)
<1>1. UNCHANGED <<user, made, dead, allocated_offset, mark>>
  BY DEF GCThread, SwitchPhase, SwitchMarkState, beginMark, selectRelocationSet, ResumeTheWorld, endGC,
         resetLiveSize, clearUnmarked, LoadOffset, Yield, CurrentState, CurrentSize, VerifySize, Clear,
         ClearSize, MoveNext, regionVars, heapVars
<1>2. cms' = cms \/ cms' = switchState(cms)
  BY DEF GCThread, SwitchPhase, SwitchMarkState, beginMark, selectRelocationSet, ResumeTheWorld, endGC,
         resetLiveSize, clearUnmarked, LoadOffset, Yield, CurrentState, CurrentSize, VerifySize, Clear,
         ClearSize, MoveNext, phaseVars
<1> QED BY <1>1, <1>2

LEMMA CallFrame ==
    ASSUME Typed, NEW t \in Thread,
           TestPhase(t) \/ ReadState(t) \/ MarkHead(t) \/ StoreSize(t) \/ CountAllocated(t)
    PROVE  /\ Moves(t) /\ user[t].pc # "done"
           /\ UNCHANGED <<phase, cms, gcpc, allocated_offset, mark, limit, iter, made, dead, pending,
                          early, doomed>>
<1>1. Moves(t) /\ user[t].pc # "done"
  BY TestPhaseEffect, ReadStateEffect, MarkHeadEffect, StoreSizeEffect, CountAllocatedEffect
<1>2. UNCHANGED <<phase, cms, gcpc, allocated_offset, mark, limit, iter, made, dead, pending, early, doomed>>
  BY DEF TestPhase, ReadState, MarkHead, StoreSize, CountAllocated, phaseVars, regionVars, sweepVars,
         heapVars, history
<1> QED BY <1>1, <1>2

LEMMA FreeFrame ==
    ASSUME Typed, NEW t \in Thread, free(t)
    PROVE  /\ Return(t) /\ t \in Busy /\ At(t, "done")
           /\ UNCHANGED <<phase, cms, gcpc, mark, limit, iter, made, dead, pending, doomed>>
           /\ ~Leaves(t) => /\ user[t].at + user[t].size = allocated_offset
                            /\ torn' = (torn \/ Passed(t)) /\ allocated_offset' = user[t].at
                            /\ UNCHANGED bitmap_arr
           /\ Leaves(t) => /\ bitmap_arr' = WithState(user[t].at, NOT_ALLOCATED)
                           /\ UNCHANGED allocated_offset
BY DEF free, Leaves, phaseVars, heapVars, sweepVars, Busy, At

LEMMA PublishFrame ==
    ASSUME Typed, NEW t \in Thread, Publish(t)
    PROVE  /\ Return(t) /\ t \in Busy /\ At(t, "done") /\ made' = made \cup {Object(t)}
           /\ UNCHANGED <<phase, cms, gcpc, mark, limit, iter, allocated_offset, bitmap_arr, dead, pending,
                          doomed>>
BY DEF Publish, phaseVars, regionVars, sweepVars, Busy, At

LEMMA TypedKept ==
    ASSUME Typed, UNCHANGED user, cms' = cms \/ cms' = switchState(cms)
    PROVE  Typed'
BY DEF Typed, switchState, States

LEMMA UserUnchanged ==
    ASSUME UNCHANGED user
    PROVE  Busy' = Busy /\ \A t \in Thread : Object(t)' = Object(t)
BY DEF Busy, At, Object

LEMMA FreeKeepsLaid ==
    ASSUME Typed, NEW H, Laid(H), NEW t \in Thread, free(t)
    PROVE  /\ Typed'
           /\ ~Leaves(t) => Laid(H)'
           /\ \A o : Leaves(t) /\ o = Object(t) => Laid(H \cup {o})'
<1>1. CASE Leaves(t)
  <2> SUFFICES ASSUME NEW o, o = Object(t) PROVE Typed' /\ Laid(H \cup {o})'
    BY <1>1
  <2> DEFINE G == H \cup {o}
  <2>1. Return(t) /\ t \in Busy /\ UNCHANGED <<made, cms, allocated_offset>>
    BY <1>1, FreeFrame
  <2>2. made' \cup G = (made \cup H) \cup {Object(t)}
    BY <2>1
  <2>3. Object(t) \notin made \cup H => made' \cap G = {}
    BY <2>1 DEF Laid, Placed
  <2> HIDE DEF G
  <2>4. Typed' /\ Laid(G)'
    BY <2>1, <2>2, <2>3, SettleKeepsLaid
  <2> QED BY <2>4 DEF G
<1>2. CASE ~Leaves(t)
  BY <1>2, FreeFrame, WithdrawKeepsLaid
<1> QED BY <1>1, <1>2

LEMMA PublishKeepsLaid ==
    ASSUME Typed, NEW H, Laid(H), NEW t \in Thread, Publish(t)
    PROVE  Typed' /\ Laid(H)'
<1>1. Return(t) /\ t \in Busy /\ UNCHANGED <<cms, allocated_offset>> /\ made' = made \cup {Object(t)}
  BY PublishFrame
<1>2. made' \cup H = (made \cup H) \cup {Object(t)}
  BY <1>1
<1>3. Object(t) \notin made \cup H => made' \cap H = {}
  BY <1>1 DEF Laid, Placed
<1> QED BY <1>1, <1>2, <1>3, SettleKeepsLaid

LEMMA NextLaid ==
    ASSUME Typed, NEW H, Laid(H), [Next]_vars
    PROVE  /\ Typed'
           /\ \/ (\A t \in Thread : ~Leaves(t)) /\ Laid(H)'
              \/ \E t \in Thread : \E o : Leaves(t) /\ o = Object(t) /\ Laid(H \cup {o})'
<1> DEFINE Goal == /\ Typed'
                   /\ \/ (\A t \in Thread : ~Leaves(t)) /\ Laid(H)'
                      \/ \E t \in Thread : \E o : Leaves(t) /\ o = Object(t) /\ Laid(H \cup {o})'
<1>1. ASSUME NEW t \in Thread, Leaves(t) PROVE Goal
  <2>1. free(t)
    BY <1>1 DEF Leaves
  <2> QED BY <1>1, <2>1, FreeKeepsLaid
<1>2. ASSUME \A t \in Thread : ~Leaves(t), Typed', Laid(H)' PROVE Goal
  BY <1>2
<1> SUFFICES ASSUME \A t \in Thread : ~Leaves(t) PROVE Typed' /\ Laid(H)'
  BY <1>1, <1>2
<1> HIDE DEF Goal
<1>3. ASSUME UNCHANGED <<user, made, allocated_offset>>, cms' = cms \/ cms' = switchState(cms)
      PROVE  Typed' /\ Laid(H)'
  BY <1>3, TypedKept, UserUnchanged, QuietStepKeepsLaid DEF Busy
<1>4. ASSUME NEW t \in Thread, UserStep(t) PROVE Typed' /\ Laid(H)'
  <2>1. CASE TestPhase(t) \/ ReadState(t) \/ MarkHead(t) \/ StoreSize(t) \/ CountAllocated(t)
    <3>1. Moves(t) /\ UNCHANGED <<cms, made, allocated_offset>>
      BY <2>1, CallFrame
    <3>2. Busy' = Busy /\ \A u \in Thread : Object(u)' = Object(u)
      BY <3>1, MovesKeepsObjects
    <3>3. Typed'
      BY <3>1 DEF Typed, Moves
    <3> QED BY <3>1, <3>2, <3>3, QuietStepKeepsLaid DEF Busy
  <2>2. CASE free(t)
    BY <2>2, FreeKeepsLaid
  <2> QED BY <1>4, <2>1, <2>2, AllocateKeepsLaid, PublishKeepsLaid DEF UserStep
<1>5. ASSUME NEW k \in Marker, MarkerStep(k) PROVE Typed' /\ Laid(H)'
  BY <1>3, <1>5, MarkerFrame
<1>6. CASE GCThread
  BY <1>3, <1>6, GCThreadFrame
<1>7. CASE Drop \/ UNCHANGED vars
  BY <1>3, <1>7 DEF Drop, vars, phaseVars, regionVars, heapVars
<1> QED BY <1>4, <1>5, <1>6, <1>7 DEF Next

-----------------------------------------------------------------------------
(* What the bytes of the entries hold: the digits of the size, all of them *)
(* once an allocation is done.                                             *)
Written(t) ==
    /\ user[t].digit \in 0..(SizeBytes - 1)
    /\ ~At(t, "size") => user[t].digit = 0
    /\ At(t, "size") => \A i \in 0..(user[t].digit - 1) : DigitHeld(Object(t), i)
    /\ At(t, "count") \/ At(t, "done") => Held(Object(t))
Sized(H) == Bitmap /\ (\A o \in made \cup H : Held(o)) /\ \A t \in Busy : Written(t)

(* The GC threads visit objects, and none has thrown. *)
MarkRecord(S) == [pc : {"idle", "head", "size", "count"}, obj : S \cup {<<>>}]
MarkTyped ==
    /\ mark \in [Marker -> MarkRecord(made)]
    /\ \A k \in Marker : ~Marking(k, "idle") => mark[k].obj \in made

(* The entries that are complete.  Until the sweep is torn it stands on    *)
(* one of these from the moment it has read its state; and whatever goes   *)
(* on below its limit, where it comes to some entry begins, or the free    *)
(* memory.                                                                 *)
Whole(H) == made \cup H \cup {Object(t) : t \in {u \in Busy : At(u, "done")}}
IterPc == {"state", "size", "verify", "clear", "check", "next"}
IterRecord == [pc : IterPc, at : Nat, state : States, size : Nat]
Stands(H) ==
    \E o \in Whole(H) : /\ o.at = iter.at
                        /\ iter.pc \in {"verify", "clear", "check"} => iter.size = o.size
Iterates(H) ==
    /\ limit \in Nat /\ iter \in IterRecord
    /\ gcpc = "iterate" /\ iter.pc # "state" => iter.at < limit /\ Stands(H)
    /\ gcpc = "iterate" /\ iter.pc = "state" /\ iter.at < limit => Meets(H, iter.at)
Intact(H) == Sized(H) /\ MarkTyped /\ Iterates(H)

LEMMA WholeFacts ==
    ASSUME NEW H, Sized(H)
    PROVE  /\ Whole(H) \subseteq Blocks(H) /\ \A o \in Whole(H) : Held(o)
           /\ \A o \in made : o \in Blocks(H) /\ Held(o)
<1>1. \A o \in made \cup H : Held(o)
  BY DEF Sized
<1>2. \A t \in Busy : At(t, "done") => Held(Object(t))
  BY DEF Sized, Written
<1> QED BY <1>1, <1>2 DEF Whole, Blocks

LEMMA InitIntact == Init => Intact({})
<1> SUFFICES ASSUME Init PROVE Intact({})
  OBVIOUS
<1>1. /\ user = [t \in Thread |-> Idle] /\ mark = [k \in Marker |-> NoVisit] /\ made = {}
      /\ limit = 0 /\ iter = Started /\ gcpc = "idle"
      /\ bitmap_arr \in {[b \in 0..(bitmap_size - 1) |-> v] : v \in Stale}
  BY DEF Init
<1>2. Busy = {}
  BY <1>1, IdleTyped DEF Busy, At
<1>3. Bitmap
  <2>1. PICK v \in Stale : bitmap_arr = [b \in 0..(bitmap_size - 1) |-> v]
    BY <1>1
  <2>2. v \in Int
    BY StaleAssumption, PowerFacts
  <2> QED BY <2>1, <2>2 DEF Bitmap
<1>4. MarkTyped
  <2>1. NoVisit \in MarkRecord(made) /\ NoVisit.pc = "idle"
    BY DEF NoVisit, MarkRecord
  <2> QED BY <1>1, <2>1 DEF MarkTyped, Marking
<1>5. Iterates({})
  BY <1>1 DEF Iterates, Started, IterRecord, IterPc, States
<1> QED BY <1>1, <1>2, <1>3, <1>4, <1>5 DEF Intact, Sized

(* What keeps the sizes: no digit of a block is lost, and what is new in   *)
(* use was whole.                                                          *)
LEMMA SizedKept ==
    ASSUME NEW H, Sized(H), NEW G, Bitmap',
           \A o \in Blocks(H) : \A i \in 0..(SizeBytes - 1) : DigitHeld(o, i) => DigitHeld(o, i)',
           made' \cup G \subseteq Whole(H),
           \A u \in Busy' : Written(u)' \/ (u \in Busy /\ user'[u] = user[u])
    PROVE  Sized(G)'
<1>1. ASSUME NEW o \in Blocks(H), Held(o) PROVE Held(o)'
  BY <1>1 DEF Held
<1>2. \A o \in made' \cup G : Held(o)'
  BY <1>1, WholeFacts
<1>3. ASSUME NEW u \in Busy, user'[u] = user[u] PROVE Written(u)'
  <2>1. Written(u) /\ Object(u) \in Blocks(H) /\ Object(u)' = Object(u)
    BY <1>3 DEF Sized, Blocks, Object
  <2> PICK o : o = Object(u)
    OBVIOUS
  <2>2. /\ user'[u].digit \in 0..(SizeBytes - 1)
        /\ user'[u].pc # "size" => user'[u].digit = 0
    BY <1>3, <2>1 DEF Written, At
  <2>3. user'[u].pc = "size" => \A i \in 0..(user'[u].digit - 1) : DigitHeld(o, i)'
    <3> SUFFICES ASSUME user[u].pc = "size", NEW i \in 0..(user[u].digit - 1) PROVE DigitHeld(o, i)'
      BY <1>3
    <3>1. DigitHeld(o, i)
      BY <2>1 DEF Written, At
    <3>2. i \in 0..(SizeBytes - 1)
      <4>1. user[u].digit \in 0..(SizeBytes - 1) /\ SizeBytes \in Nat
        BY <2>1, SizeFacts DEF Written
      <4> QED BY <4>1
    <3> QED BY <2>1, <3>1, <3>2
  <2>4. user'[u].pc \in {"count", "done"} => Held(o)'
    BY <1>1, <1>3, <2>1 DEF Written, At
  <2>5. Object(u)' = o
    BY <2>1
  <2>6. user'[u].pc = "size" => \A i \in 0..(user'[u].digit - 1) : DigitHeld(Object(u), i)'
    BY <2>3, <2>5 DEF DigitHeld
  <2>7. user'[u].pc \in {"count", "done"} => Held(Object(u))'
    BY <2>4, <2>5 DEF Held, DigitHeld
  <2> QED BY <2>2, <2>6, <2>7 DEF Written, At
<1>4. \A u \in Busy' : Written(u)'
  BY <1>3
<1> QED BY <1>2, <1>4 DEF Sized

LEMMA SameBitmap ==
    ASSUME UNCHANGED bitmap_arr
    PROVE  /\ \A o : \A i \in 0..(SizeBytes - 1) : DigitHeld(o, i)' <=> DigitHeld(o, i)
           /\ \A o : State(o)' = State(o)
           /\ Bitmap => Bitmap'
BY DEF DigitHeld, Digit, Byte, State, getMarkState, Bitmap, bitmap_size

(* The calls.  Their objects are written digit by digit. *)
LEMMA CallKeepsSized ==
    ASSUME Typed, NEW H, Laid(H), Sized(H), NEW t \in Thread,
           TestPhase(t) \/ ReadState(t) \/ MarkHead(t) \/ StoreSize(t) \/ CountAllocated(t)
    PROVE  Sized(H)'
<1>1. Moves(t) /\ UNCHANGED <<made, allocated_offset>>
  BY CallFrame
<1>2. Busy' = Busy /\ (\A u \in Thread : Object(u)' = Object(u)) /\ t \in Busy
  BY <1>1, MovesKeepsObjects DEF Moves
<1>3. \A u \in Busy' : u # t => u \in Busy /\ user'[u] = user[u]
  BY <1>1, <1>2 DEF Moves, Busy
<1>4. Written(t) /\ Bitmap /\ Object(t) \in Blocks(H)
  BY <1>2 DEF Sized, Blocks
<1>5. made' \cup H \subseteq Whole(H)
  BY <1>1 DEF Whole
<1>6. SUFFICES /\ Bitmap' /\ Written(t)'
               /\ \A o \in Blocks(H) : \A i \in 0..(SizeBytes - 1) : DigitHeld(o, i) => DigitHeld(o, i)'
  BY <1>3, <1>5, SizedKept
<1>7. CASE TestPhase(t) \/ ReadState(t)
  <2>1. UNCHANGED bitmap_arr
    BY <1>7 DEF TestPhase, ReadState, regionVars
  <2>2. user[t].pc \in {"test", "state"} /\ user'[t].pc \in {"state", "head"}
        /\ user'[t].digit = user[t].digit
    BY <1>7, TestPhaseEffect, ReadStateEffect
  <2>3. Written(t)'
    BY <1>4, <2>2 DEF Written, At
  <2> QED BY <1>4, <2>1, <2>3, SameBitmap
<1>8. CASE MarkHead(t)
  <2>1. user[t].pc = "head" /\ user'[t].pc = "size" /\ user'[t].digit = user[t].digit
    BY <1>8, MarkHeadEffect
  <2>2. user[t].digit = 0
    BY <1>4, <2>1 DEF Written, At
  <2>3. Written(t)'
    <3>1. user'[t].digit = 0 /\ user'[t].digit \in 0..(SizeBytes - 1)
      BY <1>4, <2>1, <2>2 DEF Written
    <3>2. \A i \in 0..(user'[t].digit - 1) : DigitHeld(Object(t), i)'
      BY <3>1
    <3> QED BY <2>1, <3>1, <3>2 DEF Written, At
  <2>4. bitmap_arr' = WithState(Object(t).at, user[t].state) /\ user[t].state \in States
    BY <1>8 DEF MarkHead, Object, Typed, UserRecord
  <2> QED BY <1>4, <2>3, <2>4, HeadWritten
<1>9. CASE StoreSize(t)
  <2> PICK j : j = user[t].digit
    OBVIOUS
  <2> PICK x : x = Object(t)
    OBVIOUS
  <2>1. j \in 0..(SizeBytes - 1) /\ SizeBytes \in Nat /\ x \in Blocks(H) /\ Object(t)' = x
        /\ user[t].pc = "size"
    BY <1>2, <1>4, <1>9, SizeFacts, StoreSizeEffect DEF Written
  <2>2. bitmap_arr' = [bitmap_arr EXCEPT ![Byte(x.at) + 1 + j] = Digit(x.size, j)]
    BY <1>9 DEF StoreSize, Object
  <2>3. /\ Bitmap' /\ DigitHeld(x, j)'
        /\ \A i \in 0..(SizeBytes - 1) : DigitHeld(x, i) => DigitHeld(x, i)'
        /\ \A y \in Blocks(H) : y # x => \A i \in 0..(SizeBytes - 1) : DigitHeld(y, i)' <=> DigitHeld(y, i)
    BY <1>4, <2>1, <2>2, DigitWritten
  <2>4. \A i \in 0..(j - 1) : DigitHeld(x, i)
    BY <1>4, <2>1 DEF Written, At
  <2>5. \A i \in 0..j : DigitHeld(x, i)'
    <3>1. ASSUME NEW i \in 0..j PROVE DigitHeld(x, i)'
      <4>1. CASE i = j
        BY <2>3, <4>1
      <4>2. CASE i # j
        <5>1. i \in 0..(j - 1) /\ i \in 0..(SizeBytes - 1)
          BY <2>1, <4>2
        <5> QED BY <2>3, <2>4, <5>1
      <4> QED BY <4>1, <4>2
    <3> QED BY <3>1
  <2>6. Written(t)'
    <3>1. CASE j < SizeBytes - 1
      <4>1. user'[t].pc = "size" /\ user'[t].digit = j + 1
        BY <1>9, <3>1, StoreSizeEffect
      <4>2. user'[t].digit \in 0..(SizeBytes - 1) /\ user'[t].digit - 1 = j
        BY <2>1, <3>1, <4>1
      <4>3. \A i \in 0..(user'[t].digit - 1) : DigitHeld(Object(t), i)'
        BY <2>1, <2>5, <4>2 DEF DigitHeld
      <4> QED BY <4>1, <4>2, <4>3 DEF Written, At
    <3>2. CASE ~(j < SizeBytes - 1)
      <4>1. user'[t].pc \in {"count", "done"} /\ user'[t].digit = 0
        BY <1>9, <3>2, StoreSizeEffect
      <4>2. j = SizeBytes - 1 /\ 0 \in 0..(SizeBytes - 1)
        BY <2>1, <3>2
      <4>3. \A i \in 0..(SizeBytes - 1) : DigitHeld(x, i)'
        BY <2>5, <4>2
      <4>4. Held(Object(t))'
        BY <2>1, <4>3 DEF Held, DigitHeld
      <4> QED BY <4>1, <4>2, <4>4 DEF Written, At
    <3> QED BY <3>1, <3>2
  <2> QED BY <2>3, <2>6
<1>10. CASE CountAllocated(t)
  <2>1. UNCHANGED bitmap_arr
    BY <1>10 DEF CountAllocated
  <2>2. user[t].pc = "count" /\ user'[t].pc = "done" /\ user'[t].digit = user[t].digit
    BY <1>10, CountAllocatedEffect
  <2>3. Written(t)'
    <3>1. Held(Object(t)) /\ Object(t)' = Object(t)
      BY <1>2, <1>4, <2>2 DEF Written, At
    <3>2. Held(Object(t))'
      BY <2>1, <3>1 DEF Held, DigitHeld, Digit, Byte
    <3> QED BY <1>4, <2>2, <3>2 DEF Written, At
  <2> QED BY <1>4, <2>1, <2>3, SameBitmap
<1> QED BY <1>7, <1>8, <1>9, <1>10

(* Allocations begin with nothing written; an object is published, and its *)
(* memory left or withdrawn, when it is whole.                             *)
LEMMA AllocateEffect ==
    ASSUME Typed, NEW t \in Thread, allocate(t)
    PROVE  /\ user'[t].pc = "test" /\ user'[t].digit = 0 /\ user'[t].at = allocated_offset
           /\ \A u \in Thread : u # t => user'[u] = user[u]
           /\ t \notin Busy /\ Busy' = Busy \cup {t}
           /\ UNCHANGED <<phase, cms, gcpc, bitmap_arr, mark, limit, iter, made, dead, pending, early,
                          doomed>>
           /\ \E n \in Size : allocated_offset' = allocated_offset + n
<1> PICK n \in Size, kind \in {"make", "relocate"} :
        /\ allocated_offset' = allocated_offset + n
        /\ user' = [user EXCEPT ![t] = [Idle EXCEPT !.pc = "test", !.kind = kind,
                                        !.at = allocated_offset, !.size = n]]
  BY DEF allocate
<1> DEFINE r == [Idle EXCEPT !.pc = "test", !.kind = kind, !.at = allocated_offset, !.size = n]
<1>1. r.pc = "test" /\ r.digit = 0 /\ r.at = allocated_offset
  BY DEF Idle
<1> HIDE DEF r
<1>2. user'[t] = r /\ \A u \in Thread : u # t => user'[u] = user[u]
  BY DEF Typed, r
<1>3. user[t].pc = "idle"
  BY DEF allocate, At
<1>4. t \notin Busy /\ Busy' = Busy \cup {t}
  BY <1>1, <1>2, <1>3 DEF Busy, At
<1>5. UNCHANGED <<phase, cms, gcpc, bitmap_arr, mark, limit, iter, made, dead, pending, early, doomed>>
  BY DEF allocate, phaseVars, sweepVars, heapVars, history
<1> QED BY <1>1, <1>2, <1>4, <1>5

LEMMA AllocateKeepsSized ==
    ASSUME Typed, NEW H, Sized(H), NEW t \in Thread, allocate(t)
    PROVE  Sized(H)'
<1>1. /\ user'[t].pc = "test" /\ user'[t].digit = 0
      /\ \A u \in Thread : u # t => user'[u] = user[u]
      /\ Busy' = Busy \cup {t} /\ UNCHANGED <<bitmap_arr, made>>
  BY AllocateEffect
<1>2. Written(t)'
  <2>1. 0 \in 0..(SizeBytes - 1)
    BY SizeFacts
  <2> QED BY <1>1, <2>1 DEF Written, At
<1>3. \A u \in Busy' : Written(u)' \/ (u \in Busy /\ user'[u] = user[u])
  BY <1>1, <1>2 DEF Busy
<1>4. made' \cup H \subseteq Whole(H)
  BY <1>1 DEF Whole
<1>5. Bitmap' /\ \A o \in Blocks(H) : \A i \in 0..(SizeBytes - 1) : DigitHeld(o, i) => DigitHeld(o, i)'
  BY <1>1, SameBitmap DEF Sized
<1> QED BY <1>3, <1>4, <1>5, SizedKept

LEMMA ReturnKeepsSized ==
    ASSUME Typed, NEW H, Sized(H), NEW t \in Thread, t \in Busy, At(t, "done"), Return(t), NEW G,
           made' \cup G \subseteq made \cup H \cup {Object(t)}, Bitmap',
           \A o \in Blocks(H) : \A i \in 0..(SizeBytes - 1) : DigitHeld(o, i) => DigitHeld(o, i)'
    PROVE  Sized(G)'
<1>1. \A u \in Busy' : u \in Busy /\ user'[u] = user[u]
  BY ReturnEffect
<1>2. made' \cup G \subseteq Whole(H)
  BY DEF Whole
<1> QED BY <1>1, <1>2, SizedKept

LEMMA PublishKeepsSized ==
    ASSUME Typed, NEW H, Sized(H), NEW t \in Thread, Publish(t)
    PROVE  Sized(H)'
<1>1. /\ Return(t) /\ t \in Busy /\ At(t, "done") /\ made' = made \cup {Object(t)}
      /\ UNCHANGED bitmap_arr
  BY PublishFrame
<1>2. Bitmap' /\ \A o \in Blocks(H) : \A i \in 0..(SizeBytes - 1) : DigitHeld(o, i) => DigitHeld(o, i)'
  BY <1>1, SameBitmap DEF Sized
<1> QED BY <1>1, <1>2, ReturnKeepsSized

LEMMA FreeKeepsSized ==
    ASSUME Typed, NEW H, Laid(H), Sized(H), NEW t \in Thread, free(t)
    PROVE  /\ ~Leaves(t) => Sized(H)'
           /\ \A o : Leaves(t) /\ o = Object(t) => Sized(H \cup {o})'
<1>1. /\ Return(t) /\ t \in Busy /\ At(t, "done") /\ made' = made
      /\ ~Leaves(t) => UNCHANGED bitmap_arr
      /\ Leaves(t) => bitmap_arr' = WithState(Object(t).at, NOT_ALLOCATED)
  BY FreeFrame DEF Object
<1>2. Bitmap' /\ \A o \in Blocks(H) : \A i \in 0..(SizeBytes - 1) : DigitHeld(o, i) => DigitHeld(o, i)'
  <2>1. CASE Leaves(t)
    <3>1. Object(t) \in Blocks(H) /\ Bitmap /\ NOT_ALLOCATED \in States
      BY <1>1 DEF Blocks, Sized, States
    <3> QED BY <1>1, <2>1, <3>1, HeadWritten
  <2>2. CASE ~Leaves(t)
    BY <1>1, <2>2, SameBitmap DEF Sized
  <2> QED BY <2>1, <2>2
<1>3. Sized(H)'
  BY <1>1, <1>2, ReturnKeepsSized
<1>4. ASSUME NEW o, o = Object(t) PROVE Sized(H \cup {o})'
  <2> DEFINE G == H \cup {o}
  <2>1. made' \cup G \subseteq made \cup H \cup {Object(t)}
    BY <1>1, <1>4
  <2> HIDE DEF G
  <2>2. Sized(G)'
    BY <1>1, <1>2, <2>1, ReturnKeepsSized
  <2> QED BY <2>2 DEF G
<1> QED BY <1>3, <1>4

(* The GC threads and the sweep write states of blocks; the sizes they     *)
(* write are there already.                                                *)
LEMMA OthersKeepSized ==
    ASSUME NEW H, Laid(H), Sized(H), UNCHANGED <<user, made>>,
           \/ UNCHANGED bitmap_arr
           \/ \E x \in Blocks(H), s \in States : bitmap_arr' = WithState(x.at, s)
    PROVE  Sized(H)'
<1>1. Bitmap' /\ \A o \in Blocks(H) : \A i \in 0..(SizeBytes - 1) : DigitHeld(o, i) => DigitHeld(o, i)'
  BY SameBitmap, HeadWritten DEF Sized
<1>2. \A u \in Busy' : u \in Busy /\ user'[u] = user[u]
  BY UserUnchanged
<1>3. made' \cup H \subseteq Whole(H)
  BY DEF Whole
<1> QED BY <1>1, <1>2, <1>3, SizedKept

LEMMA MarkerEffect ==
    ASSUME Typed, NEW H, Laid(H), Sized(H), MarkTyped, NEW k \in Marker, MarkerStep(k)
    PROVE  /\ MarkTyped'
           /\ \A j \in Marker : j # k => mark'[j] = mark[j]
           /\ \/ UNCHANGED bitmap_arr
              \/ /\ MarkBit(k) /\ mark[k].obj \in made /\ getMarkState(mark[k].obj.at) # cms
                 /\ bitmap_arr' = WithState(mark[k].obj.at, cms)
<1>1. mark \in [Marker -> MarkRecord(made)] /\ mark[k] \in MarkRecord(made)
      /\ made' = made
  BY MarkerFrame DEF MarkTyped
<1>2. NoVisit \in MarkRecord(made) /\ NoVisit.pc = "idle"
  BY DEF NoVisit, MarkRecord
<1>3. ASSUME NEW r \in MarkRecord(made), r.pc # "idle" => r.obj \in made, mark' = [mark EXCEPT ![k] = r]
      PROVE  MarkTyped' /\ \A j \in Marker : j # k => mark'[j] = mark[j]
  BY <1>1, <1>3 DEF MarkTyped, Marking
<1>4. ASSUME Visited(k) PROVE MarkTyped' /\ \A j \in Marker : j # k => mark'[j] = mark[j]
  BY <1>2, <1>3, <1>4 DEF Visited
<1>5. ASSUME UNCHANGED mark PROVE MarkTyped' /\ \A j \in Marker : j # k => mark'[j] = mark[j]
  BY <1>1, <1>5 DEF MarkTyped, Marking
<1>6. ASSUME NEW step \in {"head", "size", "count"}, MarkGoto(k, step), ~Marking(k, "idle")
      PROVE  MarkTyped' /\ \A j \in Marker : j # k => mark'[j] = mark[j]
  <2> DEFINE r == [mark[k] EXCEPT !.pc = step]
  <2>1. r \in MarkRecord(made) /\ r.obj \in made
    BY <1>1, <1>6 DEF MarkRecord, MarkTyped
  <2>2. mark' = [mark EXCEPT ![k] = r]
    BY <1>6 DEF MarkGoto
  <2> HIDE DEF r
  <2> QED BY <1>3, <2>1, <2>2
<1>7. CASE marked(k)
  <2>1. UNCHANGED bitmap_arr
    BY <1>7 DEF marked, regionVars
  <2>2. PICK o \in made \ doomed :
            \/ UNCHANGED mark
            \/ mark' = [mark EXCEPT ![k] = [pc |-> "head", obj |-> o]]
    BY <1>7 DEF marked
  <2>3. [pc |-> "head", obj |-> o] \in MarkRecord(made)
    BY DEF MarkRecord
  <2> QED BY <1>3, <1>5, <2>1, <2>2, <2>3
<1>8. CASE MarkBit(k)
  <2>1. ~Marking(k, "idle") /\ mark[k].obj \in made
    BY <1>8 DEF MarkBit, Marking, MarkTyped
  <2>2. \/ Visited(k) /\ UNCHANGED bitmap_arr
        \/ /\ getMarkState(mark[k].obj.at) # cms
           /\ bitmap_arr' = WithState(mark[k].obj.at, cms) /\ MarkGoto(k, "size")
    BY <1>8 DEF MarkBit
  <2> QED BY <1>4, <1>6, <1>8, <2>1, <2>2
<1>9. CASE MarkSize(k)
  <2> DEFINE o == mark[k].obj
  <2>1. ~Marking(k, "idle") /\ o \in made
    BY <1>9 DEF MarkSize, Marking, MarkTyped
  <2>2. o \in Blocks(H) /\ Held(o) /\ Bitmap
    BY <2>1, WholeFacts DEF Sized
  <2>3. SizeAgrees(o.at, o.size) /\ WithSize(bitmap_arr, o.at, o.size) = bitmap_arr
    <3> HIDE DEF o
    <3> QED BY <2>2, SizeRead
  <2>4. UNCHANGED bitmap_arr /\ MarkGoto(k, "count")
    BY <1>9, <2>3 DEF MarkSize
  <2> QED BY <1>6, <2>1, <2>4
<1>10. CASE CountLive(k)
  BY <1>4, <1>10 DEF CountLive
<1> QED BY <1>7, <1>8, <1>9, <1>10 DEF MarkerStep

-----------------------------------------------------------------------------
(* The sweep.  What it stands on stays, and so does where it comes to next, *)
LEMMA IteratesKept ==
    ASSUME NEW H, Iterates(H), NEW G, UNCHANGED <<gcpc, limit, iter>>,
           gcpc = "iterate" /\ iter.pc = "state" /\ iter.at < limit =>
               \A p : p = iter.at /\ Meets(H, p) => Meets(G, p)',
           gcpc = "iterate" /\ iter.pc # "state" =>
               \A o \in Whole(H) : o.at = iter.at => o \in Whole(G)'
    PROVE  Iterates(G)'
<1> PICK p : p = iter.at
  OBVIOUS
<1>1. limit' \in Nat /\ iter' \in IterRecord
  BY DEF Iterates
<1>2. ASSUME gcpc = "iterate", iter.pc # "state" PROVE iter'.at < limit' /\ Stands(G)'
  <2>1. PICK o \in Whole(H) : /\ o.at = iter.at
                              /\ iter.pc \in {"verify", "clear", "check"} => iter.size = o.size
    BY <1>2 DEF Iterates, Stands
  <2>2. o \in Whole(G)' /\ iter.at < limit
    BY <1>2, <2>1 DEF Iterates
  <2> QED BY <2>1, <2>2 DEF Stands
<1>3. ASSUME gcpc = "iterate", iter.pc = "state", iter.at < limit PROVE Meets(G, iter.at)'
  <2>1. Meets(H, iter.at)
    BY <1>3 DEF Iterates
  <2>2. Meets(G, p)'
    BY <1>3, <2>1
  <2>3. iter'.at = p
    OBVIOUS
  <2> QED BY <2>2, <2>3 DEF Meets
<1> QED BY <1>1, <1>2, <1>3 DEF Iterates

(* for allocations and calls move nothing, and what is withdrawn was last: *)
(* either the sweep has not come to it, or the sweep is torn.              *)
LEMMA AllocateKeepsIterates ==
    ASSUME Typed, NEW H, Laid(H), Iterates(H), NEW t \in Thread, allocate(t)
    PROVE  Iterates(H)'
<1>1. /\ \A u \in Thread : u # t => user'[u] = user[u]
      /\ t \notin Busy /\ Busy' = Busy \cup {t}
      /\ UNCHANGED <<gcpc, limit, iter, made>>
  BY AllocateEffect
<1>2. \A o \in Whole(H) : o \in Whole(H)'
  <2> SUFFICES ASSUME NEW u \in Busy, At(u, "done") PROVE Object(u) \in Whole(H)'
    BY <1>1 DEF Whole
  <2>1. u \in Busy' /\ user'[u] = user[u]
    BY <1>1 DEF Busy
  <2> QED BY <2>1 DEF Whole, Object, At
<1>3. \A p : Meets(H, p) => Meets(H, p)'
  BY AllocateKeepsLaid
<1> QED BY <1>1, <1>2, <1>3, IteratesKept

LEMMA CallKeepsIterates ==
    ASSUME Typed, NEW H, Laid(H), Iterates(H), NEW t \in Thread,
           TestPhase(t) \/ ReadState(t) \/ MarkHead(t) \/ StoreSize(t) \/ CountAllocated(t)
    PROVE  Iterates(H)'
<1>1. /\ Moves(t) /\ user[t].pc # "done"
      /\ UNCHANGED <<gcpc, allocated_offset, limit, iter, made>>
  BY CallFrame
<1>2. Busy' = Busy /\ \A u \in Thread : Object(u)' = Object(u)
  BY <1>1, MovesKeepsObjects
<1>3. \A o \in Whole(H) : o \in Whole(H)'
  <2> SUFFICES ASSUME NEW u \in Busy, At(u, "done") PROVE Object(u) \in Whole(H)'
    BY <1>1 DEF Whole
  <2>1. u # t /\ user'[u] = user[u]
    BY <1>1 DEF At, Moves, Busy
  <2> QED BY <1>2, <2>1 DEF Whole, Object, At
<1>4. \A p : Meets(H, p) => Meets(H, p)'
  BY <1>1, <1>2, QuietStepKeepsLaid DEF Busy
<1> QED BY <1>1, <1>3, <1>4, IteratesKept

LEMMA ReturnKeepsIterates ==
    ASSUME Typed, NEW H, Iterates(H), NEW t \in Thread, t \in Busy, Return(t), NEW G,
           UNCHANGED <<gcpc, limit, iter>>, made \cup H \subseteq made' \cup G,
           gcpc = "iterate" /\ iter.pc = "state" /\ iter.at < limit =>
               \A p : p = iter.at /\ Meets(H, p) => Meets(G, p)',
           gcpc = "iterate" /\ iter.pc # "state" => Object(t) \in made' \cup G \/ user[t].at # iter.at
    PROVE  Iterates(G)'
<1>1. Busy' = Busy \ {t} /\ \A u \in Busy' : Object(u)' = Object(u) /\ user'[u] = user[u]
  BY ReturnEffect
<1>2. ASSUME gcpc = "iterate", iter.pc # "state", NEW o \in Whole(H), o.at = iter.at PROVE o \in Whole(G)'
  <2>1. CASE o \in made \cup H
    BY <2>1 DEF Whole
  <2>2. CASE o \notin made \cup H
    <3>1. PICK u \in Busy : At(u, "done") /\ o = Object(u)
      BY <2>2 DEF Whole
    <3>2. CASE u = t
      <4>1. o.at = user[t].at
        BY <3>1, <3>2 DEF Object
      <4> QED BY <1>2, <3>1, <3>2, <4>1 DEF Whole
    <3>3. CASE u # t
      <4>1. u \in Busy' /\ At(u, "done")' /\ Object(u)' = o
        BY <1>1, <3>1, <3>3 DEF At
      <4> QED BY <4>1 DEF Whole
    <3> QED BY <3>2, <3>3
  <2> QED BY <2>1, <2>2
<1> QED BY <1>2, IteratesKept

LEMMA PublishKeepsIterates ==
    ASSUME Typed, NEW H, Laid(H), Iterates(H), NEW t \in Thread, Publish(t)
    PROVE  Iterates(H)'
<1>1. /\ Return(t) /\ t \in Busy /\ made' = made \cup {Object(t)}
      /\ UNCHANGED <<gcpc, limit, iter, allocated_offset, cms>>
  BY PublishFrame
<1>2. made' \cup H = (made \cup H) \cup {Object(t)}
  BY <1>1
<1>3. Object(t) \notin made \cup H => made' \cap H = {}
  BY <1>1 DEF Laid, Placed
<1>4. \A p : Meets(H, p) => Meets(H, p)'
  BY <1>1, <1>2, <1>3, SettleKeepsLaid
<1> QED BY <1>1, <1>4, ReturnKeepsIterates

LEMMA FreeKeepsIterates ==
    ASSUME Typed, NEW H, Laid(H), Iterates(H), NEW t \in Thread, free(t), ~torn'
    PROVE  /\ ~Leaves(t) => Iterates(H)'
           /\ \A o : Leaves(t) /\ o = Object(t) => Iterates(H \cup {o})'
<1>1. Return(t) /\ t \in Busy /\ UNCHANGED <<gcpc, limit, iter, made, cms>>
  BY FreeFrame
<1>2. ASSUME ~Leaves(t) PROVE Iterates(H)'
  <2>1. /\ user[t].at + user[t].size = allocated_offset /\ allocated_offset' = user[t].at
        /\ ~Passed(t)
    BY <1>2, FreeFrame
  <2>2. /\ user[t].at \in Nat /\ limit \in Nat /\ iter.at \in Nat
        /\ allocated_offset \in Nat /\ user[t].at # allocated_offset
    <3>1. user[t].at \in Nat /\ limit \in Nat /\ iter.at \in Nat
      BY <1>1 DEF Typed, UserRecord, Iterates, IterRecord, Busy
    <3>2. user[t].size \in Nat \ {0} /\ allocated_offset \in Nat
      <4>1. Inside(Object(t), allocated_offset) /\ Object(t).size = user[t].size
        BY <1>1 DEF Laid, Placed, Object
      <4>2. allocated_offset \in Nat
        BY SizeFacts DEF Laid, Placed
      <4> QED BY <4>1, <4>2, SizeFacts DEF Inside
    <3> QED BY <2>1, <3>1, <3>2
  <2>3. ASSUME gcpc = "iterate", iter.pc # "state" PROVE user[t].at # iter.at
    BY <1>2, <2>1, <2>2, <2>3 DEF Passed, Iterates
  <2>4. ASSUME gcpc = "iterate", iter.pc = "state", iter.at < limit, NEW p, p = iter.at, Meets(H, p)
        PROVE  Meets(H, p)'
    <3>1. iter.at <= user[t].at
      BY <2>1, <2>2, <2>4 DEF Passed
    <3>2. p # allocated_offset
      BY <2>1, <2>2, <2>4, <3>1, SizeFacts DEF Typed, UserRecord
    <3> QED BY <1>1, <2>1, <2>4, <3>2, WithdrawKeepsLaid
  <2> QED BY <1>1, <2>3, <2>4, ReturnKeepsIterates
<1>3. ASSUME Leaves(t), NEW o, o = Object(t) PROVE Iterates(H \cup {o})'
  <2> DEFINE G == H \cup {o}
  <2>1. UNCHANGED allocated_offset
    BY <1>3, FreeFrame
  <2>2. made' \cup G = (made \cup H) \cup {Object(t)}
    BY <1>1, <1>3
  <2>3. Object(t) \notin made \cup H => made' \cap G = {}
    BY <1>1, <1>3 DEF Laid, Placed
  <2> HIDE DEF G
  <2>4. \A p : Meets(H, p) => Meets(G, p)'
    BY <1>1, <2>1, <2>2, <2>3, SettleKeepsLaid
  <2>5. Iterates(G)'
    BY <1>1, <2>2, <2>4, ReturnKeepsIterates
  <2> QED BY <2>5 DEF G
<1> QED BY <1>2, <1>3

LEMMA OthersKeepIterates ==
    ASSUME NEW H, Laid(H), Iterates(H), UNCHANGED <<user, made, allocated_offset, gcpc, limit, iter>>
    PROVE  Iterates(H)'
<1>1. Busy' = Busy /\ Whole(H)' = Whole(H)
  BY DEF Busy, At, Whole, Object
<1>2. \A p : Meets(H, p) => Meets(H, p)'
  BY <1>1 DEF Meets
<1> QED BY <1>1, <1>2, IteratesKept

(* An entry that begins where the sweep comes to is whole, unless it is    *)
(* incomplete and the sweep is torn.                                       *)
LEMMA MeetsWhole ==
    ASSUME NEW H, NEW p, Meets(H, p), ~Incomplete(p), allocated_offset \in Nat
    PROVE  \E o \in Whole(H) : o.at = p
<1>1. p # allocated_offset
  BY DEF Incomplete
<1>2. CASE \E o \in made \cup H : o.at = p
  BY <1>2 DEF Whole
<1>3. CASE \E t \in Busy : user[t].at = p
  <2>1. PICK t \in Busy : user[t].at = p
    BY <1>3
  <2>2. At(t, "done")
    BY <2>1 DEF Incomplete
  <2>3. Object(t).at = p /\ Object(t) \in Whole(H)
    BY <2>1, <2>2 DEF Object, Whole
  <2> QED BY <2>3
<1> QED BY <1>1, <1>2, <1>3 DEF Meets

(* The steps of the sweep.  It finds the size of the entry it stands on    *)
(* each time it looks.                                                     *)
LEMMA WholeRead ==
    ASSUME NEW H, Laid(H), Intact(H), NEW o \in Whole(H), o.at = iter.at
    PROVE  /\ o \in Blocks(H) /\ Held(o)
           /\ getObjectSize(iter.at) = o.size /\ o.size \in Nat \ {0}
           /\ SizeAgrees(iter.at, o.size) /\ WithSize(bitmap_arr, iter.at, o.size) = bitmap_arr
           /\ Byte(iter.at) < bitmap_size
<1>2. o \in Blocks(H) /\ Held(o) /\ Bitmap
  BY WholeFacts DEF Intact, Sized
<1>3. /\ getObjectSize(o.at) = o.size /\ o.size \in Nat \ {0}
      /\ SizeAgrees(o.at, o.size) /\ WithSize(bitmap_arr, o.at, o.size) = bitmap_arr
  BY <1>2, SizeRead
<1>4. Byte(o.at) \in 0..(bitmap_size - 1) /\ bitmap_size \in Nat
  BY <1>2, BlocksApart, BitmapSize
<1>5. Byte(iter.at) < bitmap_size
  BY <1>4
<1> QED BY <1>2, <1>3, <1>5

LEMMA Upon ==
    ASSUME NEW H, Laid(H), Intact(H), gcpc = "iterate", iter.pc # "state"
    PROVE  \E o \in Whole(H) :
              /\ o.at = iter.at
              /\ iter.pc \in {"verify", "clear", "check"} => iter.size = o.size
              /\ o \in Blocks(H) /\ Held(o)
              /\ getObjectSize(iter.at) = o.size /\ o.size \in Nat \ {0}
              /\ SizeAgrees(iter.at, o.size) /\ WithSize(bitmap_arr, iter.at, o.size) = bitmap_arr
              /\ Byte(iter.at) < bitmap_size
<1>1. PICK o \in Whole(H) : o.at = iter.at /\ (iter.pc \in {"verify", "clear", "check"} => iter.size = o.size)
  BY DEF Intact, Iterates, Stands
<1> QED BY <1>1, WholeRead

(* Started, and an iterator one field of which is set. *)
LEMMA StartedTyped == Started \in IterRecord /\ Started.pc = "state" /\ Started.at = 0
BY DEF Started, IterRecord, IterPc, States

SweepFrame ==
    UNCHANGED <<phase, cms, allocated_offset, user, mark, limit, made, dead, pending, early, doomed>>
SweepKeepsAt == iter'.at = iter.at /\ iter'.state = iter.state /\ iter' \in IterRecord

LEMMA CurrentStateEffect ==
    ASSUME NEW H, Laid(H), Intact(H), CurrentState, ~torn'
    PROVE  /\ gcpc = "iterate" /\ iter.pc = "state" /\ SweepFrame /\ UNCHANGED bitmap_arr
           /\ \/ iter.at >= limit /\ gcpc' = "swept" /\ iter' = Started
              \/ /\ iter.at < limit /\ gcpc' = gcpc /\ \E o \in Whole(H) : o.at = iter.at
                 /\ iter' \in IterRecord /\ iter'.pc = "size" /\ iter'.at = iter.at
                 /\ iter'.state = getMarkState(iter.at)
<1>1. /\ gcpc = "iterate" /\ iter.pc = "state" /\ SweepFrame /\ UNCHANGED bitmap_arr
  BY DEF CurrentState, Iterating, phaseVars, regionVars, heapVars, history, SweepFrame
<1>2. iter \in IterRecord /\ limit \in Nat /\ iter.at \in Nat
  BY DEF Intact, Iterates, IterRecord
<1>3. CASE iter.at >= limit
  <2>1. gcpc' = "swept" /\ iter' = Started
    BY <1>3 DEF CurrentState, Swept
  <2> QED BY <1>1, <1>3, <2>1
<1>4. CASE ~(iter.at >= limit)
  <2>1. iter.at < limit
    BY <1>2, <1>4
  <2>8. ~Incomplete(iter.at) /\ Meets(H, iter.at)
    BY <1>1, <2>1 DEF CurrentState, Intact, Iterates
  <2>9. allocated_offset \in Nat
    BY SizeFacts DEF Laid, Placed
  <2>10. PICK o \in Whole(H) : o.at = iter.at
    BY <2>8, <2>9, MeetsWhole
  <2>2. o \in Blocks(H) /\ Byte(iter.at) < bitmap_size
    BY <2>10, WholeRead
  <2>3. Byte(iter.at) \in 0..(bitmap_size - 1) /\ Byte(iter.at) \in Nat /\ bitmap_size \in Nat
    BY <2>2, <2>10, BlocksApart, BitmapSize, <1>2, Division
  <2> DEFINE s == getMarkState(iter.at)
             first == [iter EXCEPT !.pc = "size"]
             r == [first EXCEPT !.state = s]
  <2>4. s \in States
    BY <1>2, <2>3, StateIsState DEF Intact, Sized
  <2>5. iter' = r /\ gcpc' = gcpc
    <3>1. ~(iter.at >= limit \/ Byte(iter.at) >= bitmap_size)
      BY <1>4, <2>2, <2>3
    <3> QED BY <3>1 DEF CurrentState
  <2> HIDE DEF s
  <2>6. first \in IterRecord /\ first.pc = "size" /\ first.at = iter.at
    BY <1>2 DEF IterRecord, IterPc
  <2> HIDE DEF first
  <2>7. r \in IterRecord /\ r.pc = "size" /\ r.at = iter.at /\ r.state = s
    BY <2>4, <2>6 DEF IterRecord
  <2> HIDE DEF r
  <2> QED BY <1>1, <2>1, <2>5, <2>7, <2>10 DEF s
<1> QED BY <1>3, <1>4

LEMMA CurrentSizeEffect ==
    ASSUME NEW H, Laid(H), Intact(H), CurrentSize
    PROVE  /\ gcpc = "iterate" /\ iter.pc = "size" /\ SweepFrame /\ UNCHANGED <<gcpc, bitmap_arr>>
           /\ iter.at < limit /\ SweepKeepsAt /\ iter'.pc = "verify"
           /\ \E o \in Whole(H) : o.at = iter.at /\ iter'.size = o.size
<1>1. /\ gcpc = "iterate" /\ iter.pc = "size" /\ SweepFrame /\ UNCHANGED <<gcpc, bitmap_arr>>
  BY DEF CurrentSize, Iterating, phaseVars, regionVars, heapVars, history, SweepFrame
<1>2. iter \in IterRecord /\ iter.at < limit
  BY <1>1 DEF Intact, Iterates
<1>3. PICK o \in Whole(H) : o.at = iter.at /\ getObjectSize(iter.at) = o.size /\ o.size \in Nat
  BY <1>1, <1>2, Upon
<1> DEFINE n == getObjectSize(iter.at)
           first == [iter EXCEPT !.pc = "verify"]
           r == [first EXCEPT !.size = n]
<1>4. iter' = r
  BY DEF CurrentSize
<1>5. n \in Nat
  BY <1>3
<1>6. first \in IterRecord /\ first.pc = "verify" /\ first.at = iter.at /\ first.state = iter.state
  BY <1>2 DEF IterRecord, IterPc
<1> HIDE DEF n, first
<1>7. r \in IterRecord /\ r.pc = "verify" /\ r.at = iter.at /\ r.state = iter.state /\ r.size = n
  BY <1>5, <1>6 DEF IterRecord
<1> HIDE DEF r
<1>8. iter'.size = o.size
  BY <1>3, <1>4, <1>7 DEF n
<1> QED BY <1>1, <1>2, <1>3, <1>4, <1>7, <1>8 DEF SweepKeepsAt

(* The other steps set the pc of the iterator alone. *)
LEMMA IterGoto ==
    ASSUME iter \in IterRecord, NEW step \in IterPc, iter' = [iter EXCEPT !.pc = step]
    PROVE  SweepKeepsAt /\ iter'.pc = step /\ iter'.size = iter.size
BY DEF IterRecord, SweepKeepsAt

LEMMA VerifySizeEffect ==
    ASSUME NEW H, Laid(H), Intact(H), VerifySize
    PROVE  /\ gcpc = "iterate" /\ iter.pc = "verify" /\ SweepFrame /\ UNCHANGED <<gcpc, bitmap_arr>>
           /\ iter.at < limit /\ SweepKeepsAt /\ iter'.size = iter.size
           /\ iter'.pc = IF needSweep(iter.state) THEN "clear" ELSE "next"
<1>1. /\ gcpc = "iterate" /\ iter.pc = "verify" /\ SweepFrame /\ UNCHANGED bitmap_arr
  BY DEF VerifySize, Iterating, phaseVars, regionVars, heapVars, history, SweepFrame
<1>2. iter \in IterRecord /\ iter.at < limit
  BY <1>1 DEF Intact, Iterates
<1>3. PICK o \in Whole(H) : /\ o.at = iter.at /\ iter.size = o.size /\ getObjectSize(iter.at) = o.size
                            /\ o.size \in Nat \ {0}
  BY <1>1, <1>2, Upon
<1>4. ~(getObjectSize(iter.at) # iter.size \/ (iter.size = 0 /\ ~needSweep(iter.state)))
  BY <1>3
<1> DEFINE step == IF needSweep(iter.state) THEN "clear" ELSE "next"
<1>5. iter' = [iter EXCEPT !.pc = step] /\ gcpc' = gcpc
  BY <1>4 DEF VerifySize
<1>6. step \in IterPc
  BY DEF IterPc
<1> HIDE DEF step
<1>7. SweepKeepsAt /\ iter'.pc = step /\ iter'.size = iter.size
  BY <1>2, <1>5, <1>6, IterGoto
<1> QED BY <1>1, <1>2, <1>5, <1>7 DEF step

LEMMA ClearEffect ==
    ASSUME NEW H, Laid(H), Intact(H), Clear
    PROVE  /\ gcpc = "iterate" /\ iter.pc = "clear" /\ SweepFrame /\ UNCHANGED gcpc
           /\ iter.at < limit /\ SweepKeepsAt /\ iter'.size = iter.size
           /\ \/ /\ getMarkState(iter.at) = NOT_ALLOCATED /\ iter'.pc = "next" /\ UNCHANGED bitmap_arr
              \/ iter'.pc = "check" /\ bitmap_arr' = WithState(iter.at, NOT_ALLOCATED)
<1>1. /\ gcpc = "iterate" /\ iter.pc = "clear" /\ SweepFrame /\ UNCHANGED gcpc
  BY DEF Clear, Iterating, phaseVars, heapVars, history, SweepFrame
<1>2. iter \in IterRecord /\ iter.at < limit /\ {"check", "next"} \subseteq IterPc
  BY <1>1 DEF Intact, Iterates, IterPc
<1>3. PICK o \in Whole(H) : o.at = iter.at /\ iter.size = o.size /\ o \in Blocks(H)
  BY <1>1, Upon
<1>4. ~(iter.at + iter.size > PerByte * bitmap_size)
  <2>1. Inside(o, allocated_offset) /\ allocated_offset \in 0..total_size
    BY <1>3, BlocksApart DEF Laid, Placed
  <2>2. total_size <= PerByte * bitmap_size /\ PerByte * bitmap_size \in Nat
    BY WholeBytes
  <2>3. total_size \in Nat
    BY SizeFacts
  <2> QED BY <1>3, <2>1, <2>2, <2>3 DEF Inside
<1>5. CASE getMarkState(iter.at) = NOT_ALLOCATED
  <2>1. iter' = [iter EXCEPT !.pc = "next"] /\ UNCHANGED bitmap_arr
    BY <1>5 DEF Clear
  <2> QED BY <1>1, <1>2, <1>5, <2>1, IterGoto
<1>6. CASE getMarkState(iter.at) # NOT_ALLOCATED
  <2>1. iter' = [iter EXCEPT !.pc = "check"] /\ bitmap_arr' = WithState(iter.at, NOT_ALLOCATED)
    BY <1>4, <1>6 DEF Clear
  <2> QED BY <1>1, <1>2, <2>1, IterGoto
<1> QED BY <1>5, <1>6

LEMMA ClearSizeEffect ==
    ASSUME NEW H, Laid(H), Intact(H), ClearSize
    PROVE  /\ gcpc = "iterate" /\ iter.pc = "check" /\ SweepFrame /\ UNCHANGED <<gcpc, bitmap_arr>>
           /\ iter.at < limit /\ SweepKeepsAt /\ iter'.pc = "next"
<1>1. /\ gcpc = "iterate" /\ iter.pc = "check" /\ SweepFrame
  BY DEF ClearSize, Iterating, heapVars, history, SweepFrame
<1>2. iter \in IterRecord /\ iter.at < limit /\ "next" \in IterPc
  BY <1>1 DEF Intact, Iterates, IterPc
<1>3. PICK o \in Whole(H) : /\ iter.size = o.size /\ SizeAgrees(iter.at, o.size)
                            /\ WithSize(bitmap_arr, iter.at, o.size) = bitmap_arr
  BY <1>1, <1>2, Upon
<1>4. gcpc' = gcpc /\ bitmap_arr' = bitmap_arr /\ iter' = [iter EXCEPT !.pc = "next"]
  BY <1>3 DEF ClearSize
<1> QED BY <1>1, <1>2, <1>4, IterGoto

LEMMA MoveNextEffect ==
    ASSUME NEW H, Laid(H), Intact(H), MoveNext
    PROVE  /\ gcpc = "iterate" /\ iter.pc = "next" /\ SweepFrame /\ UNCHANGED <<gcpc, bitmap_arr>>
           /\ iter.at < limit /\ iter' \in IterRecord /\ iter'.pc = "state"
           /\ \E o \in Whole(H) : /\ o.at = iter.at /\ o \in Blocks(H) /\ o.size \in Nat \ {0}
                                  /\ iter'.at = o.at + o.size
<1>1. /\ gcpc = "iterate" /\ iter.pc = "next" /\ SweepFrame /\ UNCHANGED <<gcpc, bitmap_arr>>
  BY DEF MoveNext, Iterating, phaseVars, regionVars, heapVars, history, SweepFrame
<1>2. iter \in IterRecord /\ iter.at < limit /\ iter.at \in Nat
  BY <1>1 DEF Intact, Iterates, IterRecord
<1>3. PICK o \in Whole(H) : /\ o.at = iter.at /\ o \in Blocks(H) /\ getObjectSize(iter.at) = o.size
                            /\ o.size \in Nat \ {0}
  BY <1>1, <1>2, Upon
<1> DEFINE n == iter.at + getObjectSize(iter.at)
           r == [Started EXCEPT !.at = n]
<1>4. iter' = r
  BY DEF MoveNext
<1>5. n \in Nat /\ n = o.at + o.size
  BY <1>2, <1>3
<1> HIDE DEF n
<1>6. r \in IterRecord /\ r.pc = "state" /\ r.at = n
  BY <1>5, StartedTyped DEF IterRecord
<1> HIDE DEF r
<1> QED BY <1>1, <1>2, <1>3, <1>4, <1>5, <1>6

LEMMA SweepKeepsIterates ==
    ASSUME Typed, NEW H, Laid(H), Intact(H), clearUnmarked, ~torn'
    PROVE  Iterates(H)'
<1>1. /\ UNCHANGED <<user, made, allocated_offset>>
  BY GCThreadFrame DEF GCThread
<1>2. Busy' = Busy /\ Whole(H)' = Whole(H) /\ \A p : Meets(H, p) => Meets(H, p)'
  <2>1. Busy' = Busy /\ Whole(H)' = Whole(H)
    BY <1>1 DEF Busy, At, Whole, Object
  <2> QED BY <1>1, <2>1 DEF Meets
<1>3. limit \in Nat /\ iter \in IterRecord /\ allocated_offset \in Nat
  BY SizeFacts DEF Intact, Iterates, Laid, Placed
<1>4. CASE LoadOffset
  BY <1>1, <1>3, <1>4 DEF LoadOffset, Iterates
<1>5. ASSUME iter' \in IterRecord, limit' = limit, iter'.pc = "state", NEW p, p = iter'.at, Meets(H, p)
      PROVE  Iterates(H)'
  <2>1. Meets(H, p)'
    BY <1>2, <1>5
  <2>2. Meets(H, iter.at)'
    BY <1>5, <2>1 DEF Meets
  <2> QED BY <1>3, <1>5, <2>2 DEF Iterates
<1>6. ASSUME iter' \in IterRecord, limit' = limit, iter'.pc # "state", iter.at < limit, iter'.at = iter.at,
             \E o \in Whole(H) : /\ o.at = iter.at
                                 /\ iter'.pc \in {"verify", "clear", "check"} => iter'.size = o.size
      PROVE  Iterates(H)'
  <2>1. Stands(H)'
    BY <1>2, <1>6 DEF Stands
  <2> QED BY <1>3, <1>6, <2>1 DEF Iterates
<1>7. CASE Yield
  <2>1. iter' = Started /\ limit' = limit
    BY <1>7 DEF Yield
  <2>2. Meets(H, 0)
    BY DEF Laid, Chained
  <2> QED BY <1>5, <2>1, <2>2, StartedTyped
<1>8. CASE CurrentState
  <2>1. /\ SweepFrame
        /\ \/ gcpc' = "swept" /\ iter' = Started
           \/ /\ iter.at < limit /\ \E o \in Whole(H) : o.at = iter.at
              /\ iter' \in IterRecord /\ iter'.pc = "size" /\ iter'.at = iter.at
    BY <1>8, CurrentStateEffect
  <2>2. limit' = limit
    BY <2>1 DEF SweepFrame
  <2>3. CASE gcpc' = "swept" /\ iter' = Started
    BY <1>3, <2>2, <2>3, StartedTyped DEF Iterates
  <2>4. CASE /\ iter.at < limit /\ \E o \in Whole(H) : o.at = iter.at
             /\ iter' \in IterRecord /\ iter'.pc = "size" /\ iter'.at = iter.at
    BY <1>6, <2>2, <2>4
  <2> QED BY <2>1, <2>3, <2>4
<1>9. CASE CurrentSize
  <2>1. /\ SweepFrame /\ iter.at < limit /\ SweepKeepsAt /\ iter'.pc = "verify"
        /\ \E o \in Whole(H) : o.at = iter.at /\ iter'.size = o.size
    BY <1>9, CurrentSizeEffect
  <2> QED BY <1>6, <2>1 DEF SweepFrame, SweepKeepsAt
<1>10. ASSUME gcpc = "iterate", iter.pc # "state", SweepFrame, iter.at < limit, SweepKeepsAt,
              \/ iter'.pc = "next"
              \/ /\ iter.pc \in {"verify", "clear"} /\ iter'.size = iter.size
                 /\ iter'.pc # "state"
      PROVE  Iterates(H)'
  <2>1. PICK o \in Whole(H) : /\ o.at = iter.at
                              /\ iter.pc \in {"verify", "clear", "check"} => iter.size = o.size
    BY <1>10 DEF Intact, Iterates, Stands
  <2>2. iter'.at = iter.at /\ iter' \in IterRecord /\ limit' = limit
    BY <1>10 DEF SweepFrame, SweepKeepsAt
  <2>3. iter'.pc \in {"verify", "clear", "check"} => iter'.size = o.size
    BY <1>10, <2>1
  <2> QED BY <1>6, <1>10, <2>1, <2>2, <2>3
<1>11. CASE VerifySize
  BY <1>10, <1>11, VerifySizeEffect
<1>12. CASE Clear
  BY <1>10, <1>12, ClearEffect
<1>13. CASE ClearSize
  BY <1>10, <1>13, ClearSizeEffect
<1>14. CASE MoveNext
  <2>1. SweepFrame /\ iter' \in IterRecord /\ iter'.pc = "state"
    BY <1>14, MoveNextEffect
  <2>2. PICK o \in Whole(H) : o \in Blocks(H) /\ iter'.at = o.at + o.size
    BY <1>14, MoveNextEffect
  <2> PICK p : p = o.at + o.size
    OBVIOUS
  <2>3. Meets(H, p)
    <3>1. CASE o \in made \cup H
      BY <3>1 DEF Laid, Chained
    <3>2. CASE \E t \in Busy : o = Object(t)
      BY <3>2 DEF Laid, Chained, Object
    <3> QED BY <2>2, <3>1, <3>2 DEF Blocks
  <2>4. limit' = limit
    BY <2>1 DEF SweepFrame
  <2> QED BY <1>5, <2>1, <2>2, <2>3, <2>4
<1> QED BY <1>4, <1>7, <1>8, <1>9, <1>11, <1>12, <1>13, <1>14 DEF clearUnmarked

LEMMA GCThreadKeepsIterates ==
    ASSUME Typed, NEW H, Laid(H), Intact(H), GCThread, ~torn'
    PROVE  Iterates(H)'
<1>1. CASE clearUnmarked
  BY <1>1, SweepKeepsIterates
<1>2. CASE ~clearUnmarked
  <2>1. gcpc' # "iterate" /\ (limit' = limit \/ limit' = 0) /\ iter' = iter
    BY <1>2 DEF GCThread, SwitchPhase, SwitchMarkState, beginMark, selectRelocationSet, ResumeTheWorld,
                endGC, resetLiveSize, sweepVars
  <2> QED BY <2>1 DEF Intact, Iterates
<1> QED BY <1>1, <1>2

(* Of its steps one writes to the bitmap: it clears the state of an entry. *)
LEMMA GCThreadBitmap ==
    ASSUME GCThread, ~Clear, NEW H, Laid(H), Intact(H)
    PROVE  UNCHANGED bitmap_arr
<1>1. CASE ClearSize
  BY <1>1, ClearSizeEffect
<1>2. CASE ~ClearSize
  BY <1>2 DEF GCThread, SwitchPhase, SwitchMarkState, beginMark, selectRelocationSet, ResumeTheWorld,
              endGC, resetLiveSize, clearUnmarked, LoadOffset, Yield, CurrentState, CurrentSize,
              VerifySize, MoveNext, regionVars
<1> QED BY <1>1, <1>2

LEMMA GCThreadKeepsIntact ==
    ASSUME Typed, NEW H, Laid(H), Intact(H), GCThread, ~torn'
    PROVE  Intact(H)'
<1>1. UNCHANGED <<user, made, mark>>
  BY GCThreadFrame
<1>2. \/ UNCHANGED bitmap_arr
      \/ \E x \in Blocks(H), s \in States : bitmap_arr' = WithState(x.at, s)
  <2>1. CASE Clear
    <3>1. /\ gcpc = "iterate" /\ iter.pc = "clear"
          /\ UNCHANGED bitmap_arr \/ bitmap_arr' = WithState(iter.at, NOT_ALLOCATED)
      BY <2>1, ClearEffect
    <3>2. PICK o \in Whole(H) : o.at = iter.at /\ o \in Blocks(H)
      BY <3>1, Upon
    <3> QED BY <3>1, <3>2 DEF States
  <2> QED BY <2>1, GCThreadBitmap
<1>3. Sized(H)'
  BY <1>1, <1>2, OthersKeepSized DEF Intact
<1>4. MarkTyped'
  BY <1>1 DEF Intact, MarkTyped, Marking
<1> QED BY <1>3, <1>4, GCThreadKeepsIterates DEF Intact

LEMMA MarkerKeepsIntact ==
    ASSUME Typed, NEW H, Laid(H), Intact(H), NEW k \in Marker, MarkerStep(k)
    PROVE  Intact(H)'
<1>1. MarkTyped' /\ \/ UNCHANGED bitmap_arr
                    \/ mark[k].obj \in made /\ bitmap_arr' = WithState(mark[k].obj.at, cms)
  BY MarkerEffect DEF Intact
<1>2. UNCHANGED <<user, made, allocated_offset, gcpc, limit, iter>> /\ cms \in States
  BY MarkerFrame DEF Typed
<1>3. Sized(H)'
  BY <1>1, <1>2, OthersKeepSized DEF Intact, Blocks
<1> QED BY <1>1, <1>2, <1>3, OthersKeepIterates DEF Intact

LEMMA MarkTypedKept ==
    ASSUME MarkTyped, UNCHANGED mark, made \subseteq made'
    PROVE  MarkTyped'
BY DEF MarkTyped, Marking, MarkRecord

LEMMA UserKeepsIntact ==
    ASSUME Typed, NEW H, Laid(H), Intact(H), NEW t \in Thread, UserStep(t), ~torn'
    PROVE  /\ ~Leaves(t) => Intact(H)'
           /\ \A o : Leaves(t) /\ o = Object(t) => Intact(H \cup {o})'
<1>1. UNCHANGED mark /\ made \subseteq made'
  BY AllocateEffect, CallFrame, PublishFrame, FreeFrame DEF UserStep
<1>2. MarkTyped'
  BY <1>1, MarkTypedKept DEF Intact
<1>3. CASE allocate(t)
  <2>1. ~Leaves(t)
    BY <1>3 DEF Leaves, allocate, free, At
  <2> QED BY <1>2, <1>3, <2>1, AllocateKeepsSized, AllocateKeepsIterates DEF Intact
<1>4. CASE TestPhase(t) \/ ReadState(t) \/ MarkHead(t) \/ StoreSize(t) \/ CountAllocated(t)
  <2>1. ~Leaves(t)
    BY <1>4, CallFrame DEF Leaves, free, At
  <2> QED BY <1>2, <1>4, <2>1, CallKeepsSized, CallKeepsIterates DEF Intact
<1>5. CASE Publish(t)
  <2>1. Intact(H)'
    BY <1>2, <1>5, PublishKeepsSized, PublishKeepsIterates DEF Intact
  <2>2. ~Leaves(t)
    <3>1. SUFFICES ASSUME free(t) PROVE FALSE
      BY DEF Leaves
    <3>2. made' = made /\ t \in Busy /\ Object(t) \in made'
      BY <1>5, <3>1, FreeFrame, PublishFrame
    <3> QED BY <3>2, BlocksApart
  <2> QED BY <2>1, <2>2
<1>6. CASE free(t)
  BY <1>2, <1>6, FreeKeepsSized, FreeKeepsIterates DEF Intact
<1> QED BY <1>3, <1>4, <1>5, <1>6 DEF UserStep

LEMMA NextIntact ==
    ASSUME Typed, NEW H, Laid(H), Intact(H), [Next]_vars, ~torn'
    PROVE  \/ (\A t \in Thread : ~Leaves(t)) /\ Intact(H)'
           \/ \E t \in Thread : \E o : Leaves(t) /\ o = Object(t) /\ Intact(H \cup {o})'
<1>1. ASSUME NEW t \in Thread, Leaves(t)
      PROVE  \E o : Leaves(t) /\ o = Object(t) /\ Intact(H \cup {o})'
  <2>1. UserStep(t)
    BY <1>1 DEF Leaves, UserStep
  <2> QED BY <1>1, <2>1, UserKeepsIntact
<1>2. CASE \A t \in Thread : ~Leaves(t)
  <2> SUFFICES Intact(H)'
    BY <1>2
  <2>1. ASSUME NEW t \in Thread, UserStep(t) PROVE Intact(H)'
    BY <1>2, <2>1, UserKeepsIntact
  <2>2. ASSUME NEW k \in Marker, MarkerStep(k) PROVE Intact(H)'
    BY <2>2, MarkerKeepsIntact
  <2>3. CASE GCThread
    BY <2>3, GCThreadKeepsIntact
  <2>4. CASE Drop \/ UNCHANGED vars
    <3>1. UNCHANGED <<user, made, allocated_offset, gcpc, limit, iter, mark, bitmap_arr>>
      BY <2>4 DEF Drop, vars, phaseVars, regionVars, sweepVars, heapVars
    <3> QED BY <3>1, OthersKeepSized, OthersKeepIterates, MarkTypedKept DEF Intact
  <2> QED BY <2>1, <2>2, <2>3, <2>4 DEF Next
<1> QED BY <1>1, <1>2

-----------------------------------------------------------------------------
(* The colours.  Between the cycles an object has the last mark state, or  *)
(* the one of an object born while no collection was under way; once the   *)
(* mark state is switched no garbage has it; when the marking is over      *)
(* every object within reach has it, and the sweep clears the rest.  What  *)
(* is said of those within reach holds if startGC's sleep is long enough.  *)
Remarked == {"selected", "sweep", "yield", "iterate", "swept"}
Cycling == {"sleep", "mark"} \cup Remarked
Calm == {"reset", "idle", "switching"}
Phases ==
    /\ gcpc \in Cycling \cup Calm /\ (phase = "NONE" <=> gcpc \in {"reset", "idle"})
    /\ cms \in {REMAPPED, M0, M1}
    /\ dead \subseteq made /\ doomed \subseteq dead /\ early \subseteq Busy
    /\ pending \cap doomed = {} /\ (gcpc # "mark" => pending = {})
    /\ gcpc \in Remarked => early = {}
    /\ gcpc = "mark" /\ SleepCovers => early = {}
Visits ==
    \A k \in Marker :
        /\ ~Marking(k, "idle") => gcpc = "mark" /\ mark[k].obj \in made \ doomed
        /\ Marking(k, "size") \/ Marking(k, "count") => State(mark[k].obj) = cms
(* A call that has read its state: only one caught by the switch may have  *)
(* another than the current.                                               *)
Tinted(t) ==
    /\ user[t].pc \in {"size", "count", "done"} => State(Object(t)) = user[t].state
    /\ user[t].pc \in {"head", "size", "count", "done"} =>
           /\ user[t].state # NOT_ALLOCATED
           /\ gcpc \in Calm => user[t].state \in {REMAPPED, cms}
           /\ gcpc \in Cycling => t \in early \/ user[t].state = cms
Settled(o) == State(o) \in {NOT_ALLOCATED, cms}
Coloured(H) ==
    /\ \A o \in H : State(o) = NOT_ALLOCATED
    /\ SleepCovers => \A o \in made \ dead : State(o) # NOT_ALLOCATED
    /\ gcpc \in Calm => \A o \in made : State(o) \in {NOT_ALLOCATED, REMAPPED, cms}
    /\ gcpc \in Calm => \A o \in doomed : State(o) = NOT_ALLOCATED
    /\ gcpc \in Cycling => \A o \in doomed : State(o) # cms
    /\ gcpc = "mark" /\ SleepCovers => \A o \in made \ (dead \cup pending) : State(o) = cms
    /\ gcpc \in Remarked /\ SleepCovers => \A o \in made \ dead : State(o) = cms
    /\ gcpc = "swept" => \A o \in made : Settled(o)
(* Behind the iterator everything is settled; what it is to clear is made, *)
(* and dead.                                                               *)
Sweeps ==
    /\ gcpc = "yield" => \A o \in made : Settled(o) \/ o.at < limit
    /\ gcpc = "iterate" =>
          /\ \A o \in made : Settled(o) \/ (o.at < limit /\ iter.at <= o.at)
          /\ iter.pc \in {"check", "next"} => \A o \in made : o.at = iter.at => Settled(o)
          /\ iter.pc \in {"size", "verify"} =>
                needSweep(iter.state) \/ \A o \in made : o.at = iter.at => Settled(o)
          /\ iter.pc \in {"size", "verify", "clear"} /\ needSweep(iter.state) =>
                \E o \in made : o.at = iter.at /\ (SleepCovers => o \in dead)
          /\ iter.pc = "clear" => needSweep(iter.state)
Painted(H) == Phases /\ Visits /\ (\A t \in Busy : Tinted(t)) /\ Coloured(H) /\ Sweeps

LEMMA InitPainted == Init => Painted({})
<1> SUFFICES ASSUME Init PROVE Painted({})
  OBVIOUS
<1>1. /\ phase = "NONE" /\ cms = REMAPPED /\ gcpc = "idle" /\ made = {} /\ dead = {} /\ pending = {}
      /\ early = {} /\ doomed = {} /\ mark = [k \in Marker |-> NoVisit]
      /\ user = [t \in Thread |-> Idle]
  BY DEF Init
<1>2. Busy = {}
  BY <1>1, IdleTyped DEF Busy, At
<1>3. Phases
  BY <1>1, <1>2 DEF Phases, Calm, Cycling, Remarked
<1>4. Visits
  BY <1>1 DEF Visits, Marking, NoVisit
<1>5. Coloured({}) /\ Sweeps
  BY <1>1 DEF Coloured, Sweeps, Calm, Cycling, Remarked
<1> QED BY <1>2, <1>3, <1>4, <1>5 DEF Painted

(* What a step must do to each part, if it does not change the phase. *)
LEMMA PhasesKept ==
    ASSUME Phases, UNCHANGED <<phase, cms, gcpc, dead, doomed, pending>>, made \subseteq made',
           early' \subseteq early, early' \subseteq Busy'
    PROVE  Phases'
BY DEF Phases

LEMMA VisitsKept ==
    ASSUME Visits, UNCHANGED <<cms, gcpc, doomed, mark>>, made \subseteq made',
           \A o \in made : State(o)' = State(o)
    PROVE  Visits'
<1> SUFFICES ASSUME NEW k \in Marker
             PROVE  /\ mark'[k].pc # "idle" => gcpc' = "mark" /\ mark'[k].obj \in made' \ doomed'
                    /\ mark'[k].pc \in {"size", "count"} => State(mark[k].obj)' = cms'
  BY DEF Visits, Marking
<1>1. ASSUME mark[k].pc # "idle" PROVE gcpc = "mark" /\ mark[k].obj \in made \ doomed
  BY <1>1 DEF Visits, Marking
<1>2. ASSUME mark[k].pc \in {"size", "count"} PROVE State(mark[k].obj)' = cms
  <2> PICK o : o = mark[k].obj
    OBVIOUS
  <2>1. State(o) = cms /\ o \in made
    BY <1>1, <1>2 DEF Visits, Marking
  <2>2. State(o)' = cms
    BY <2>1
  <2>3. (mark[k].obj)' = o
    OBVIOUS
  <2> QED BY <2>2, <2>3 DEF State
<1> QED BY <1>1, <1>2

LEMMA TintedKept ==
    ASSUME NEW H, UNCHANGED <<cms, gcpc>>, NEW u \in Busy, Tinted(u), user'[u] = user[u],
           u \in early => u \in early',
           \A o \in Blocks(H) : o = Object(u) => State(o)' = State(o)
    PROVE  Tinted(u)'
<1> PICK o : o = Object(u)
  OBVIOUS
<1>1. o \in Blocks(H)
  BY DEF Blocks
<1>2. State(o)' = State(o) /\ Object(u)' = o
  BY <1>1 DEF Object
<1>3. user[u].pc \in {"size", "count", "done"} => State(o)' = user[u].state
  BY <1>2 DEF Tinted
<1>4. (user[u].pc \in {"size", "count", "done"} => State(Object(u)) = user[u].state)'
  BY <1>2, <1>3 DEF State
<1> QED BY <1>4 DEF Tinted

LEMMA ColouredKept ==
    ASSUME NEW H, Phases, Coloured(H), UNCHANGED <<cms, gcpc, made, dead, doomed, pending>>,
           \A o \in made \cup H : State(o)' = State(o)
    PROVE  Coloured(H)'
<1>1. \A o \in made : Settled(o)' <=> Settled(o)
  BY DEF Settled
<1>2. /\ \A o \in H : State(o)' = NOT_ALLOCATED
      /\ SleepCovers => \A o \in made \ dead : State(o)' # NOT_ALLOCATED
      /\ gcpc \in Calm => \A o \in made : State(o)' \in {NOT_ALLOCATED, REMAPPED, cms}
  BY DEF Coloured
<1>3. doomed \subseteq made /\ dead \subseteq made
  BY DEF Phases
<1>4. /\ gcpc \in Calm => \A o \in doomed : State(o)' = NOT_ALLOCATED
      /\ gcpc \in Cycling => \A o \in doomed : State(o)' # cms
  BY <1>3 DEF Coloured
<1>5. /\ gcpc = "mark" /\ SleepCovers => \A o \in made \ (dead \cup pending) : State(o)' = cms
      /\ gcpc \in Remarked /\ SleepCovers => \A o \in made \ dead : State(o)' = cms
      /\ gcpc = "swept" => \A o \in made : Settled(o)'
  BY <1>1 DEF Coloured
<1> QED BY <1>2, <1>4, <1>5 DEF Coloured

LEMMA SweepsKept ==
    ASSUME Sweeps, UNCHANGED <<cms, gcpc, limit, iter, made>>, dead \subseteq dead',
           \A o \in made : Settled(o) => Settled(o)'
    PROVE  Sweeps'
<1>1. needSweep(iter.state)' <=> needSweep(iter.state)
  BY DEF needSweep
<1>2. ASSUME gcpc = "iterate"
      PROVE  /\ \A o \in made : Settled(o)' \/ (o.at < limit /\ iter.at <= o.at)
             /\ iter.pc \in {"check", "next"} => \A o \in made : o.at = iter.at => Settled(o)'
             /\ iter.pc \in {"size", "verify"} =>
                   needSweep(iter.state) \/ \A o \in made : o.at = iter.at => Settled(o)'
             /\ iter.pc \in {"size", "verify", "clear"} /\ needSweep(iter.state) =>
                   \E o \in made : o.at = iter.at /\ (SleepCovers => o \in dead')
             /\ iter.pc = "clear" => needSweep(iter.state)
  BY <1>2 DEF Sweeps
<1>3. gcpc = "yield" => \A o \in made : Settled(o)' \/ o.at < limit
  BY DEF Sweeps
<1> QED BY <1>1, <1>2, <1>3 DEF Sweeps

LEMMA SettledKept ==
    ASSUME NEW o, State(o)' = State(o), cms' = cms
    PROVE  Settled(o)' <=> Settled(o)
BY DEF Settled

(* A user step that makes nothing and drops nothing leaves the colours of  *)
(* all but its own block x alone.                                          *)
LEMMA UserKeepsRest ==
    ASSUME NEW H, Painted(H),
           UNCHANGED <<phase, cms, gcpc, mark, limit, iter, made, dead, pending, doomed>>,
           early' \subseteq early, early' \subseteq Busy',
           \A o \in made \cup H : State(o)' = State(o),
           \A u \in Busy' : Tinted(u)'
    PROVE  Painted(H)'
<1>1. \A o \in made : Settled(o) => Settled(o)'
  BY SettledKept
<1>2. Phases' /\ Visits' /\ Coloured(H)' /\ Sweeps'
  BY <1>1, PhasesKept, VisitsKept, ColouredKept, SweepsKept DEF Painted
<1> QED BY <1>2 DEF Painted

LEMMA AllocateKeepsPainted ==
    ASSUME Typed, NEW H, Painted(H), NEW t \in Thread, allocate(t)
    PROVE  Painted(H)'
<1>1. /\ user'[t].pc = "test"
      /\ \A u \in Thread : u # t => user'[u] = user[u]
      /\ t \notin Busy /\ Busy' = Busy \cup {t}
      /\ UNCHANGED <<phase, cms, gcpc, bitmap_arr, mark, limit, iter, made, dead, pending, early, doomed>>
  BY AllocateEffect
<1>2. \A o : State(o)' = State(o)
  BY <1>1, SameBitmap
<1>3. Tinted(t)'
  BY <1>1 DEF Tinted
<1>4. ASSUME NEW u \in Busy', u # t PROVE Tinted(u)'
  <2>1. u \in Busy /\ user'[u] = user[u] /\ Tinted(u)
    BY <1>1, <1>4 DEF Painted, Busy
  <2> QED BY <1>1, <1>2, <2>1, TintedKept
<1>5. early' \subseteq Busy'
  BY <1>1 DEF Painted, Phases
<1> QED BY <1>1, <1>2, <1>3, <1>4, <1>5, UserKeepsRest

LEMMA CallStates ==
    ASSUME Typed, NEW H, Laid(H), Sized(H), NEW t \in Thread, NEW x, x = Object(t),
           TestPhase(t) \/ ReadState(t) \/ MarkHead(t) \/ StoreSize(t) \/ CountAllocated(t)
    PROVE  /\ \A o \in Blocks(H) : o # x => State(o)' = State(o)
           /\ ~MarkHead(t) => State(x)' = State(x)
           /\ MarkHead(t) => State(x)' = user[t].state
<1>1. t \in Busy
  BY CallFrame DEF Moves
<1>2. x \in Blocks(H) /\ Bitmap /\ user[t].state \in States
  BY <1>1 DEF Blocks, Sized, Typed, UserRecord
<1>3. CASE MarkHead(t)
  <2>1. bitmap_arr' = WithState(x.at, user[t].state)
    BY <1>3 DEF MarkHead, Object
  <2> QED BY <1>2, <1>3, <2>1, HeadWritten
<1>4. CASE StoreSize(t)
  <2> PICK j : j = user[t].digit
    OBVIOUS
  <2>1. j \in 0..(SizeBytes - 1)
    BY <1>1 DEF Sized, Written
  <2>2. bitmap_arr' = [bitmap_arr EXCEPT ![Byte(x.at) + 1 + j] = Digit(x.size, j)]
    BY <1>4 DEF StoreSize, Object
  <2>3. \A o \in Blocks(H) : State(o)' = State(o)
    BY <1>2, <2>1, <2>2, DigitWritten
  <2>4. ~MarkHead(t)
    BY <1>4 DEF MarkHead, StoreSize, At
  <2> QED BY <1>2, <2>3, <2>4
<1>5. CASE TestPhase(t) \/ ReadState(t) \/ CountAllocated(t)
  <2>1. UNCHANGED bitmap_arr /\ ~MarkHead(t)
    BY <1>5 DEF TestPhase, ReadState, CountAllocated, MarkHead, regionVars, At
  <2> QED BY <2>1, SameBitmap
<1> QED BY <1>3, <1>4, <1>5

LEMMA CallKeepsPainted ==
    ASSUME Typed, NEW H, Laid(H), Sized(H), Painted(H), NEW t \in Thread,
           TestPhase(t) \/ ReadState(t) \/ MarkHead(t) \/ StoreSize(t) \/ CountAllocated(t)
    PROVE  Painted(H)'
<1> PICK x : x = Object(t)
  OBVIOUS
<1>1. /\ Moves(t)
      /\ UNCHANGED <<phase, cms, gcpc, allocated_offset, mark, limit, iter, made, dead, pending,
                     early, doomed>>
  BY CallFrame
<1>2. /\ Busy' = Busy /\ (\A u \in Thread : Object(u)' = Object(u)) /\ t \in Busy
      /\ \A u \in Thread : u # t => user'[u] = user[u]
  BY <1>1, MovesKeepsObjects DEF Moves
<1>3. Object(t)' = x
  BY <1>2
<1>4. /\ \A o \in Blocks(H) : o # x => State(o)' = State(o)
      /\ ~MarkHead(t) => State(x)' = State(x)
      /\ MarkHead(t) => State(x)' = user[t].state
  BY CallStates
<1>5. Tinted(t) /\ Phases
  BY <1>2 DEF Painted
<1>6. SUFFICES /\ user'[t].pc \in {"size", "count", "done"} => State(x)' = user'[t].state
               /\ user'[t].pc \in {"head", "size", "count", "done"} =>
                     /\ user'[t].state # NOT_ALLOCATED
                     /\ gcpc \in Calm => user'[t].state \in {REMAPPED, cms}
                     /\ gcpc \in Cycling => t \in early \/ user'[t].state = cms
  <2>1. (user[t].pc \in {"size", "count", "done"} => State(Object(t)) = user[t].state)'
    BY <1>3, <1>6 DEF State
  <2>2. Tinted(t)'
    BY <1>1, <1>6, <2>1 DEF Tinted
  <2>3. ASSUME NEW u \in Busy', u # t PROVE Tinted(u)'
    <3>1. u \in Busy /\ user'[u] = user[u] /\ Tinted(u)
      BY <1>2, <2>3 DEF Painted, Busy
    <3>2. Object(u) # x
      BY <1>2, <2>3, <3>1, BlocksApart
    <3> QED BY <1>1, <1>4, <3>1, <3>2, TintedKept
  <2>4. \A o \in made \cup H : State(o)' = State(o)
    <3>1. x \notin made \cup H
      BY <1>2, BlocksApart
    <3> QED BY <1>4, <3>1 DEF Blocks
  <2>5. early' \subseteq Busy'
    BY <1>1, <1>2, <1>5 DEF Phases
  <2> QED BY <1>1, <2>2, <2>3, <2>4, <2>5, UserKeepsRest
<1>7. cms # NOT_ALLOCATED /\ REMAPPED # NOT_ALLOCATED
  BY <1>5 DEF Phases, NOT_ALLOCATED, REMAPPED, M0, M1
<1>8. CASE TestPhase(t)
  <2>1. CASE duringGC
    <3>1. user'[t].pc = "state"
      BY <1>8, <2>1, TestPhaseEffect
    <3> QED BY <3>1
  <2>2. CASE ~duringGC
    <3>1. user'[t].pc = "head" /\ user'[t].state = REMAPPED
      BY <1>8, <2>2, TestPhaseEffect
    <3>2. gcpc \notin Cycling
      BY <1>5, <2>2 DEF Phases, duringGC, Cycling, Remarked
    <3> QED BY <1>7, <3>1, <3>2
  <2> QED BY <2>1, <2>2
<1>9. CASE ReadState(t)
  <2>1. user'[t].pc = "head" /\ user'[t].state = cms
    BY <1>9, ReadStateEffect
  <2> QED BY <1>7, <2>1
<1>10. CASE MarkHead(t) \/ StoreSize(t) \/ CountAllocated(t)
  <2>1. /\ user'[t].state = user[t].state /\ user[t].pc \in {"head", "size", "count"}
        /\ ~MarkHead(t) => user[t].pc \in {"size", "count"}
    BY <1>10, MarkHeadEffect, StoreSizeEffect, CountAllocatedEffect
  <2>2. State(x)' = user[t].state
    <3>1. CASE MarkHead(t)
      BY <1>4, <3>1
    <3>2. CASE ~MarkHead(t)
      <4>1. State(Object(t)) = user[t].state
        BY <1>5, <2>1, <3>2 DEF Tinted
      <4>2. State(x) = user[t].state
        BY <4>1
      <4> QED BY <1>4, <3>2, <4>2
    <3> QED BY <3>1, <3>2
  <2> QED BY <1>5, <2>1, <2>2 DEF Tinted
<1> QED BY <1>8, <1>9, <1>10

LEMMA ReturnKeepsTinted ==
    ASSUME Typed, NEW H, Laid(H), Painted(H), NEW t \in Thread, t \in Busy, Return(t),
           UNCHANGED <<cms, gcpc>>, \A o \in Blocks(H) : o # Object(t) => State(o)' = State(o)
    PROVE  \A u \in Busy' : Tinted(u)'
<1>1. Busy' = Busy \ {t} /\ \A u \in Busy' : user'[u] = user[u]
  BY ReturnEffect
<1> SUFFICES ASSUME NEW u \in Busy' PROVE Tinted(u)'
  OBVIOUS
<1>2. u \in Busy /\ u # t /\ user'[u] = user[u] /\ Tinted(u)
  BY <1>1 DEF Painted
<1>3. u \in early => u \in early'
  BY <1>2 DEF Return
<1>4. Object(u) # Object(t)
  BY <1>2, BlocksApart
<1> QED BY <1>2, <1>3, <1>4, TintedKept

LEMMA ReturnEarly ==
    ASSUME Typed, Phases, NEW t \in Thread, t \in Busy, Return(t)
    PROVE  early' \subseteq early /\ early' \subseteq Busy'
<1>1. Busy' = Busy \ {t} /\ early' = early \ {t}
  BY ReturnEffect DEF Return
<1> QED BY <1>1 DEF Phases

(* A new object has the current mark state, unless it was begun before the *)
(* switch, and then the marking has still to come.                         *)
LEMMA PublishKeepsPainted ==
    ASSUME Typed, NEW H, Laid(H), Painted(H), NEW t \in Thread, Publish(t)
    PROVE  Painted(H)'
<1> PICK x : x = Object(t)
  OBVIOUS
<1>1. /\ Return(t) /\ t \in Busy /\ user[t].pc = "done" /\ made' = made \cup {x}
      /\ UNCHANGED <<phase, cms, gcpc, mark, limit, iter, allocated_offset, bitmap_arr, dead, pending,
                     doomed>>
  BY PublishFrame DEF At
<1>2. \A o : State(o)' = State(o) /\ (Settled(o)' <=> Settled(o))
  BY <1>1, SameBitmap DEF Settled
<1>3. \A u \in Busy' : Tinted(u)'
  BY <1>1, <1>2, ReturnKeepsTinted
<1>4. early' \subseteq early /\ early' \subseteq Busy' /\ Phases
  BY <1>1, ReturnEarly DEF Painted
<1>5. Phases' /\ Visits'
  BY <1>1, <1>2, <1>4, PhasesKept, VisitsKept DEF Painted
<1>6. /\ State(x) # NOT_ALLOCATED
      /\ gcpc \in Calm => State(x) \in {REMAPPED, cms}
      /\ gcpc \in Remarked \/ (gcpc = "mark" /\ SleepCovers) => State(x) = cms
  <2>1. Tinted(t)
    BY <1>1 DEF Painted
  <2>2. State(x) = user[t].state
    BY <1>1, <2>1 DEF Tinted
  <2>3. gcpc \in Remarked \/ (gcpc = "mark" /\ SleepCovers) => t \notin early /\ gcpc \in Cycling
    BY <1>4 DEF Phases, Cycling
  <2> QED BY <1>1, <2>1, <2>2, <2>3 DEF Tinted
<1>7. Coloured(H)'
  <2>1. /\ \A o \in H : State(o) = NOT_ALLOCATED
        /\ SleepCovers => \A o \in made' \ dead : State(o) # NOT_ALLOCATED
        /\ gcpc \in Calm => \A o \in made' : State(o) \in {NOT_ALLOCATED, REMAPPED, cms}
    BY <1>1, <1>6 DEF Painted, Coloured
  <2>2. /\ gcpc \in Calm => \A o \in doomed : State(o) = NOT_ALLOCATED
        /\ gcpc \in Cycling => \A o \in doomed : State(o) # cms
    BY DEF Painted, Coloured
  <2>3. /\ gcpc = "mark" /\ SleepCovers => \A o \in made' \ (dead \cup pending) : State(o) = cms
        /\ gcpc \in Remarked /\ SleepCovers => \A o \in made' \ dead : State(o) = cms
    BY <1>1, <1>6 DEF Painted, Coloured
  <2>4. gcpc = "swept" => \A o \in made' : Settled(o)
    BY <1>1, <1>6 DEF Painted, Coloured, Remarked, Settled
  <2> QED BY <1>1, <1>2, <2>1, <2>2, <2>3, <2>4 DEF Coloured
<1>8. Sweeps'
  <2>1. gcpc \in {"yield", "iterate"} => Settled(x)
    BY <1>6 DEF Remarked, Settled
  <2>2. gcpc = "yield" => \A o \in made' : Settled(o)' \/ o.at < limit
    BY <1>1, <1>2, <2>1 DEF Painted, Sweeps
  <2>3. ASSUME gcpc = "iterate"
        PROVE  /\ \A o \in made' : Settled(o)' \/ (o.at < limit /\ iter.at <= o.at)
               /\ iter.pc \in {"check", "next"} => \A o \in made' : o.at = iter.at => Settled(o)'
               /\ iter.pc \in {"size", "verify"} =>
                     needSweep(iter.state) \/ \A o \in made' : o.at = iter.at => Settled(o)'
               /\ iter.pc \in {"size", "verify", "clear"} /\ needSweep(iter.state) =>
                     \E o \in made' : o.at = iter.at /\ (SleepCovers => o \in dead)
               /\ iter.pc = "clear" => needSweep(iter.state)
    BY <1>1, <1>2, <2>1, <2>3 DEF Painted, Sweeps
  <2>4. needSweep(iter.state)' <=> needSweep(iter.state)
    BY <1>1 DEF needSweep
  <2> QED BY <1>1, <2>2, <2>3, <2>4 DEF Sweeps
<1> QED BY <1>3, <1>5, <1>7, <1>8 DEF Painted

LEMMA FreeKeepsPainted ==
    ASSUME Typed, NEW H, Laid(H), Sized(H), Painted(H), NEW t \in Thread, free(t)
    PROVE  /\ ~Leaves(t) => Painted(H)'
           /\ \A o : Leaves(t) /\ o = Object(t) => Painted(H \cup {o})'
<1> PICK x : x = Object(t)
  OBVIOUS
<1>1. /\ Return(t) /\ t \in Busy
      /\ UNCHANGED <<phase, cms, gcpc, mark, limit, iter, made, dead, pending, doomed>>
      /\ ~Leaves(t) => UNCHANGED bitmap_arr
      /\ Leaves(t) => bitmap_arr' = WithState(x.at, NOT_ALLOCATED)
  BY FreeFrame DEF Object
<1>2. x \in Blocks(H) /\ Bitmap /\ NOT_ALLOCATED \in States
  BY <1>1 DEF Blocks, Sized, States
<1>3. /\ \A o \in Blocks(H) : o # x => State(o)' = State(o)
      /\ Leaves(t) => State(x)' = NOT_ALLOCATED
  BY <1>1, <1>2, HeadWritten, SameBitmap
<1>4. \A u \in Busy' : Tinted(u)'
  BY <1>1, <1>3, ReturnKeepsTinted
<1>5. early' \subseteq early /\ early' \subseteq Busy'
  BY <1>1, ReturnEarly DEF Painted
<1>6. \A o \in made \cup H : State(o)' = State(o)
  <2>1. x \notin made \cup H
    BY <1>1, BlocksApart
  <2> QED BY <1>3, <2>1 DEF Blocks
<1>7. Painted(H)'
  BY <1>1, <1>4, <1>5, <1>6, UserKeepsRest
<1>8. ASSUME Leaves(t) PROVE Painted(H \cup {x})'
  <2> DEFINE G == H \cup {x}
  <2>1. \A o \in G : State(o)' = NOT_ALLOCATED
    BY <1>3, <1>7, <1>8 DEF Painted, Coloured
  <2> HIDE DEF G
  <2>2. Coloured(G)'
    BY <1>7, <2>1 DEF Painted, Coloured
  <2>3. Painted(G)'
    BY <1>7, <2>2 DEF Painted
  <2> QED BY <2>3 DEF G
<1> QED BY <1>7, <1>8

LEMMA DropKeepsPainted ==
    ASSUME NEW H, Painted(H), Drop
    PROVE  Painted(H)'
<1>1. /\ UNCHANGED <<phase, cms, gcpc, bitmap_arr, user, mark, limit, iter, made, pending, early, doomed>>
      /\ dead \subseteq dead' /\ dead' \subseteq made
  BY DEF Drop, phaseVars, regionVars, sweepVars, history, Painted, Phases
<1>2. Busy' = Busy /\ \A o : State(o)' = State(o) /\ (Settled(o)' <=> Settled(o))
  BY <1>1, SameBitmap DEF Busy, At, Settled
<1>3. Phases'
  BY <1>1, <1>2 DEF Painted, Phases
<1>4. Visits' /\ Sweeps'
  BY <1>1, <1>2, VisitsKept, SweepsKept DEF Painted
<1>5. \A t \in Busy' : Tinted(t)'
  <2> SUFFICES ASSUME NEW t \in Busy PROVE Tinted(t)'
    BY <1>2
  <2>1. Tinted(t)
    BY DEF Painted
  <2> QED BY <1>1, <1>2, <2>1, TintedKept
<1>6. Coloured(H)'
  <2>1. Coloured(H)
    BY DEF Painted
  <2>2. /\ \A o \in H : State(o) = NOT_ALLOCATED
        /\ SleepCovers => \A o \in made \ dead' : State(o) # NOT_ALLOCATED
        /\ gcpc \in Calm => \A o \in made : State(o) \in {NOT_ALLOCATED, REMAPPED, cms}
        /\ gcpc \in Calm => \A o \in doomed : State(o) = NOT_ALLOCATED
        /\ gcpc \in Cycling => \A o \in doomed : State(o) # cms
        /\ gcpc = "mark" /\ SleepCovers => \A o \in made \ (dead' \cup pending) : State(o) = cms
        /\ gcpc \in Remarked /\ SleepCovers => \A o \in made \ dead' : State(o) = cms
        /\ gcpc = "swept" => \A o \in made : Settled(o)
    BY <1>1, <2>1 DEF Coloured
  <2> QED BY <1>1, <1>2, <2>2 DEF Coloured
<1> QED BY <1>3, <1>4, <1>5, <1>6 DEF Painted

(* A visit changes the colour of one object, which no doomed object is, to *)
(* the current; what it takes off the pending has that colour.             *)
LEMMA VisitEffect ==
    ASSUME Typed, NEW H, Laid(H), Intact(H), Painted(H), NEW k \in Marker, MarkerStep(k)
    PROVE  /\ gcpc = "mark"
           /\ \A o \in Blocks(H) : State(o)' = State(o) \/ (State(o)' = cms /\ o \in made \ doomed)
           /\ pending' \subseteq pending /\ \A o \in pending \ pending' : State(o) = cms
           /\ mark'[k].pc # "idle" => mark'[k].obj \in made \ doomed
           /\ mark'[k].pc \in {"size", "count"} =>
                  \A o \in made : o = mark'[k].obj => State(o)' = cms
<1>1. UNCHANGED <<made, cms, doomed>> /\ mark \in [Marker -> MarkRecord(made)]
  BY MarkerFrame DEF Intact, MarkTyped
<1>2. /\ mark[k].pc # "idle" => gcpc = "mark" /\ mark[k].obj \in made \ doomed
      /\ mark[k].pc \in {"size", "count"} => State(mark[k].obj) = cms
  BY DEF Painted, Visits, Marking
<1> PICK x : x = mark[k].obj
  OBVIOUS
<1>3. /\ mark[k].pc # "idle" => gcpc = "mark" /\ x \in made \ doomed
      /\ mark[k].pc \in {"size", "count"} => State(x) = cms
  BY <1>2
<1>4. UNCHANGED bitmap_arr => \A o : State(o)' = State(o)
  BY SameBitmap
<1>5. Visited(k) => mark'[k].pc = "idle" /\ pending' = pending \ {x}
  BY <1>1 DEF Visited, NoVisit
<1>6. \A step : MarkGoto(k, step) => mark'[k].pc = step /\ mark'[k].obj = x
  BY <1>1 DEF MarkGoto, MarkRecord
<1>7. ~MarkBit(k) => UNCHANGED bitmap_arr
  BY MarkerEffect DEF Intact
<1>8. CASE marked(k)
  <2>1. gcpc = "mark" /\ mark[k].pc = "idle" /\ UNCHANGED bitmap_arr
    BY <1>8 DEF marked, Marking, regionVars
  <2>2. PICK o \in made \ doomed :
            \/ State(o) = cms /\ pending' = pending \ {o} /\ UNCHANGED mark
            \/ mark' = [mark EXCEPT ![k] = [pc |-> "head", obj |-> o]] /\ UNCHANGED pending
    BY <1>8 DEF marked, State
  <2>3. CASE State(o) = cms /\ pending' = pending \ {o} /\ UNCHANGED mark
    BY <1>4, <2>1, <2>3
  <2>4. CASE mark' = [mark EXCEPT ![k] = [pc |-> "head", obj |-> o]] /\ UNCHANGED pending
    <3>1. mark'[k].pc = "head" /\ mark'[k].obj = o
      BY <1>1, <2>4
    <3> QED BY <1>4, <2>1, <2>4, <3>1
  <2> QED BY <2>2, <2>3, <2>4
<1>9. CASE MarkBit(k)
  <2>1. mark[k].pc = "head"
    BY <1>9 DEF MarkBit, Marking
  <2>2. \/ State(x) = cms /\ Visited(k) /\ UNCHANGED bitmap_arr
        \/ bitmap_arr' = WithState(x.at, cms) /\ MarkGoto(k, "size") /\ UNCHANGED pending
    BY <1>9 DEF MarkBit, State
  <2>3. CASE State(x) = cms /\ Visited(k) /\ UNCHANGED bitmap_arr
    BY <1>3, <1>4, <1>5, <2>1, <2>3
  <2>4. CASE bitmap_arr' = WithState(x.at, cms) /\ MarkGoto(k, "size") /\ UNCHANGED pending
    <3>1. x \in Blocks(H) /\ Bitmap /\ cms \in States /\ x \in made \ doomed
      BY <1>3, <2>1 DEF Blocks, Intact, Sized, Typed
    <3>2. State(x)' = cms /\ \A o \in Blocks(H) : o # x => State(o)' = State(o)
      BY <2>4, <3>1, HeadWritten
    <3>3. mark'[k].obj = x
      BY <1>6, <2>4
    <3> QED BY <1>3, <2>1, <2>4, <3>1, <3>2, <3>3
  <2> QED BY <2>2, <2>3, <2>4
<1>10. CASE MarkSize(k)
  <2>1. mark[k].pc = "size" /\ UNCHANGED pending /\ mark'[k].obj = x /\ ~MarkBit(k)
    BY <1>6, <1>10 DEF MarkSize, MarkBit, Marking, heapVars
  <2> QED BY <1>3, <1>4, <1>7, <2>1
<1>11. CASE CountLive(k)
  <2>1. mark[k].pc = "count" /\ Visited(k) /\ ~MarkBit(k)
    BY <1>11 DEF CountLive, MarkBit, Marking
  <2> QED BY <1>3, <1>4, <1>5, <1>7, <2>1
<1> QED BY <1>8, <1>9, <1>10, <1>11 DEF MarkerStep

LEMMA MarkerKeepsPainted ==
    ASSUME Typed, NEW H, Laid(H), Intact(H), Painted(H), NEW k \in Marker, MarkerStep(k)
    PROVE  Painted(H)'
<1>1. /\ UNCHANGED <<user, made, dead, allocated_offset, cms, phase, gcpc, limit, iter, early, doomed>>
      /\ Busy' = Busy
  BY MarkerFrame, UserUnchanged
<1>2. /\ gcpc = "mark"
      /\ \A o \in Blocks(H) : State(o)' = State(o) \/ (State(o)' = cms /\ o \in made \ doomed)
      /\ pending' \subseteq pending /\ \A o \in pending \ pending' : State(o) = cms
      /\ mark'[k].pc # "idle" => mark'[k].obj \in made \ doomed
      /\ mark'[k].pc \in {"size", "count"} =>
             \A o \in made : o = mark'[k].obj => State(o)' = cms
  BY VisitEffect
<1>3. /\ \A o \in made \cup H : o \in Blocks(H)
      /\ \A t \in Busy : Object(t) \in Blocks(H) /\ Object(t) \notin made
      /\ H \cap made = {}
  BY BlocksApart DEF Blocks, Laid, Placed
<1>4. Phases /\ Coloured(H) /\ Visits
  BY DEF Painted
<1>5. Phases'
  BY <1>1, <1>2, <1>4 DEF Phases
<1>6. Visits'
  <2> SUFFICES ASSUME NEW j \in Marker
               PROVE  /\ mark'[j].pc # "idle" => gcpc' = "mark" /\ mark'[j].obj \in made' \ doomed'
                      /\ mark'[j].pc \in {"size", "count"} => State(mark[j].obj)' = cms'
    BY DEF Visits, Marking
  <2> PICK x : x = mark'[j].obj
    OBVIOUS
  <2>1. /\ mark'[j].pc # "idle" => x \in made \ doomed
        /\ mark'[j].pc \in {"size", "count"} => State(x)' = cms
    <3>1. CASE j = k
      <4>1. mark'[j].pc \in {"size", "count"} => mark'[j].pc # "idle"
        OBVIOUS
      <4> QED BY <1>2, <3>1, <4>1
    <3>2. CASE j # k
      <4>1. mark'[j] = mark[j]
        BY <3>2, MarkerEffect DEF Intact
      <4>2. x = mark[j].obj
        BY <4>1
      <4>3. /\ mark[j].pc # "idle" => mark[j].obj \in made \ doomed
            /\ mark[j].pc \in {"size", "count"} => State(mark[j].obj) = cms /\ mark[j].pc # "idle"
        BY <1>4 DEF Visits, Marking
      <4>4. /\ mark[j].pc # "idle" => x \in made \ doomed
            /\ mark[j].pc \in {"size", "count"} => State(x) = cms /\ x \in made
        BY <4>2, <4>3
      <4> QED BY <1>2, <1>3, <4>1, <4>4
    <3> QED BY <3>1, <3>2
  <2>2. mark'[j].pc \in {"size", "count"} => State(mark[j].obj)' = cms
    BY <2>1 DEF State
  <2> QED BY <1>1, <1>2, <2>1, <2>2
<1>7. \A t \in Busy' : Tinted(t)'
  <2> SUFFICES ASSUME NEW t \in Busy PROVE Tinted(t)'
    BY <1>1
  <2>1. \A o \in Blocks(H) : o = Object(t) => State(o)' = State(o)
    BY <1>2, <1>3
  <2> QED BY <1>1, <2>1, TintedKept DEF Painted
<1>8. Coloured(H)'
  <2>1. cms # NOT_ALLOCATED
    BY <1>4 DEF Phases, NOT_ALLOCATED, REMAPPED, M0, M1
  <2>2. /\ \A o \in H : State(o)' = NOT_ALLOCATED
        /\ SleepCovers => \A o \in made \ dead : State(o)' # NOT_ALLOCATED
        /\ \A o \in doomed : State(o)' # cms
    BY <1>2, <1>3, <1>4, <2>1 DEF Coloured, Cycling, Phases
  <2>3. SleepCovers => \A o \in made \ (dead \cup pending') : State(o)' = cms
    BY <1>2, <1>3, <1>4 DEF Coloured
  <2> QED BY <1>1, <1>2, <2>2, <2>3 DEF Coloured, Calm, Remarked
<1>9. Sweeps'
  BY <1>1, <1>2 DEF Sweeps
<1> QED BY <1>5, <1>6, <1>7, <1>8, <1>9 DEF Painted

(* The GC thread.  Out of the marking no visit is under way. *)
LEMMA NoVisits ==
    ASSUME \A k \in Marker : Marking(k, "idle"), UNCHANGED mark
    PROVE  Visits'
BY DEF Visits, Marking

LEMMA StillTinted ==
    ASSUME NEW t \in Busy, Tinted(t), UNCHANGED <<user, bitmap_arr>>,
           user[t].pc \in {"head", "size", "count", "done"} =>
               /\ gcpc' \in Calm => user[t].state \in {REMAPPED, cms'}
               /\ gcpc' \in Cycling => t \in early' \/ user[t].state = cms'
    PROVE  Tinted(t)'
<1>1. Object(t)' = Object(t)
  BY DEF Object
<1> PICK o : o = Object(t)
  OBVIOUS
<1>2. State(o)' = State(o)
  BY SameBitmap
<1>3. user[t].pc \in {"size", "count", "done"} => State(o)' = user[t].state
  BY <1>2 DEF Tinted
<1>4. (user[t].pc \in {"size", "count", "done"} => State(Object(t)) = user[t].state)'
  BY <1>1, <1>3 DEF State
<1> QED BY <1>4 DEF Tinted

LEMMA SwitchPhaseKeepsPainted ==
    ASSUME NEW H, Painted(H), SwitchPhase \/ resetLiveSize
    PROVE  Painted(H)'
<1>1. /\ UNCHANGED <<cms, bitmap_arr, user, mark, made, dead, pending, early, doomed>>
      /\ gcpc \in {"reset", "idle"} /\ gcpc' \in {"idle", "switching"}
      /\ phase' = "NONE" <=> gcpc' = "idle"
  BY DEF SwitchPhase, resetLiveSize, regionVars, heapVars, history, Painted, Phases
<1>2. Busy' = Busy /\ (\A o : State(o)' = State(o)) /\ gcpc \in Calm /\ gcpc' \in Calm
      /\ gcpc \notin Cycling /\ gcpc' \notin Cycling
  BY <1>1, UserUnchanged, SameBitmap DEF Calm, Cycling, Remarked
<1>3. Phases'
  BY <1>1, <1>2 DEF Painted, Phases, Cycling, Remarked
<1>4. Visits'
  BY <1>1, NoVisits DEF Painted, Visits
<1>5. \A t \in Busy' : Tinted(t)'
  <2> SUFFICES ASSUME NEW t \in Busy PROVE Tinted(t)'
    BY <1>2
  <2>1. Tinted(t)
    BY DEF Painted
  <2>2. user[t].pc \in {"head", "size", "count", "done"} => user[t].state \in {REMAPPED, cms'}
    BY <1>1, <1>2, <2>1 DEF Tinted
  <2> QED BY <1>1, <1>2, <2>1, <2>2, StillTinted
<1>6. Coloured(H)'
  BY <1>1, <1>2 DEF Painted, Coloured, Cycling, Remarked
<1>7. Sweeps'
  BY <1>1 DEF Sweeps
<1> QED BY <1>3, <1>4, <1>5, <1>6, <1>7 DEF Painted

(* No object has the mark state that is switched to. *)
LEMMA SwitchMarkStateKeepsPainted ==
    ASSUME NEW H, Painted(H), SwitchMarkState
    PROVE  Painted(H)'
<1>1. /\ UNCHANGED <<phase, bitmap_arr, user, mark, made, dead, pending>>
      /\ gcpc = "switching" /\ gcpc' = "sleep" /\ early' = Busy /\ doomed' = dead
      /\ cms' = switchState(cms)
  BY DEF SwitchMarkState, regionVars, heapVars
<1>2. Busy' = Busy /\ (\A o : State(o)' = State(o)) /\ gcpc \in Calm /\ gcpc' \notin Calm
  BY <1>1, UserUnchanged, SameBitmap DEF Calm
<1>3. /\ cms' \in {M0, M1} /\ cms' # cms /\ cms' \notin {NOT_ALLOCATED, REMAPPED}
      /\ pending = {} /\ phase # "NONE" /\ dead \subseteq made
  BY <1>1 DEF Painted, Phases, switchState, NOT_ALLOCATED, REMAPPED, M0, M1
<1>4. Phases'
  BY <1>1, <1>2, <1>3 DEF Phases, Cycling, Remarked
<1>5. Visits'
  BY <1>1, NoVisits DEF Painted, Visits
<1>6. \A t \in Busy' : Tinted(t)'
  BY <1>1, <1>2, StillTinted DEF Painted
<1>7. Coloured(H)'
  BY <1>1, <1>2, <1>3 DEF Painted, Coloured, Remarked
<1>8. Sweeps'
  BY <1>1 DEF Sweeps
<1> QED BY <1>4, <1>5, <1>6, <1>7, <1>8 DEF Painted

LEMMA BeginMarkKeepsPainted ==
    ASSUME NEW H, Painted(H), beginMark
    PROVE  Painted(H)'
<1>1. /\ UNCHANGED <<phase, cms, bitmap_arr, user, mark, made, dead, early, doomed>>
      /\ gcpc = "sleep" /\ gcpc' = "mark" /\ (SleepCovers => early = {}) /\ pending' = made \ dead
  BY DEF beginMark, regionVars, history
<1>2. Busy' = Busy /\ (\A o : State(o)' = State(o)) /\ gcpc \in Cycling /\ gcpc' \in Cycling
      /\ gcpc \notin Calm /\ gcpc' \notin Calm
  BY <1>1, UserUnchanged, SameBitmap DEF Calm, Cycling
<1>3. Phases'
  BY <1>1, <1>2 DEF Painted, Phases, Calm, Remarked
<1>4. Visits'
  BY <1>1, NoVisits DEF Painted, Visits
<1>5. \A t \in Busy' : Tinted(t)'
  <2> SUFFICES ASSUME NEW t \in Busy PROVE Tinted(t)'
    BY <1>2
  <2>1. Tinted(t)
    BY DEF Painted
  <2>2. user[t].pc \in {"head", "size", "count", "done"} => t \in early' \/ user[t].state = cms'
    BY <1>1, <1>2, <2>1 DEF Tinted
  <2> QED BY <1>1, <1>2, <2>1, <2>2, StillTinted
<1>6. Coloured(H)'
  <2>1. /\ \A o \in H : State(o) = NOT_ALLOCATED
        /\ SleepCovers => \A o \in made \ dead : State(o) # NOT_ALLOCATED
        /\ \A o \in doomed : State(o) # cms
    BY <1>2 DEF Painted, Coloured
  <2>2. \A o \in made : o \in dead \cup pending'
    BY <1>1
  <2> QED BY <1>1, <1>2, <2>1, <2>2 DEF Coloured, Remarked
<1>7. Sweeps'
  BY <1>1 DEF Sweeps
<1> QED BY <1>3, <1>4, <1>5, <1>6, <1>7 DEF Painted

(* All the marking had to visit has the current state. *)
LEMMA SelectKeepsPainted ==
    ASSUME NEW H, Painted(H), selectRelocationSet
    PROVE  Painted(H)'
<1>1. /\ UNCHANGED <<cms, bitmap_arr, user, mark, made, dead, pending, early, doomed>>
      /\ gcpc = "mark" /\ gcpc' = "selected" /\ phase' = "SWEEP" /\ pending = {} /\ Busy = {}
      /\ \A k \in Marker : Marking(k, "idle")
  BY DEF selectRelocationSet, regionVars, heapVars, history
<1>2. Busy' = Busy /\ (\A o : State(o)' = State(o)) /\ gcpc \in Cycling /\ gcpc' \in Cycling
      /\ gcpc \notin Calm /\ gcpc' \notin Calm
  BY <1>1, UserUnchanged, SameBitmap DEF Calm, Cycling, Remarked
<1>3. Phases'
  <2>1. early = {}
    BY <1>1 DEF Painted, Phases
  <2> QED BY <1>1, <1>2, <2>1 DEF Painted, Phases, Calm
<1>4. Visits' /\ Sweeps'
  BY <1>1, NoVisits DEF Sweeps
<1>5. Coloured(H)'
  <2>1. /\ \A o \in H : State(o) = NOT_ALLOCATED
        /\ SleepCovers => \A o \in made \ dead : State(o) # NOT_ALLOCATED
        /\ \A o \in doomed : State(o) # cms
    BY <1>2 DEF Painted, Coloured
  <2>2. SleepCovers => \A o \in made \ dead : State(o) = cms
    BY <1>1 DEF Painted, Coloured
  <2> QED BY <1>1, <1>2, <2>1, <2>2 DEF Coloured
<1> QED BY <1>1, <1>2, <1>3, <1>4, <1>5 DEF Painted

(* After the remark a step of the GC thread takes the state of garbage     *)
(* only, and ends when everything is settled.                              *)
LEMMA RemarkedKept ==
    ASSUME NEW H, Laid(H), Painted(H), gcpc \in Remarked, gcpc' \in Remarked,
           UNCHANGED <<phase, cms, user, mark, made, dead, pending, early, doomed>>,
           \A o \in Blocks(H) : \/ State(o)' = State(o)
                                \/ o \in made /\ (SleepCovers => o \in dead) /\ State(o)' = NOT_ALLOCATED,
           gcpc' = "swept" => \A o \in made : Settled(o)'
    PROVE  Phases' /\ Visits' /\ (\A t \in Busy' : Tinted(t)') /\ Coloured(H)'
<1>1. /\ Busy' = Busy /\ gcpc # "mark" /\ gcpc' # "mark" /\ gcpc \in Cycling /\ gcpc' \in Cycling
      /\ gcpc \notin Calm /\ gcpc' \notin Calm /\ dead \subseteq made
  BY UserUnchanged DEF Remarked, Calm, Cycling, Painted, Phases
<1>2. Phases' /\ Visits' /\ cms # NOT_ALLOCATED
  <2>1. Phases' /\ cms # NOT_ALLOCATED
    BY <1>1 DEF Painted, Phases, Calm, NOT_ALLOCATED, REMAPPED, M0, M1
  <2> QED BY <1>1, <2>1, NoVisits DEF Painted, Visits
<1>3. \A t \in Busy' : Tinted(t)'
  <2> SUFFICES ASSUME NEW t \in Busy PROVE Tinted(t)'
    BY <1>1
  <2> PICK o : o = Object(t)
    OBVIOUS
  <2>1. o \in Blocks(H) /\ o \notin made
    BY <1>1, BlocksApart DEF Blocks
  <2>2. State(o)' = State(o) /\ Tinted(t)
    BY <2>1 DEF Painted
  <2>3. user[t].pc \in {"size", "count", "done"} => State(o)' = user[t].state
    BY <2>2 DEF Tinted
  <2>4. (user[t].pc \in {"size", "count", "done"} => State(Object(t)) = user[t].state)'
    <3>1. Object(t)' = o
      BY DEF Object
    <3> QED BY <2>3, <3>1 DEF State
  <2> QED BY <1>1, <2>2, <2>4 DEF Tinted
<1>4. Coloured(H)'
  <2>1. /\ \A o \in H : State(o) = NOT_ALLOCATED
        /\ SleepCovers => \A o \in made \ dead : State(o) = cms
        /\ \A o \in doomed : State(o) # cms /\ o \in made
    BY <1>1 DEF Painted, Coloured, Phases
  <2>2. /\ \A o \in H : State(o)' = NOT_ALLOCATED
        /\ SleepCovers => \A o \in made \ dead : State(o)' = cms
        /\ \A o \in doomed : State(o)' # cms
    BY <1>2, <2>1 DEF Blocks, Laid, Placed
  <2> QED BY <1>1, <1>2, <2>2 DEF Coloured
<1> QED BY <1>2, <1>3, <1>4

(* At the end what is settled and was doomed has lost its state. *)
LEMMA EndGCKeepsPainted ==
    ASSUME NEW H, Painted(H), endGC
    PROVE  Painted(H)'
<1>1. /\ UNCHANGED <<cms, bitmap_arr, user, mark, made, dead, pending, early, doomed>>
      /\ gcpc = "swept" /\ gcpc' = "reset" /\ phase' = "NONE"
  BY DEF endGC, regionVars, heapVars, history
<1>2. Busy' = Busy /\ (\A o : State(o)' = State(o)) /\ gcpc \in Cycling /\ gcpc' \notin Cycling
      /\ gcpc \notin Calm /\ gcpc' \in Calm /\ gcpc \in Remarked
  BY <1>1, UserUnchanged, SameBitmap DEF Calm, Cycling, Remarked
<1>3. Phases' /\ early = {} /\ doomed \subseteq made
  BY <1>1, <1>2 DEF Painted, Phases, Cycling
<1>4. Visits' /\ Sweeps'
  BY <1>1, NoVisits DEF Painted, Visits, Sweeps
<1>5. \A t \in Busy' : Tinted(t)'
  <2> SUFFICES ASSUME NEW t \in Busy PROVE Tinted(t)'
    BY <1>2
  <2>1. Tinted(t)
    BY DEF Painted
  <2>2. user[t].pc \in {"head", "size", "count", "done"} => user[t].state = cms'
    BY <1>1, <1>2, <1>3, <2>1 DEF Tinted
  <2> QED BY <1>1, <1>2, <2>1, <2>2, StillTinted
<1>6. Coloured(H)'
  <2>1. /\ \A o \in H : State(o) = NOT_ALLOCATED
        /\ SleepCovers => \A o \in made \ dead : State(o) # NOT_ALLOCATED
        /\ \A o \in made : State(o) \in {NOT_ALLOCATED, cms}
        /\ \A o \in doomed : State(o) # cms
    BY <1>1, <1>2 DEF Painted, Coloured, Settled
  <2>2. \A o \in doomed : State(o) = NOT_ALLOCATED
    BY <1>3, <2>1
  <2> QED BY <1>1, <1>2, <2>1, <2>2 DEF Coloured, Remarked
<1> QED BY <1>3, <1>4, <1>5, <1>6 DEF Painted

(* The sweep. *)
BareFrame ==
    /\ UNCHANGED <<phase, cms, user, mark, made, dead, pending, early, doomed>>
    /\ gcpc \in Remarked /\ gcpc' \in Remarked

LEMMA SweepStepFrame ==
    ASSUME clearUnmarked \/ ResumeTheWorld
    PROVE  BareFrame
<1>1. UNCHANGED <<user, made, dead, mark>>
  BY GCThreadFrame DEF GCThread
<1>2. UNCHANGED <<phase, cms, pending, early, doomed>>
  BY DEF clearUnmarked, ResumeTheWorld, LoadOffset, Yield, CurrentState, CurrentSize, VerifySize, Clear,
         ClearSize, MoveNext, phaseVars, heapVars, history
<1>3. gcpc \in Remarked /\ gcpc' \in Remarked
  BY DEF clearUnmarked, ResumeTheWorld, LoadOffset, Yield, CurrentState, CurrentSize, VerifySize, Clear,
         ClearSize, MoveNext, Iterating, Swept, phaseVars, Remarked
<1> QED BY <1>1, <1>2, <1>3 DEF BareFrame

LEMMA StillSweeping ==
    ASSUME NEW H, Laid(H), Painted(H), BareFrame, UNCHANGED bitmap_arr, Sweeps',
           gcpc' = "swept" => \A o \in made : Settled(o)
    PROVE  Painted(H)'
<1>1. \A o : State(o)' = State(o) /\ (Settled(o)' <=> Settled(o))
  BY SameBitmap DEF Settled, BareFrame
<1> QED BY <1>1, RemarkedKept DEF BareFrame, Painted

LEMMA SweepBegins ==
    ASSUME NEW H, Laid(H), Intact(H), Painted(H), ResumeTheWorld \/ LoadOffset \/ Yield
    PROVE  Painted(H)'
<1>1. BareFrame /\ UNCHANGED bitmap_arr /\ gcpc' # "swept"
  BY SweepStepFrame DEF clearUnmarked, ResumeTheWorld, LoadOffset, Yield, regionVars
<1>2. \A o : State(o)' = State(o) /\ (Settled(o)' <=> Settled(o))
  BY <1>1, SameBitmap DEF Settled, BareFrame
<1>3. CASE ResumeTheWorld
  <2>1. Sweeps'
    BY <1>3 DEF ResumeTheWorld, Sweeps
  <2> QED BY <1>1, <2>1, StillSweeping
<1>4. CASE LoadOffset
  <2>1. gcpc' = "yield" /\ limit' = allocated_offset
    BY <1>4 DEF LoadOffset
  <2>2. \A o \in made : o.at < allocated_offset
    <3>1. \A o \in made : Inside(o, allocated_offset)
      BY BlocksApart DEF Blocks
    <3>2. allocated_offset \in Nat
      BY SizeFacts DEF Laid, Placed
    <3> QED BY <3>1, <3>2, SizeFacts DEF Inside
  <2>3. made' = made
    BY <1>1 DEF BareFrame
  <2>4. Sweeps'
    BY <2>1, <2>2, <2>3 DEF Sweeps
  <2> QED BY <1>1, <2>4, StillSweeping
<1>5. CASE Yield
  <2>1. gcpc = "yield" /\ gcpc' = "iterate" /\ iter' = Started /\ limit' = limit
    BY <1>5 DEF Yield
  <2>2. \A o \in made : o.at \in Nat /\ 0 <= o.at
    <3>1. \A o \in made : o.at \in Nat
      BY BlocksApart DEF Blocks
    <3> QED BY <3>1
  <2>3. \A o \in made' : Settled(o)' \/ (o.at < limit' /\ iter'.at <= o.at)
    BY <1>1, <1>2, <2>1, <2>2, StartedTyped DEF BareFrame, Painted, Sweeps
  <2>4. Sweeps'
    BY <2>1, <2>3, StartedTyped DEF Sweeps
  <2> QED BY <1>1, <2>4, StillSweeping
<1> QED BY <1>3, <1>4, <1>5

(* What the iterator finds with another state than the current is garbage. *)
LEMMA FoundIsGarbage ==
    ASSUME NEW H, Laid(H), Intact(H), Painted(H), gcpc = "iterate", needSweep(getMarkState(iter.at)),
           NEW o \in Whole(H), o.at = iter.at
    PROVE  \E x \in made : x.at = iter.at /\ (SleepCovers => x \in dead)
<1>2. State(o) \notin {NOT_ALLOCATED, cms}
  BY DEF State, needSweep
<1>3. CASE o \in made
  BY <1>2, <1>3 DEF Painted, Coloured, Remarked
<1>4. CASE o \in H
  BY <1>2, <1>4 DEF Painted, Coloured
<1>5. CASE \E t \in Busy : At(t, "done") /\ o = Object(t)
  <2>1. PICK t \in Busy : At(t, "done") /\ o = Object(t)
    BY <1>5
  <2>2. Tinted(t) /\ early = {} /\ gcpc \in Cycling
    BY DEF Painted, Phases, Remarked, Cycling
  <2>3. State(Object(t)) = user[t].state /\ user[t].state = cms
    BY <2>1, <2>2 DEF Tinted, At
  <2>4. State(o) = cms
    BY <2>1, <2>3
  <2> QED BY <1>2, <2>4
<1> QED BY <1>3, <1>4, <1>5 DEF Whole

LEMMA ReadingKeepsPainted ==
    ASSUME NEW H, Laid(H), Intact(H), Painted(H), ~torn',
           CurrentState \/ CurrentSize \/ VerifySize \/ ClearSize
    PROVE  Painted(H)'
<1>1. BareFrame /\ clearUnmarked
  BY SweepStepFrame DEF clearUnmarked
<1>2. /\ gcpc = "iterate" /\ SweepFrame /\ UNCHANGED bitmap_arr
      /\ iter.at \in Nat /\ limit \in Nat /\ \A o \in made : o.at \in Nat
  <2>1. \A o \in made : o.at \in Nat
    BY BlocksApart DEF Blocks
  <2> QED BY <2>1, CurrentStateEffect, CurrentSizeEffect, VerifySizeEffect, ClearSizeEffect
          DEF Intact, Iterates, IterRecord
<1>3. \A o : State(o)' = State(o) /\ (Settled(o)' <=> Settled(o))
  BY <1>1, <1>2, SameBitmap DEF Settled, BareFrame
<1>4. /\ \A o \in made : Settled(o) \/ (o.at < limit /\ iter.at <= o.at)
      /\ iter.pc \in {"check", "next"} => \A o \in made : o.at = iter.at => Settled(o)
      /\ iter.pc \in {"size", "verify"} =>
            needSweep(iter.state) \/ \A o \in made : o.at = iter.at => Settled(o)
      /\ iter.pc \in {"size", "verify", "clear"} /\ needSweep(iter.state) =>
            \E o \in made : o.at = iter.at /\ (SleepCovers => o \in dead)
      /\ iter.pc = "clear" => needSweep(iter.state)
  BY <1>2 DEF Painted, Sweeps
<1>5. ASSUME gcpc' = gcpc, iter'.at = iter.at,
             iter'.pc \in {"check", "next"} => \A o \in made : o.at = iter.at => Settled(o),
             iter'.pc \in {"size", "verify"} =>
                needSweep(iter'.state) \/ \A o \in made : o.at = iter.at => Settled(o),
             iter'.pc \in {"size", "verify", "clear"} /\ needSweep(iter'.state) =>
                \E o \in made : o.at = iter.at /\ (SleepCovers => o \in dead),
             iter'.pc = "clear" => needSweep(iter'.state)
      PROVE  Painted(H)'
  <2>1. needSweep(iter.state)' <=> needSweep(iter'.state)
    BY <1>1 DEF needSweep, BareFrame
  <2>2. UNCHANGED <<made, dead, limit>>
    BY <1>2 DEF SweepFrame
  <2>3. \A o \in made' : Settled(o)' \/ (o.at < limit' /\ iter'.at <= o.at)
    BY <1>3, <1>4, <1>5, <2>2
  <2>4. Sweeps'
    BY <1>2, <1>3, <1>5, <2>1, <2>2, <2>3 DEF Sweeps
  <2>5. gcpc' # "swept"
    BY <1>2, <1>5
  <2> QED BY <1>1, <1>2, <2>4, <2>5, StillSweeping
<1>6. CASE CurrentState
  <2>1. \/ iter.at >= limit /\ gcpc' = "swept"
        \/ /\ \E o \in Whole(H) : o.at = iter.at
           /\ gcpc' = gcpc /\ iter'.pc = "size" /\ iter'.at = iter.at
           /\ iter'.state = getMarkState(iter.at)
    BY <1>6, CurrentStateEffect
  <2>2. CASE iter.at >= limit /\ gcpc' = "swept"
    <3>1. \A o \in made : Settled(o)
      BY <1>2, <1>4, <2>2
    <3>2. Sweeps'
      BY <2>2 DEF Sweeps
    <3> QED BY <1>1, <1>2, <3>1, <3>2, StillSweeping
  <2>3. CASE /\ \E o \in Whole(H) : o.at = iter.at
             /\ gcpc' = gcpc /\ iter'.pc = "size" /\ iter'.at = iter.at
             /\ iter'.state = getMarkState(iter.at)
    <3>1. needSweep(iter'.state) => \E o \in made : o.at = iter.at /\ (SleepCovers => o \in dead)
      BY <1>2, <2>3, FoundIsGarbage
    <3>2. needSweep(iter'.state) \/ \A o \in made : o.at = iter.at => Settled(o)
      BY <2>3 DEF needSweep, Settled, State
    <3> QED BY <1>5, <2>3, <3>1, <3>2
  <2> QED BY <2>1, <2>2, <2>3
<1>7. CASE CurrentSize
  <2>1. gcpc' = gcpc /\ iter.pc = "size" /\ iter'.pc = "verify" /\ iter'.at = iter.at
        /\ iter'.state = iter.state
    BY <1>7, CurrentSizeEffect DEF SweepKeepsAt
  <2> QED BY <1>4, <1>5, <2>1
<1>8. CASE VerifySize
  <2>1. gcpc' = gcpc /\ iter.pc = "verify" /\ iter'.at = iter.at /\ iter'.state = iter.state
        /\ iter'.pc = IF needSweep(iter.state) THEN "clear" ELSE "next"
    BY <1>8, VerifySizeEffect DEF SweepKeepsAt
  <2> QED BY <1>4, <1>5, <2>1
<1>9. CASE ClearSize
  <2>1. gcpc' = gcpc /\ iter.pc = "check" /\ iter'.pc = "next" /\ iter'.at = iter.at
    BY <1>9, ClearSizeEffect DEF SweepKeepsAt
  <2> QED BY <1>4, <1>5, <2>1
<1> QED BY <1>6, <1>7, <1>8, <1>9

LEMMA ClearKeepsPainted ==
    ASSUME NEW H, Laid(H), Intact(H), Painted(H), Clear
    PROVE  Painted(H)'
<1>1. BareFrame
  BY SweepStepFrame DEF clearUnmarked
<1>2. /\ gcpc = "iterate" /\ gcpc' = gcpc /\ iter.pc = "clear" /\ SweepFrame /\ iter'.at = iter.at
      /\ iter'.pc \in {"check", "next"}
  BY ClearEffect DEF SweepKeepsAt
<1>3. needSweep(iter.state) /\ \A o \in made : Settled(o) \/ (o.at < limit /\ iter.at <= o.at)
  BY <1>2 DEF Painted, Sweeps
<1>4. PICK x \in made : x.at = iter.at /\ (SleepCovers => x \in dead)
  BY <1>2, <1>3 DEF Painted, Sweeps
<1>5. x \in made /\ x \in Blocks(H) /\ Bitmap /\ NOT_ALLOCATED \in States
  BY <1>4 DEF Painted, Phases, Blocks, Intact, Sized, States
<1>6. State(x)' = NOT_ALLOCATED /\ \A o \in Blocks(H) : o # x => State(o)' = State(o)
  <2>1. CASE bitmap_arr' = WithState(iter.at, NOT_ALLOCATED)
    BY <1>4, <1>5, <2>1, HeadWritten
  <2>2. CASE getMarkState(iter.at) = NOT_ALLOCATED /\ UNCHANGED bitmap_arr
    <3>1. State(x) = NOT_ALLOCATED
      BY <1>4, <2>2 DEF State
    <3> QED BY <2>2, <3>1, SameBitmap DEF NOT_ALLOCATED
  <2> QED BY <2>1, <2>2, ClearEffect
<1>7. \A o \in made : /\ Settled(o) => Settled(o)'
                      /\ o.at = iter.at => Settled(o)'
  <2>1. cms' = cms /\ \A o \in made : o \in Blocks(H) /\ (o # x => o.at # x.at)
    BY <1>1, <1>5, BlocksApart DEF BareFrame, Blocks
  <2> QED BY <1>4, <1>6, <2>1 DEF Settled
<1>8. UNCHANGED <<made, dead, limit>>
  BY <1>2 DEF SweepFrame
<1>9. Sweeps'
  BY <1>2, <1>3, <1>7, <1>8 DEF Sweeps
<1>10. \A o \in Blocks(H) : \/ State(o)' = State(o)
                            \/ o \in made /\ (SleepCovers => o \in dead) /\ State(o)' = NOT_ALLOCATED
  BY <1>4, <1>6
<1>11. gcpc' # "swept"
  BY <1>2
<1> QED BY <1>1, <1>9, <1>10, <1>11, RemarkedKept DEF BareFrame, Painted

LEMMA MoveNextKeepsPainted ==
    ASSUME NEW H, Laid(H), Intact(H), Painted(H), MoveNext
    PROVE  Painted(H)'
<1>1. BareFrame
  BY SweepStepFrame DEF clearUnmarked
<1>2. /\ gcpc = "iterate" /\ gcpc' = gcpc /\ iter.pc = "next" /\ iter'.pc = "state" /\ SweepFrame
      /\ UNCHANGED bitmap_arr
  BY MoveNextEffect
<1>3. PICK x \in Whole(H) : /\ x.at = iter.at /\ x \in Blocks(H) /\ x.size \in Nat \ {0}
                            /\ iter'.at = x.at + x.size
  BY MoveNextEffect
<1>4. \A o : State(o)' = State(o) /\ (Settled(o)' <=> Settled(o))
  BY <1>1, <1>2, SameBitmap DEF Settled, BareFrame
<1>5. UNCHANGED <<made, limit>>
  BY <1>2 DEF SweepFrame
<1>6. ASSUME NEW o \in made, ~Settled(o) PROVE o.at < limit /\ iter'.at <= o.at
  <2>1. o.at < limit /\ iter.at <= o.at /\ o.at # iter.at
    BY <1>2, <1>6 DEF Painted, Sweeps
  <2>2. o \in Blocks(H) /\ o # x
    BY <1>3, <2>1 DEF Blocks
  <2>3. Disjoint(o, x) /\ o.at \in Nat /\ o.size \in Nat /\ x.at \in Nat
    BY <1>3, <2>2, BlocksApart, SizeFacts
  <2> QED BY <1>3, <2>1, <2>3 DEF Disjoint
<1>7. Sweeps'
  BY <1>2, <1>4, <1>5, <1>6 DEF Sweeps
<1> QED BY <1>1, <1>2, <1>7, StillSweeping

LEMMA GCThreadKeepsPainted ==
    ASSUME NEW H, Laid(H), Intact(H), Painted(H), GCThread, ~torn'
    PROVE  Painted(H)'
<1>1. CASE clearUnmarked
  BY <1>1, SweepBegins, ReadingKeepsPainted, ClearKeepsPainted, MoveNextKeepsPainted DEF clearUnmarked
<1>2. CASE ~clearUnmarked
  BY <1>2, SwitchPhaseKeepsPainted, SwitchMarkStateKeepsPainted, BeginMarkKeepsPainted, SelectKeepsPainted,
     SweepBegins, EndGCKeepsPainted DEF GCThread
<1> QED BY <1>1, <1>2

LEMMA UserKeepsPainted ==
    ASSUME Typed, NEW H, Laid(H), Intact(H), Painted(H), NEW t \in Thread, UserStep(t)
    PROVE  /\ ~Leaves(t) => Painted(H)'
           /\ \A o : Leaves(t) /\ o = Object(t) => Painted(H \cup {o})'
<1>1. Sized(H)
  BY DEF Intact
<1>2. CASE free(t)
  BY <1>1, <1>2, FreeKeepsPainted
<1>3. CASE ~free(t)
  <2>1. ~Leaves(t)
    BY <1>3 DEF Leaves
  <2>2. Painted(H)'
    BY <1>1, <1>3, AllocateKeepsPainted, CallKeepsPainted, PublishKeepsPainted DEF UserStep
  <2> QED BY <2>1, <2>2
<1> QED BY <1>2, <1>3

LEMMA StutterKeepsPainted ==
    ASSUME NEW H, Painted(H), UNCHANGED vars
    PROVE  Painted(H)'
<1>1. UNCHANGED <<phase, cms, gcpc, mark, limit, iter, made, dead, pending, doomed, early, user, bitmap_arr>>
  BY DEF vars, phaseVars, regionVars, sweepVars, heapVars, history
<1>2. Busy' = Busy /\ \A o : State(o)' = State(o)
  BY <1>1, UserUnchanged, SameBitmap
<1>3. \A u \in Busy' : Tinted(u)'
  <2> SUFFICES ASSUME NEW u \in Busy PROVE Tinted(u)'
    BY <1>2
  <2> QED BY <1>1, <1>2, TintedKept DEF Painted
<1>4. early' \subseteq Busy'
  BY <1>1, <1>2 DEF Painted, Phases
<1> QED BY <1>1, <1>2, <1>3, <1>4, UserKeepsRest

LEMMA NextPainted ==
    ASSUME Typed, NEW H, Laid(H), Intact(H), Painted(H), [Next]_vars, ~torn'
    PROVE  /\ (\A t \in Thread : ~Leaves(t)) => Painted(H)'
           /\ \A t \in Thread : \A o : Leaves(t) /\ o = Object(t) => Painted(H \cup {o})'
<1>1. ASSUME NEW t \in Thread, NEW o, Leaves(t), o = Object(t) PROVE Painted(H \cup {o})'
  <2>1. UserStep(t)
    BY <1>1 DEF Leaves, UserStep
  <2> QED BY <1>1, <2>1, UserKeepsPainted
<1>2. ASSUME \A t \in Thread : ~Leaves(t) PROVE Painted(H)'
  <2>1. ASSUME NEW t \in Thread, UserStep(t) PROVE Painted(H)'
    BY <1>2, <2>1, UserKeepsPainted
  <2>2. ASSUME NEW k \in Marker, MarkerStep(k) PROVE Painted(H)'
    BY <2>2, MarkerKeepsPainted
  <2>3. CASE GCThread
    BY <2>3, GCThreadKeepsPainted
  <2>4. CASE Drop \/ UNCHANGED vars
    BY <2>4, DropKeepsPainted, StutterKeepsPainted
  <2> QED BY <2>1, <2>2, <2>3, <2>4 DEF Next
<1> QED BY <1>1, <1>2

-----------------------------------------------------------------------------
(* The invariants, each the one before it and more: the layout, which      *)
(* holds in any case; the sizes, and the colours, until the sweep is torn. *)
LaidOut == Typed /\ \E H : Laid(H)
Readable == Typed /\ \E H : Laid(H) /\ (~torn => Intact(H))
Sound == Typed /\ \E H : Laid(H) /\ (~torn => Intact(H) /\ Painted(H))

LEMMA TornStays == ASSUME [Next]_vars, ~torn' PROVE ~torn
<1>1. ASSUME NEW t \in Thread, UserStep(t) PROVE ~torn
  BY <1>1 DEF UserStep, allocate, TestPhase, ReadState, MarkHead, StoreSize, CountAllocated, Publish, free,
              history
<1>2. ASSUME NEW k \in Marker, MarkerStep(k) PROVE ~torn
  BY <1>2 DEF MarkerStep, marked, MarkBit, MarkSize, CountLive, history
<1>3. CASE GCThread
  BY <1>3 DEF GCThread, SwitchPhase, SwitchMarkState, beginMark, selectRelocationSet, ResumeTheWorld, endGC,
              resetLiveSize, clearUnmarked, LoadOffset, Yield, CurrentState, CurrentSize, VerifySize,
              Clear, ClearSize, MoveNext, history
<1>4. CASE Drop \/ UNCHANGED vars
  BY <1>4 DEF Drop, vars, history
<1> QED BY <1>1, <1>2, <1>3, <1>4 DEF Next

LEMMA NextLaidOut == LaidOut /\ [Next]_vars => LaidOut'
<1> SUFFICES ASSUME LaidOut, [Next]_vars PROVE LaidOut'
  OBVIOUS
<1> PICK H : Laid(H)
  BY DEF LaidOut
<1>1. Typed' /\ (Laid(H)' \/ \E o : Laid(H \cup {o})')
  BY NextLaid DEF LaidOut
<1>2. \E G : Laid(G)'
  BY <1>1
<1> QED BY <1>1, <1>2 DEF LaidOut

LEMMA NextReadable == Readable /\ [Next]_vars => Readable'
<1> SUFFICES ASSUME Readable, [Next]_vars PROVE Readable'
  OBVIOUS
<1>1. Typed
  BY DEF Readable
<1> PICK H : Laid(H) /\ (~torn => Intact(H))
  BY DEF Readable
<1>2. Typed' /\ \E G : Laid(G)'
  BY <1>1, NextLaidOut DEF LaidOut
<1>3. CASE torn'
  BY <1>2, <1>3 DEF Readable
<1>4. CASE ~torn'
  <2>1. Intact(H)
    BY <1>4, TornStays
  <2>2. CASE \A t \in Thread : ~Leaves(t)
    <3>1. Laid(H)' /\ Intact(H)'
      BY <1>1, <1>4, <2>1, <2>2, NextLaid, NextIntact
    <3> QED BY <1>2, <3>1 DEF Readable
  <2>3. ASSUME NEW t \in Thread, Leaves(t) PROVE Readable'
    <3> PICK o : o = Object(t)
      OBVIOUS
    <3>1. UserStep(t) /\ free(t)
      BY <2>3 DEF Leaves, UserStep
    <3>2. Laid(H \cup {o})' /\ Intact(H \cup {o})'
      BY <1>1, <1>4, <2>1, <2>3, <3>1, FreeKeepsLaid, UserKeepsIntact
    <3>3. \E G : Laid(G)' /\ Intact(G)'
      BY <3>2
    <3> QED BY <1>2, <3>3 DEF Readable
  <2> QED BY <2>2, <2>3
<1> QED BY <1>3, <1>4

LEMMA NextSound == Sound /\ [Next]_vars => Sound'
<1> SUFFICES ASSUME Sound, [Next]_vars PROVE Sound'
  OBVIOUS
<1>1. Typed
  BY DEF Sound
<1> PICK H : Laid(H) /\ (~torn => Intact(H) /\ Painted(H))
  BY DEF Sound
<1>2. Typed' /\ \E G : Laid(G)'
  BY <1>1, NextLaidOut DEF LaidOut
<1>3. CASE torn'
  BY <1>2, <1>3 DEF Sound
<1>4. CASE ~torn'
  <2>1. Intact(H) /\ Painted(H)
    BY <1>4, TornStays
  <2>2. CASE \A t \in Thread : ~Leaves(t)
    <3>1. Laid(H)' /\ Intact(H)' /\ Painted(H)'
      BY <1>1, <1>4, <2>1, <2>2, NextLaid, NextIntact, NextPainted
    <3> QED BY <1>2, <3>1 DEF Sound
  <2>3. ASSUME NEW t \in Thread, Leaves(t) PROVE Sound'
    <3> PICK o : o = Object(t)
      OBVIOUS
    <3>1. UserStep(t) /\ free(t)
      BY <2>3 DEF Leaves, UserStep
    <3>2. Laid(H \cup {o})' /\ Intact(H \cup {o})' /\ Painted(H \cup {o})'
      BY <1>1, <1>4, <2>1, <2>3, <3>1, FreeKeepsLaid, UserKeepsIntact, UserKeepsPainted
    <3>3. \E G : Laid(G)' /\ Intact(G)' /\ Painted(G)'
      BY <3>2
    <3> QED BY <1>2, <3>3 DEF Sound
  <2> QED BY <2>2, <2>3
<1> QED BY <1>3, <1>4

(* No two entries of a region share a byte of the bitmap, and none lies    *)
(* beyond it, whatever is allocated, published and withdrawn at once       *)
(* (GCRegion.cpp:39-72, 74-113).                                          *)
THEOREM RegionEntriesApart == Spec => []EntriesApart
<1>1. Init => LaidOut
  BY InitLaid DEF LaidOut
<1>2. LaidOut => EntriesApart
  BY LaidApart DEF LaidOut
<1> QED BY <1>1, <1>2, NextLaidOut, PTL DEF Spec

(* The entry of an object holds its size from the moment the object is in  *)
(* use, however markers, calls and sweep write to the bytes around it      *)
(* (GCBitMap.cpp:64-101, 141-151), until the sweep has read, or stood on,  *)
(* an entry that was not there (GCRegion.cpp:165).                         *)
THEOREM RegionSizesIntact == Spec => []SizesIntact
<1>1. Init => Readable
  BY InitLaid, InitIntact DEF Readable
<1>2. Readable /\ [Next]_vars => Readable'
  BY NextReadable
<1>3. Readable => SizesIntact
  <2> SUFFICES ASSUME Readable, ~torn, NEW o \in made PROVE getObjectSize(o.at) = o.size
    BY DEF SizesIntact
  <2> PICK H : Laid(H) /\ Intact(H)
    BY DEF Readable
  <2>1. o \in Blocks(H) /\ Held(o) /\ Bitmap
    BY WholeFacts DEF Intact, Sized
  <2> QED BY <2>1, SizeRead
<1> QED BY <1>1, <1>2, <1>3, PTL DEF Spec

LEMMA SoundThroughout == Spec => []Sound
<1>1. Init => Sound
  BY InitLaid, InitIntact, InitPainted DEF Sound
<1>2. Sound /\ [Next]_vars => Sound'
  BY NextSound
<1> QED BY <1>1, <1>2, PTL DEF Spec

(* The sweep takes the mark of no object the program can reach             *)
(* (GCRegion.cpp:141-189), whatever is allocated and withdrawn during it,  *)
(* below the offset it has read too, unless it reads or stands on an entry *)
(* that is not there; if the sleep that begins a cycle outlasts the        *)
(* allocations that had read the old mark state.                           *)
THEOREM RegionOnlyGarbageSwept == ASSUME SleepCovers PROVE Spec => []OnlyGarbageSwept
<1>1. Spec => []Sound
  BY SoundThroughout
<1>2. Sound => OnlyGarbageSwept
  BY DEF Sound, Painted, Coloured, OnlyGarbageSwept, State
<1> QED BY <1>1, <1>2, PTL

(* And at the end of the cycle it has come to all that was out of reach    *)
(* when the mark state was switched, whatever that sleep is.               *)
THEOREM RegionGarbageSwept == Spec => []GarbageSwept
<1>1. Spec => []Sound
  BY SoundThroughout
<1>2. Sound => GarbageSwept
  BY DEF Sound, Painted, Coloured, GarbageSwept, State, Calm
<1> QED BY <1>1, <1>2, PTL

-----------------------------------------------------------------------------
(* Sums.  The library adds up a set by choosing its elements one by one.   *)
(* Some function on the subsets is additive, whatever is chosen, and there *)
(* is only one that obeys the choices: so the sum of a set is that of all  *)
(* but one element and this one.                                           *)
Some(s) == CHOOSE x \in s : TRUE
Chosen(g, w, S) == [s \in SUBSET S |-> IF s = {} THEN 0 ELSE w[Some(s)] + g[s \ {Some(s)}]]
IsSum(w, S, n) == \E g : g = Chosen(g, w, S) /\ n = g[S]
Additive(g, w, S) ==
    /\ g \in [SUBSET S -> Nat] /\ g[{}] = 0
    /\ \A s \in SUBSET S : \A x \in S \ s : g[s \cup {x}] = g[s] + w[x]

LEMMA SmallestSubset ==
    ASSUME NEW S, IsFiniteSet(S), NEW F \in SUBSET (SUBSET S), F # {}
    PROVE  \E T \in F : \A x \in T : T \ {x} \notin F
<1> DEFINE Cards == {Cardinality(T) : T \in F}
<1>1. \A T \in F : IsFiniteSet(T) /\ Cardinality(T) \in Nat
  BY FS_Subset, FS_CardinalityType
<1>2. PICK n \in Cards : \A m \in Cards : n <= m
  <2>1. Cards \in SUBSET Nat /\ Cards # {}
    BY <1>1
  <2> HIDE DEF Cards
  <2> QED BY <2>1, Least
<1>3. PICK T \in F : n = Cardinality(T)
  BY <1>2
<1>4. ASSUME NEW x \in T, T \ {x} \in F PROVE FALSE
  <2>1. Cardinality(T \ {x}) = Cardinality(T) - 1
    BY <1>1, FS_RemoveElement
  <2>2. n <= Cardinality(T \ {x})
    BY <1>2, <1>4
  <2> QED BY <1>1, <1>3, <2>1, <2>2
<1> QED BY <1>4

LEMMA AdditiveStep ==
    ASSUME NEW T, NEW x \in T, NEW w \in [T -> Nat], NEW g, Additive(g, w, T \ {x})
    PROVE  \E h : Additive(h, w, T)
<1> DEFINE h == [s \in SUBSET T |-> IF x \in s THEN g[s \ {x}] + w[x] ELSE g[s]]
<1>1. /\ g \in [SUBSET (T \ {x}) -> Nat] /\ g[{}] = 0
      /\ \A s \in SUBSET (T \ {x}) : \A y \in (T \ {x}) \ s : g[s \cup {y}] = g[s] + w[y]
  BY DEF Additive
<1>2. w[x] \in Nat
  OBVIOUS
<1>3. \A s \in SUBSET T : /\ x \in s => s \ {x} \in SUBSET (T \ {x}) /\ h[s] = g[s \ {x}] + w[x]
                          /\ x \notin s => s \in SUBSET (T \ {x}) /\ h[s] = g[s]
  OBVIOUS
<1>4. h \in [SUBSET T -> Nat]
  <2>1. ASSUME NEW s \in SUBSET T PROVE h[s] \in Nat
    <3> HIDE DEF h
    <3>1. CASE x \in s
      <4>1. g[s \ {x}] \in Nat /\ h[s] = g[s \ {x}] + w[x]
        BY <1>1, <1>3, <3>1
      <4> QED BY <1>2, <4>1
    <3>2. CASE x \notin s
      BY <1>1, <1>3, <3>2
    <3> QED BY <3>1, <3>2
  <2> QED BY <2>1
<1> HIDE DEF h
<1>5. h[{}] = 0
  BY <1>1, <1>3
<1>6. ASSUME NEW s \in SUBSET T, NEW y \in T \ s PROVE h[s \cup {y}] = h[s] + w[y]
  <2>1. s \cup {y} \in SUBSET T
    OBVIOUS
  <2>2. CASE y = x
    <3>1. (s \cup {y}) \ {x} = s
      BY <2>2
    <3>2. h[s \cup {y}] = g[s] + w[x]
      BY <1>3, <2>1, <2>2, <3>1
    <3> QED BY <1>3, <2>2, <3>2
  <2>3. CASE y # x /\ x \in s
    <3>1. (s \cup {y}) \ {x} = (s \ {x}) \cup {y} /\ s \ {x} \in SUBSET (T \ {x}) /\ y \in (T \ {x}) \ (s \ {x})
      BY <2>3
    <3>2. h[s \cup {y}] = g[(s \ {x}) \cup {y}] + w[x]
      BY <1>3, <2>1, <2>3, <3>1
    <3>3. g[(s \ {x}) \cup {y}] = g[s \ {x}] + w[y]
      BY <1>1, <3>1
    <3>4. h[s] = g[s \ {x}] + w[x] /\ g[s \ {x}] \in Nat /\ w[y] \in Nat
      BY <1>1, <1>3, <2>3, <3>1
    <3> QED BY <1>2, <3>2, <3>3, <3>4
  <2>4. CASE y # x /\ x \notin s
    <3>1. s \in SUBSET (T \ {x}) /\ y \in (T \ {x}) \ s /\ x \notin s \cup {y}
      BY <2>4
    <3> QED BY <1>1, <1>3, <2>1, <2>4, <3>1
  <2> QED BY <2>2, <2>3, <2>4
<1>7. Additive(h, w, T)
  BY <1>4, <1>5, <1>6 DEF Additive
<1> QED BY <1>7

LEMMA AdditiveExists ==
    ASSUME NEW S, IsFiniteSet(S), NEW w \in [S -> Nat]
    PROVE  \E g : Additive(g, w, S)
<1> DEFINE v(T) == [x \in T |-> w[x]]
           F == {T \in SUBSET S : ~\E g : Additive(g, v(T), T)}
<1>1. ASSUME F # {} PROVE FALSE
  <2>1. PICK T \in F : \A x \in T : T \ {x} \notin F
    <3>1. F \in SUBSET (SUBSET S)
      OBVIOUS
    <3> HIDE DEF F
    <3> QED BY <1>1, <3>1, SmallestSubset
  <2>2. T \in SUBSET S /\ v(T) \in [T -> Nat]
    OBVIOUS
  <2>3. CASE T = {}
    <3> DEFINE h == [s \in SUBSET T |-> 0]
    <3>1. Additive(h, v(T), T)
      BY <2>3 DEF Additive
    <3> QED BY <3>1
  <2>4. CASE T # {}
    <3>1. PICK x \in T : TRUE
      BY <2>4
    <3>2. PICK g : Additive(g, v(T \ {x}), T \ {x})
      BY <2>1, <2>2
    <3>3. \A y \in T \ {x} : v(T \ {x})[y] = v(T)[y]
      OBVIOUS
    <3>4. Additive(g, v(T), T \ {x})
      BY <3>2, <3>3 DEF Additive
    <3>5. \E h : Additive(h, v(T), T)
      <4> HIDE DEF v
      <4> QED BY <2>2, <3>4, AdditiveStep
    <3> QED BY <3>5
  <2> QED BY <2>3, <2>4
<1>2. v(S) = w
  OBVIOUS
<1> QED BY <1>1, <1>2

LEMMA SomeOf == ASSUME NEW s, s # {} PROVE Some(s) \in s
BY DEF Some

(* An additive function obeys the choices. *)
LEMMA AdditiveChosen ==
    ASSUME NEW S, NEW w \in [S -> Nat], NEW g, Additive(g, w, S)
    PROVE  g = Chosen(g, w, S)
<1>1. ASSUME NEW s \in SUBSET S, s # {} PROVE g[s] = w[Some(s)] + g[s \ {Some(s)}]
  <2> PICK x : x = Some(s)
    OBVIOUS
  <2>1. x \in s
    BY <1>1, SomeOf
  <2>2. s \ {x} \in SUBSET S /\ x \in S \ (s \ {x}) /\ (s \ {x}) \cup {x} = s
    BY <2>1
  <2>3. g[s] = g[s \ {x}] + w[x] /\ g[s \ {x}] \in Nat /\ w[x] \in Nat
    BY <2>2 DEF Additive
  <2> QED BY <2>3
<1>2. g = [s \in SUBSET S |-> g[s]] /\ g[{}] = 0
  BY DEF Additive
<1> QED BY <1>1, <1>2 DEF Chosen

(* Two functions that do agree. *)
LEMMA ChosenAgree ==
    ASSUME NEW S, IsFiniteSet(S), NEW R, NEW T, S \subseteq R, S \subseteq T,
           NEW w, NEW v, \A x \in S : w[x] = v[x],
           NEW g, NEW h, g = Chosen(g, w, R), h = Chosen(h, v, T)
    PROVE  g[S] = h[S]
<1> DEFINE F == {s \in SUBSET S : g[s] # h[s]}
<1>1. /\ \A s \in SUBSET S : g[s] = IF s = {} THEN 0 ELSE w[Some(s)] + g[s \ {Some(s)}]
      /\ \A s \in SUBSET S : h[s] = IF s = {} THEN 0 ELSE v[Some(s)] + h[s \ {Some(s)}]
  <2>1. \A s \in SUBSET S : s \in SUBSET R /\ s \in SUBSET T
    OBVIOUS
  <2>2. \A s \in SUBSET S : g[s] = Chosen(g, w, R)[s] /\ h[s] = Chosen(h, v, T)[s]
    OBVIOUS
  <2>3. \A s \in SUBSET S : Chosen(g, w, R)[s] = IF s = {} THEN 0 ELSE w[Some(s)] + g[s \ {Some(s)}]
    BY <2>1 DEF Chosen
  <2>4. \A s \in SUBSET S : Chosen(h, v, T)[s] = IF s = {} THEN 0 ELSE v[Some(s)] + h[s \ {Some(s)}]
    BY <2>1 DEF Chosen
  <2> QED BY <2>2, <2>3, <2>4
<1>2. ASSUME F # {} PROVE FALSE
  <2>1. PICK s \in F : \A x \in s : s \ {x} \notin F
    <3>1. F \in SUBSET (SUBSET S)
      OBVIOUS
    <3> HIDE DEF F
    <3> QED BY <1>2, <3>1, SmallestSubset
  <2>2. s # {} /\ s \in SUBSET S /\ g[s] # h[s]
    BY <1>1, <2>1
  <2> PICK x : x = Some(s)
    OBVIOUS
  <2>3. x \in s /\ g[s] = w[x] + g[s \ {x}] /\ h[s] = v[x] + h[s \ {x}]
    BY <1>1, <2>2, SomeOf
  <2>4. g[s \ {x}] = h[s \ {x}] /\ w[x] = v[x]
    BY <2>1, <2>2, <2>3
  <2> QED BY <2>2, <2>3, <2>4
<1> QED BY <1>2

LEMMA SumEmpty == ASSUME NEW w, NEW n, IsSum(w, {}, n) PROVE n = 0
BY DEF IsSum, Chosen

LEMMA SumOne ==
    ASSUME NEW S, IsFiniteSet(S), NEW x, x \notin S, NEW T, T = S \cup {x},
           NEW w, w \in [S -> Nat], NEW v, v \in [T -> Nat], \A y \in S : w[y] = v[y],
           NEW n, IsSum(w, S, n), NEW m, IsSum(v, T, m)
    PROVE  n \in Nat /\ m = n + v[x]
<1>1. PICK g : g = Chosen(g, w, S) /\ n = g[S]
  BY DEF IsSum
<1>2. PICK h : h = Chosen(h, v, T) /\ m = h[T]
  BY DEF IsSum
<1>3. IsFiniteSet(T)
  BY FS_AddElement
<1>4. PICK a : Additive(a, v, T)
  BY <1>3, AdditiveExists
<1>5. a = Chosen(a, v, T)
  BY <1>4, AdditiveChosen
<1>6. S \subseteq T
  OBVIOUS
<1>7. h[T] = a[T]
  BY <1>2, <1>3, <1>5, ChosenAgree
<1>8. g[S] = a[S]
  BY <1>1, <1>5, <1>6, ChosenAgree
<1>9. a[T] = a[S] + v[x] /\ a[S] \in Nat
  BY <1>4 DEF Additive
<1> QED BY <1>1, <1>2, <1>7, <1>8, <1>9

LEMMA SumExists ==
    ASSUME NEW S, IsFiniteSet(S), NEW w \in [S -> Nat]
    PROVE  \E g : g = Chosen(g, w, S)
BY AdditiveExists, AdditiveChosen

(* The two sums of the model, of a set of objects and of a set of calls. *)
SizeOf(S) == [o \in S |-> o.size]
LEMMA SizesIsSum ==
    ASSUME NEW S, IsFiniteSet(S), \A o \in S : o.size \in Nat
    PROVE  IsSum(SizeOf(S), S, Sizes(S))
<1> DEFINE Fold(g) == [s \in SUBSET S |-> IF s = {} THEN 0 ELSE Some(s).size + g[s \ {Some(s)}]]
           G == CHOOSE g : g = Fold(g)
<1>1. Sizes(S) = G[S]
  BY DEF Sizes, MapThenSumSet, MapThenFoldSet, Some
<1>2. ASSUME NEW g PROVE Fold(g) = Chosen(g, SizeOf(S), S)
  <2>1. \A s \in SUBSET S : s # {} => SizeOf(S)[Some(s)] = Some(s).size
    BY SomeOf DEF SizeOf
  <2> QED BY <2>1 DEF Chosen
<1> HIDE DEF Fold
<1>3. SizeOf(S) \in [S -> Nat]
  BY DEF SizeOf
<1>4. \E g : g = Fold(g)
  BY <1>2, <1>3, SumExists
<1>5. G = Fold(G)
  BY <1>4
<1> HIDE DEF G
<1>6. G = Chosen(G, SizeOf(S), S)
  BY <1>2, <1>5
<1> QED BY <1>1, <1>6 DEF IsSum

SizeOfCall(T) == [t \in T |-> user[t].size]
LEMMA InFlightIsSum ==
    ASSUME NEW T, IsFiniteSet(T), \A t \in T : user[t].size \in Nat
    PROVE  IsSum(SizeOfCall(T), T, InFlight(T))
<1> DEFINE Fold(g) == [s \in SUBSET T |-> IF s = {} THEN 0 ELSE user[Some(s)].size + g[s \ {Some(s)}]]
           G == CHOOSE g : g = Fold(g)
<1>1. InFlight(T) = G[T]
  BY DEF InFlight, MapThenSumSet, MapThenFoldSet, Some
<1>2. ASSUME NEW g PROVE Fold(g) = Chosen(g, SizeOfCall(T), T)
  <2>1. \A s \in SUBSET T : s # {} => SizeOfCall(T)[Some(s)] = user[Some(s)].size
    BY SomeOf DEF SizeOfCall
  <2> QED BY <2>1 DEF Chosen
<1> HIDE DEF Fold
<1>3. SizeOfCall(T) \in [T -> Nat]
  BY DEF SizeOfCall
<1>4. \E g : g = Fold(g)
  BY <1>2, <1>3, SumExists
<1>5. G = Fold(G)
  BY <1>4
<1> HIDE DEF G
<1>6. G = Chosen(G, SizeOfCall(T), T)
  BY <1>2, <1>5
<1> QED BY <1>1, <1>6 DEF IsSum

Summable(S) == IsFiniteSet(S) /\ \A o \in S : o.size \in Nat
LEMMA SizesEmpty == Sizes({}) = 0
<1>1. IsSum(SizeOf({}), {}, Sizes({}))
  BY SizesIsSum, FS_EmptySet
<1> QED BY <1>1, SumEmpty

LEMMA SizesMore ==
    ASSUME NEW S, Summable(S), NEW x, x \notin S, x.size \in Nat
    PROVE  /\ Summable(S \cup {x})
           /\ Sizes(S) \in Nat /\ Sizes(S \cup {x}) = Sizes(S) + x.size
<1> PICK T : T = S \cup {x}
  OBVIOUS
<1>1. Summable(T)
  BY FS_AddElement DEF Summable
<1>2. IsSum(SizeOf(S), S, Sizes(S)) /\ IsSum(SizeOf(T), T, Sizes(T))
  BY <1>1, SizesIsSum DEF Summable
<1>3. /\ SizeOf(S) \in [S -> Nat] /\ SizeOf(T) \in [T -> Nat]
      /\ \A y \in S : SizeOf(S)[y] = SizeOf(T)[y]
      /\ SizeOf(T)[x] = x.size
  BY <1>1 DEF SizeOf, Summable
<1>4. Sizes(S) \in Nat /\ Sizes(T) = Sizes(S) + SizeOf(T)[x]
  <2> PICK w : w = SizeOf(S)
    OBVIOUS
  <2> PICK v : v = SizeOf(T)
    OBVIOUS
  <2> PICK n : n = Sizes(S)
    OBVIOUS
  <2> PICK m : m = Sizes(T)
    OBVIOUS
  <2>1. /\ w \in [S -> Nat] /\ v \in [T -> Nat] /\ \A y \in S : w[y] = v[y]
        /\ IsFiniteSet(S) /\ x \notin S
    BY <1>3 DEF Summable
  <2>2. IsSum(w, S, n) /\ IsSum(v, T, m)
    BY <1>2
  <2>3. n \in Nat /\ m = n + v[x]
    BY <2>1, <2>2, SumOne
  <2> QED BY <2>3
<1> QED BY <1>1, <1>3, <1>4

LEMMA SizesNat == ASSUME NEW S, Summable(S) PROVE Sizes(S) \in Nat
<1>1. CASE S = {}
  BY <1>1, SizesEmpty
<1>2. CASE S # {}
  <2>1. PICK x \in S : TRUE
    BY <1>2
  <2> PICK R : R = S \ {x}
    OBVIOUS
  <2>2. Summable(R) /\ x \notin R /\ x.size \in Nat
    BY <2>1, FS_RemoveElement DEF Summable
  <2>3. Sizes(R) \in Nat /\ Sizes(R \cup {x}) = Sizes(R) + x.size
    BY <2>2, SizesMore
  <2>4. S = R \cup {x}
    BY <2>1
  <2>5. Sizes(R \cup {x}) \in Nat
    BY <2>2, <2>3
  <2> QED BY <2>4, <2>5
<1> QED BY <1>1, <1>2

LEMMA SizesLess ==
    ASSUME NEW S, Summable(S), NEW x \in S
    PROVE  /\ Summable(S \ {x})
           /\ Sizes(S \ {x}) \in Nat /\ Sizes(S) = Sizes(S \ {x}) + x.size
<1> PICK R : R = S \ {x}
  OBVIOUS
<1>1. Summable(R) /\ x \notin R /\ x.size \in Nat /\ S = R \cup {x}
  BY FS_RemoveElement DEF Summable
<1>2. Sizes(R) \in Nat /\ Sizes(R \cup {x}) = Sizes(R) + x.size
  BY <1>1, SizesMore
<1> QED BY <1>1, <1>2

Counted(s) == IsFiniteSet(s) /\ \A t \in s : user[t].size \in Nat
LEMMA InFlightMore ==
    ASSUME NEW r, Counted(r), NEW t, t \notin r, NEW s, s = r \cup {t}, Counted(s)
    PROVE  InFlight(s) = InFlight(r) + user[t].size
<1> PICK w : w = SizeOfCall(r)
  OBVIOUS
<1> PICK v : v = SizeOfCall(s)
  OBVIOUS
<1> PICK n : n = InFlight(r)
  OBVIOUS
<1> PICK m : m = InFlight(s)
  OBVIOUS
<1>1. /\ w \in [r -> Nat] /\ v \in [s -> Nat] /\ \A y \in r : w[y] = v[y]
      /\ IsFiniteSet(r) /\ t \notin r
  BY DEF SizeOfCall, Counted
<1>2. IsSum(w, r, n) /\ IsSum(v, s, m)
  BY InFlightIsSum DEF Counted
<1>3. n \in Nat /\ m = n + v[t]
  BY <1>1, <1>2, SumOne
<1>4. v[t] = user[t].size
  BY DEF SizeOfCall
<1> QED BY <1>3, <1>4

(* What is in flight is the size of the objects in flight. *)
LEMMA InFlightIsSizes ==
    ASSUME NEW T \in SUBSET Thread, IsFiniteSet(T), \A t \in T : user[t].size \in Nat,
           \A t, u \in T : t # u => Object(t) # Object(u)
    PROVE  /\ Summable({Object(t) : t \in T})
           /\ InFlight(T) = Sizes({Object(t) : t \in T})
<1> DEFINE Objects(s) == {Object(t) : t \in s}
           Agrees(s) == Summable(Objects(s)) /\ InFlight(s) = Sizes(Objects(s))
           F == {s \in SUBSET T : ~Agrees(s)}
<1>1. Agrees({})
  <2>1. InFlight({}) = 0
    <3>1. IsSum(SizeOfCall({}), {}, InFlight({}))
      BY InFlightIsSum, FS_EmptySet
    <3> QED BY <3>1, SumEmpty
  <2>2. Objects({}) = {}
    OBVIOUS
  <2>3. Summable({})
    BY FS_EmptySet DEF Summable
  <2> HIDE DEF Objects
  <2> QED BY <2>1, <2>2, <2>3, SizesEmpty
<1>2. ASSUME NEW r \in SUBSET T, NEW t \in T, t \notin r, Agrees(r) PROVE Agrees(r \cup {t})
  <2> PICK s : s = r \cup {t}
    OBVIOUS
  <2> PICK x : x = Object(t)
    OBVIOUS
  <2>1. IsFiniteSet(r) /\ t \notin r /\ IsFiniteSet(s) /\ s \in SUBSET T
    BY <1>2, FS_Subset
  <2>2. InFlight(s) = InFlight(r) + user[t].size
    BY <2>1, InFlightMore DEF Counted
  <2>3. /\ Objects(s) = Objects(r) \cup {x} /\ x.size = user[t].size /\ x.size \in Nat
        /\ Summable(Objects(r)) /\ InFlight(r) = Sizes(Objects(r))
    BY <1>2 DEF Object
  <2>4. x \notin Objects(r)
    BY <1>2
  <2> HIDE DEF Objects
  <2> PICK R : R = Objects(r)
    OBVIOUS
  <2>5. Summable(R) /\ x \notin R /\ x.size \in Nat
    BY <2>3, <2>4
  <2>6. Summable(R \cup {x}) /\ Sizes(R \cup {x}) = Sizes(R) + x.size
    BY <2>5, SizesMore
  <2>7. Objects(s) = R \cup {x} /\ InFlight(s) = Sizes(R) + x.size
    BY <2>2, <2>3
  <2>8. Summable(Objects(s)) /\ InFlight(s) = Sizes(Objects(s))
    BY <2>6, <2>7
  <2>9. Agrees(s)
    BY <2>8
  <2> HIDE DEF Agrees
  <2> QED BY <2>9
<1> HIDE DEF Agrees
<1>3. ASSUME F # {} PROVE FALSE
  <2>1. PICK s \in F : \A t \in s : s \ {t} \notin F
    <3>1. F \in SUBSET (SUBSET T)
      OBVIOUS
    <3> HIDE DEF F
    <3> QED BY <1>3, <3>1, SmallestSubset
  <2>2. PICK t \in s : TRUE
    BY <1>1, <2>1
  <2> PICK r : r = s \ {t}
    OBVIOUS
  <2>3. r \in SUBSET T /\ t \in T /\ t \notin r /\ Agrees(r)
    BY <2>1, <2>2
  <2>4. Agrees(r \cup {t})
    BY <1>2, <2>3
  <2>5. r \cup {t} = s /\ ~Agrees(s)
    BY <2>1, <2>2
  <2> QED BY <2>4, <2>5
<1>4. Agrees(T)
  BY <1>3
<1> QED BY <1>4 DEF Agrees

-----------------------------------------------------------------------------
(* The tally: the live size, while a cycle marks.  Tallied are the         *)
(* complete objects with this cycle's mark whose size has been added;      *)
(* Owing are those of the calls that the switch of the mark state caught,  *)
(* as long as they may add a size that no such mark answers to, or take    *)
(* the mark away with what they free.                                      *)
Counting == {"sleep", "mark", "selected"}
Complete == made \cup {Object(t) : t \in {u \in Busy : At(u, "done")}}
Visiting(o) == \E k \in Marker : mark[k].pc \in {"size", "count"} /\ mark[k].obj = o
Tallied == {o \in Complete : State(o) = cms /\ ~Visiting(o)}
Owing == {Object(t) : t \in {u \in early : ~At(u, "done") \/ user[u].state = cms}}
(* What the live size l is above the tally S, with what is owed, W, is    *)
(* within what was caught, c.                                              *)
Balance(S, W, l, c) ==
    /\ Sizes(S) \in Nat /\ Sizes(W) \in Nat /\ l \in Nat /\ c \in Nat
    /\ Sizes(S) <= l /\ l - Sizes(S) + Sizes(W) <= c
(* A call that does not count has the state of an object born outside the  *)
(* cycles; while marking, only a caught one can be for a relocation.       *)
Born(t) ==
    /\ user[t].pc \in {"state", "count"} => user[t].counts
    /\ user[t].pc \in {"head", "size", "count", "done"} /\ ~user[t].counts => user[t].state = REMAPPED
Stages ==
    /\ gcpc \in {"switching", "sleep", "mark"} => phase = "CONCURRENT_MARK"
    /\ gcpc \in Counting => cms # REMAPPED
    /\ gcpc = "selected" => Busy = {}
    /\ gcpc \in {"sleep", "mark"} => \A t \in Busy \ early : user[t].kind = "make"
(* Of the threads that mark one object, one adds its size. *)
OneVisit ==
    \A j, k \in Marker : j # k /\ mark[j].pc \in {"size", "count"} /\ mark[k].pc \in {"size", "count"} =>
        mark[j].obj # mark[k].obj
Tally ==
    /\ IsFiniteSet(made) /\ IsFiniteSet(Busy) /\ live_size \in Nat /\ caught \in Nat
    /\ Stages /\ OneVisit /\ \A t \in Busy : Born(t)
    /\ gcpc \in Counting => Balance(Tallied, Owing, live_size, caught)

LEMMA SizesFewer ==
    ASSUME NEW S, Summable(S), NEW R, R \subseteq S, NEW x, x.size \in Nat, \A o \in S : o # x => o \in R
    PROVE  Summable(R) /\ Sizes(R) \in Nat /\ Sizes(R) <= Sizes(S)
           /\ (x \in S /\ x \notin R => Sizes(S) = Sizes(R) + x.size)
<1>1. CASE x \in S /\ x \notin R
  <2>1. R = S \ {x}
    BY <1>1
  <2>2. Summable(R) /\ Sizes(R) \in Nat /\ Sizes(S) = Sizes(R) + x.size
    BY <1>1, <2>1, SizesLess
  <2> QED BY <2>2
<1>2. CASE ~(x \in S /\ x \notin R)
  <2>1. R = S
    BY <1>2
  <2>2. Sizes(S) \in Nat
    BY SizesNat
  <2> QED BY <1>2, <2>1, <2>2
<1> QED BY <1>1, <1>2

LEMMA SizesGrown ==
    ASSUME NEW S, Summable(S), NEW T, NEW x, x.size \in Nat, x \notin S, T = S \cup {x}
    PROVE  Sizes(T) \in Nat /\ Sizes(T) = Sizes(S) + x.size
<1>1. Sizes(S) \in Nat /\ Sizes(S \cup {x}) = Sizes(S) + x.size
  BY SizesMore
<1>2. Sizes(S \cup {x}) \in Nat
  BY <1>1
<1> QED BY <1>1, <1>2

(* One object at a time is counted, let go of, or withdrawn. *)
LEMMA BalanceKept ==
    ASSUME NEW S, Summable(S), NEW W, Summable(W), NEW T, NEW V, NEW l, NEW m, NEW c, Balance(S, W, l, c),
           NEW x, x.size \in Nat, \A o : o # x => (o \in T <=> o \in S),
           V \subseteq W, \A o \in W : o # x => o \in V,
           \/ m = l /\ (x \in T <=> x \in S)
           \/ m = l + x.size /\ x \in T /\ x \notin S
           \/ m = l + x.size /\ x \notin T /\ x \notin S /\ x \in W /\ x \notin V
           \/ m = l /\ x \in S /\ x \notin T /\ x \in W /\ x \notin V
    PROVE  Balance(T, V, m, c)
<1>1. /\ Sizes(S) \in Nat /\ Sizes(W) \in Nat /\ l \in Nat /\ c \in Nat
      /\ Sizes(S) <= l /\ l - Sizes(S) + Sizes(W) <= c
  BY DEF Balance
<1>2. Sizes(V) \in Nat /\ Sizes(V) <= Sizes(W) /\ (x \in W /\ x \notin V => Sizes(W) = Sizes(V) + x.size)
  BY SizesFewer
<1>3. CASE x \in T <=> x \in S
  <2>1. T = S
    BY <1>3
  <2>2. Sizes(T) = Sizes(S)
    BY <2>1
  <2> QED BY <1>1, <1>2, <1>3, <2>2 DEF Balance
<1>4. CASE x \in T /\ x \notin S
  <2>1. T = S \cup {x}
    BY <1>4
  <2>2. Sizes(T) \in Nat /\ Sizes(T) = Sizes(S) + x.size
    BY <1>4, <2>1, SizesGrown
  <2> QED BY <1>1, <1>2, <1>4, <2>2 DEF Balance
<1>5. CASE x \in S /\ x \notin T
  <2>1. T \subseteq S /\ \A o \in S : o # x => o \in T
    BY <1>5
  <2>2. Sizes(T) \in Nat /\ Sizes(S) = Sizes(T) + x.size
    BY <1>5, <2>1, SizesFewer
  <2> QED BY <1>1, <1>2, <1>5, <2>2 DEF Balance
<1> QED BY <1>3, <1>4, <1>5

(* The object of a call: no marker visits it, no other call has it. *)
LEMMA OwnObject ==
    ASSUME NEW H, Laid(H), MarkTyped, Phases, NEW t \in Busy, NEW x, x = Object(t)
    PROVE  /\ x \in Blocks(H) /\ x \notin made /\ x.size \in Nat /\ ~Visiting(x)
           /\ \A u \in Busy : u # t => Object(u) # x
           /\ x \in Complete <=> At(t, "done")
           /\ x \in Tallied <=> At(t, "done") /\ State(x) = cms
           /\ x \in Owing <=> t \in early /\ (~At(t, "done") \/ user[t].state = cms)
<1>1. x \in Blocks(H)
  BY DEF Blocks
<1>2. x \notin made /\ \A u \in Busy : u # t => Object(u) # x
  BY BlocksApart DEF Blocks, Laid, Placed, Disjoint
<1>3. x.size \in Nat
  BY DEF Laid, Placed, Inside
<1>4. ~Visiting(x)
  BY <1>2 DEF Visiting, MarkTyped, Marking
<1>5. x \in Complete <=> At(t, "done")
  BY <1>2 DEF Complete
<1>6. x \in Tallied <=> At(t, "done") /\ State(x) = cms
  BY <1>4, <1>5 DEF Tallied
<1>7. x \in Owing <=> t \in early /\ (~At(t, "done") \/ user[t].state = cms)
  BY <1>2 DEF Owing, Phases
<1> QED BY <1>1, <1>2, <1>3, <1>4, <1>5, <1>6, <1>7

LEMMA TalliedSummable ==
    ASSUME NEW H, Laid(H), Phases, Tally
    PROVE  Summable(Tallied) /\ Summable(Owing)
<1>1. ASSUME NEW T \in SUBSET Busy PROVE Summable({Object(t) : t \in T})
  <2>1. T \in SUBSET Thread /\ IsFiniteSet(T)
    BY FS_Subset DEF Tally, Busy
  <2>2. \A t \in T : Inside(Object(t), allocated_offset)
    BY DEF Laid, Placed
  <2>3. \A t \in T : user[t].size \in Nat
    BY <2>2 DEF Inside, Object
  <2>4. \A t, u \in T : t # u => Object(t) # Object(u)
    BY BlocksApart DEF Blocks
  <2> QED BY <2>1, <2>3, <2>4, InFlightIsSizes
<1>2. Summable(made)
  BY DEF Summable, Tally, Laid, Placed, Inside
<1> PICK D : D = {Object(t) : t \in {u \in Busy : At(u, "done")}}
  OBVIOUS
<1>3. Summable(D)
  BY <1>1
<1>4. Summable(Complete)
  <2>1. Complete = made \cup D
    BY DEF Complete
  <2>2. IsFiniteSet(made \cup D)
    BY <1>2, <1>3, FS_Union DEF Summable
  <2> QED BY <1>2, <1>3, <2>1, <2>2 DEF Summable
<1>5. Summable(Tallied)
  <2>1. Tallied \subseteq Complete
    BY DEF Tallied
  <2> QED BY <1>4, <2>1, FS_Subset DEF Summable
<1>6. Summable(Owing)
  BY <1>1 DEF Owing, Phases
<1> QED BY <1>5, <1>6

(* What a step does to the tally, at most one object x being concerned. *)
LEMMA TallyKept ==
    ASSUME NEW H, Laid(H), Phases, Tally, gcpc' \in Counting => gcpc \in Counting, UNCHANGED caught,
           IsFiniteSet(made)', IsFiniteSet(Busy)', Stages', OneVisit', \A t \in Busy' : Born(t)',
           NEW x, x.size \in Nat, live_size' \in Nat,
           gcpc' \in Counting =>
               /\ \A o : o # x => (o \in Tallied' <=> o \in Tallied)
               /\ Owing' \subseteq Owing /\ \A o \in Owing : o # x => o \in Owing'
               /\ \/ live_size' = live_size /\ (x \in Tallied' <=> x \in Tallied)
                  \/ live_size' = live_size + x.size /\ x \in Tallied' /\ x \notin Tallied
                  \/ /\ live_size' = live_size + x.size /\ x \notin Tallied' /\ x \notin Tallied
                     /\ x \in Owing /\ x \notin Owing'
                  \/ live_size' = live_size /\ x \in Tallied /\ x \notin Tallied' /\ x \in Owing /\ x \notin Owing'
    PROVE  Tally'
<1>1. ASSUME gcpc' \in Counting PROVE Balance(Tallied, Owing, live_size, caught)'
  <2> PICK T : T = Tallied'
    OBVIOUS
  <2> PICK V : V = Owing'
    OBVIOUS
  <2> PICK m : m = live_size'
    OBVIOUS
  <2>1. Balance(Tallied, Owing, live_size, caught) /\ Summable(Tallied) /\ Summable(Owing)
    BY <1>1, TalliedSummable DEF Tally
  <2>2. Balance(T, V, m, caught)
    BY <1>1, <2>1, BalanceKept
  <2> QED BY <2>2 DEF Balance
<1> QED BY <1>1 DEF Tally

LEMMA InitTally == Init => Tally
<1> SUFFICES ASSUME Init PROVE Tally
  OBVIOUS
<1>1. /\ user = [t \in Thread |-> Idle] /\ made = {} /\ gcpc = "idle" /\ live_size = 0 /\ caught = 0
      /\ mark = [k \in Marker |-> NoVisit]
  BY DEF Init
<1>2. Busy = {}
  BY <1>1, IdleTyped DEF Busy, At
<1>3. OneVisit
  BY <1>1 DEF OneVisit, NoVisit
<1> QED BY <1>1, <1>2, <1>3, FS_EmptySet DEF Tally, Stages, Counting

(* The steps of a call.  What adds its size has the current mark state,    *)
(* or was caught by the switch and owes it.                                *)
LEMMA CallBorn ==
    ASSUME Typed, NEW t \in Thread, Born(t),
           TestPhase(t) \/ ReadState(t) \/ MarkHead(t) \/ StoreSize(t) \/ CountAllocated(t)
    PROVE  /\ user'[t].kind = user[t].kind /\ Born(t)'
           /\ user'[t].pc = "done" /\ ~CountAllocated(t) => user'[t].state = REMAPPED
<1>1. user \in [Thread -> UserRecord] /\ user[t] \in UserRecord
  BY DEF Typed
<1>2. /\ user[t].pc \in {"state", "count"} => user[t].counts
      /\ user[t].pc \in {"head", "size", "count", "done"} /\ ~user[t].counts => user[t].state = REMAPPED
  BY DEF Born
<1> DEFINE Fits(u) == /\ u.kind = user[t].kind
                      /\ u.pc \in {"state", "count"} => u.counts
                      /\ u.pc \in {"head", "size", "count", "done"} /\ ~u.counts => u.state = REMAPPED
                      /\ u.pc = "done" /\ ~CountAllocated(t) => u.state = REMAPPED
<1>3. SUFFICES Fits(user'[t])
  BY <1>3 DEF Born
<1>4. CASE TestPhase(t)
  <2>1. user'[t] = IF duringGC THEN [user[t] EXCEPT !.pc = "state", !.counts = TRUE]
                   ELSE [user[t] EXCEPT !.pc = "head", !.state = REMAPPED]
    BY <1>1, <1>4 DEF TestPhase
  <2> QED BY <1>1, <2>1 DEF UserRecord
<1>5. CASE ReadState(t)
  <2>1. user'[t] = [user[t] EXCEPT !.pc = "head", !.state = cms] /\ user[t].pc = "state"
    BY <1>1, <1>5 DEF ReadState, At
  <2> QED BY <1>1, <1>2, <2>1 DEF UserRecord
<1>6. CASE MarkHead(t)
  <2>1. user'[t] = [user[t] EXCEPT !.pc = "size"] /\ user[t].pc = "head"
    BY <1>1, <1>6 DEF MarkHead, At, Goto
  <2> QED BY <1>1, <1>2, <2>1 DEF UserRecord
<1>7. CASE StoreSize(t)
  <2>1. user[t].pc = "size"
    BY <1>7 DEF StoreSize, At
  <2>2. CASE user[t].digit < SizeBytes - 1
    <3>1. user'[t] = [user[t] EXCEPT !.digit = @ + 1]
      BY <1>1, <1>7, <2>2 DEF StoreSize
    <3> QED BY <1>1, <1>2, <2>1, <3>1 DEF UserRecord
  <2>3. CASE ~(user[t].digit < SizeBytes - 1)
    <3>1. user'[t] = [user[t] EXCEPT !.digit = 0, !.pc = IF user[t].counts THEN "count" ELSE "done"]
      BY <1>1, <1>7, <2>3 DEF StoreSize
    <3> QED BY <1>1, <1>2, <2>1, <3>1 DEF UserRecord
  <2> QED BY <2>2, <2>3
<1>8. CASE CountAllocated(t)
  <2>1. user'[t] = [user[t] EXCEPT !.pc = "done"] /\ user[t].pc = "count"
    BY <1>1, <1>8 DEF CountAllocated, At, Goto
  <2> QED BY <1>1, <1>2, <1>8, <2>1 DEF UserRecord
<1> QED BY <1>4, <1>5, <1>6, <1>7, <1>8

LEMMA CallTally ==
    ASSUME Typed, NEW H, Laid(H), Intact(H), Painted(H), NEW t \in Thread, NEW x, x = Object(t),
           TestPhase(t) \/ ReadState(t) \/ MarkHead(t) \/ StoreSize(t) \/ CountAllocated(t)
    PROVE  /\ x.size = user[t].size /\ x.size \in Nat /\ x \notin Tallied
           /\ \A o : o # x => (o \in Tallied' <=> o \in Tallied) /\ (o \in Owing' <=> o \in Owing)
           /\ x \in Tallied' <=> user'[t].pc = "done" /\ State(x)' = cms
           /\ x \in Owing <=> t \in early
           /\ x \in Owing' <=> t \in early /\ (user'[t].pc # "done" \/ user'[t].state = cms)
<1>1. /\ Moves(t) /\ user[t].pc # "done" /\ t \in Busy
      /\ UNCHANGED <<cms, mark, made, early>>
  BY CallFrame DEF Moves
<1>2. /\ Busy' = Busy /\ (\A u \in Thread : Object(u)' = Object(u))
      /\ \A u \in Thread : u # t => user'[u] = user[u]
  BY <1>1, MovesKeepsObjects DEF Moves
<1>3. /\ x \in Blocks(H) /\ x \notin made /\ x.size \in Nat /\ ~Visiting(x)
      /\ \A u \in Busy : u # t => Object(u) # x
      /\ x \notin Tallied /\ (x \in Owing <=> t \in early)
  BY <1>1, OwnObject DEF Intact, Painted, At
<1>4. \A o \in Blocks(H) : o # x => State(o)' = State(o)
  BY CallStates DEF Intact
<1>5. Visiting(x)' <=> FALSE
  BY <1>1, <1>3 DEF Visiting
<1>6. \A o : Visiting(o)' <=> Visiting(o)
  BY <1>1 DEF Visiting
<1>7. early \subseteq Busy /\ Busy \subseteq Thread
  BY DEF Painted, Phases, Busy
<1>8. \A o : o # x => (o \in Complete' <=> o \in Complete)
  BY <1>1, <1>2, <1>7 DEF Complete, At
<1>9. x \in Complete' <=> user'[t].pc = "done"
  BY <1>1, <1>2, <1>3, <1>7 DEF Complete, At
<1>10. \A o \in Complete : o \in Blocks(H)
  BY DEF Complete, Blocks
<1>11. \A o : o # x => (o \in Tallied' <=> o \in Tallied)
  BY <1>1, <1>4, <1>6, <1>8, <1>10 DEF Tallied
<1>12. x \in Tallied' <=> user'[t].pc = "done" /\ State(x)' = cms
  BY <1>1, <1>5, <1>9 DEF Tallied
<1>13. \A o : o # x => (o \in Owing' <=> o \in Owing)
  BY <1>1, <1>2, <1>7 DEF Owing, At
<1>14. x \in Owing' <=> t \in early /\ (user'[t].pc # "done" \/ user'[t].state = cms)
  BY <1>1, <1>2, <1>3, <1>7 DEF Owing, At
<1>15. x.size = user[t].size
  BY DEF Object
<1> QED BY <1>3, <1>11, <1>12, <1>13, <1>14, <1>15

LEMMA CallKeepsTally ==
    ASSUME Typed, NEW H, Laid(H), Intact(H), Painted(H), Tally, NEW t \in Thread,
           TestPhase(t) \/ ReadState(t) \/ MarkHead(t) \/ StoreSize(t) \/ CountAllocated(t)
    PROVE  Tally'
<1> PICK x : x = Object(t)
  OBVIOUS
<1>1. /\ Moves(t) /\ t \in Busy
      /\ UNCHANGED <<phase, cms, gcpc, mark, made, early>>
  BY CallFrame DEF Moves
<1>2. Busy' = Busy /\ \A u \in Thread : u # t => user'[u] = user[u]
  BY <1>1, MovesKeepsObjects DEF Moves
<1>3. /\ x.size = user[t].size /\ x.size \in Nat /\ x \notin Tallied
      /\ \A o : o # x => (o \in Tallied' <=> o \in Tallied) /\ (o \in Owing' <=> o \in Owing)
      /\ x \in Tallied' <=> user'[t].pc = "done" /\ State(x)' = cms
      /\ x \in Owing <=> t \in early
      /\ x \in Owing' <=> t \in early /\ (user'[t].pc # "done" \/ user'[t].state = cms)
  BY CallTally
<1>4. /\ user'[t].kind = user[t].kind /\ Born(t)'
      /\ user'[t].pc = "done" /\ ~CountAllocated(t) => user'[t].state = REMAPPED
  BY <1>1, CallBorn DEF Tally
<1>5. Stages /\ OneVisit /\ Phases /\ \A u \in Busy : Born(u)
  BY DEF Tally, Painted
<1>6. Stages'
  BY <1>1, <1>2, <1>4, <1>5 DEF Stages, Busy
<1>7. OneVisit'
  BY <1>1, <1>5 DEF OneVisit
<1>8. \A u \in Busy' : Born(u)'
  <2> SUFFICES ASSUME NEW u \in Busy, u # t PROVE Born(u)'
    BY <1>2, <1>4
  <2>1. user'[u] = user[u] /\ Born(u)
    BY <1>2, <1>5 DEF Busy
  <2> QED BY <2>1 DEF Born
<1>9. IsFiniteSet(made)' /\ IsFiniteSet(Busy)' /\ UNCHANGED caught
  BY <1>1, <1>2 DEF Tally, TestPhase, ReadState, MarkHead, StoreSize, CountAllocated, history
<1>10. user'[t].pc \in {"size", "count", "done"} => State(x)' = user'[t].state
  <2>1. Painted(H)'
    BY CallKeepsPainted DEF Intact
  <2>2. Object(t)' = x /\ t \in Busy'
    BY <1>1, <1>2, MovesKeepsObjects
  <2>3. (user[t].pc \in {"size", "count", "done"} => State(Object(t)) = user[t].state)'
    BY <2>1, <2>2 DEF Painted, Tinted
  <2> QED BY <2>2, <2>3 DEF State
<1>11. x \in Tallied' <=> user'[t].pc = "done" /\ user'[t].state = cms
  BY <1>3, <1>10
<1>12. Owing' \subseteq Owing /\ \A o \in Owing : o # x => o \in Owing'
  BY <1>3
<1>13. CASE CountAllocated(t)
  <2>1. live_size' = live_size + x.size /\ user'[t].pc = "done"
    BY <1>3, <1>13, CountAllocatedEffect DEF CountAllocated
  <2>2. gcpc \in Counting => t \in early \/ user'[t].state = cms
    BY <1>1, <1>13, CountAllocatedEffect DEF Painted, Tinted, Counting, Cycling, Remarked
  <2>3. live_size' \in Nat
    BY <1>3, <2>1 DEF Tally
  <2>4. gcpc \in Counting =>
            \/ live_size' = live_size + x.size /\ x \in Tallied' /\ x \notin Tallied
            \/ /\ live_size' = live_size + x.size /\ x \notin Tallied' /\ x \notin Tallied
               /\ x \in Owing /\ x \notin Owing'
    BY <1>3, <1>11, <2>1, <2>2
  <2> QED BY <1>1, <1>3, <1>5, <1>6, <1>7, <1>8, <1>9, <1>12, <2>3, <2>4, TallyKept
<1>14. CASE ~CountAllocated(t)
  <2>1. live_size' = live_size /\ live_size' \in Nat
    BY <1>14 DEF Tally, TestPhase, ReadState, MarkHead, StoreSize, regionVars
  <2>2. gcpc \in Counting => x \notin Tallied'
    BY <1>4, <1>5, <1>11, <1>14 DEF Stages
  <2> QED BY <1>1, <1>3, <1>5, <1>6, <1>7, <1>8, <1>9, <1>12, <2>1, <2>2, TallyKept
<1> QED BY <1>13, <1>14

(* A new object is counted later, and only by its own thread. *)
LEMMA AllocateKeepsTally ==
    ASSUME Typed, NEW H, Laid(H), Intact(H), Painted(H), Tally, NEW t \in Thread, allocate(t)
    PROVE  Tally'
<1>1. /\ user'[t].pc = "test"
      /\ \A u \in Thread : u # t => user'[u] = user[u]
      /\ t \notin Busy /\ Busy' = Busy \cup {t}
      /\ UNCHANGED <<phase, cms, gcpc, bitmap_arr, mark, made, early>>
  BY AllocateEffect
<1>2. UNCHANGED <<live_size, caught>>
  BY DEF allocate, history
<1>3. gcpc \in {"sleep", "mark"} => user'[t].kind = "make"
  <2> PICK n \in Size, kind \in {"make", "relocate"} :
          /\ kind = "relocate" => phase = "SWEEP"
          /\ user' = [user EXCEPT ![t] = [Idle EXCEPT !.pc = "test", !.kind = kind,
                                          !.at = allocated_offset, !.size = n]]
    BY DEF allocate
  <2> DEFINE r == [Idle EXCEPT !.pc = "test", !.kind = kind, !.at = allocated_offset, !.size = n]
  <2>1. r.kind = kind
    BY DEF Idle
  <2> HIDE DEF r
  <2>2. user'[t] = r
    BY DEF Typed, r
  <2> QED BY <2>1, <2>2 DEF Tally, Stages
<1>4. gcpc # "selected"
  BY DEF allocate, StwHeld
<1>5. Stages'
  BY <1>1, <1>3, <1>4 DEF Tally, Stages, Busy, Counting
<1>6. OneVisit'
  BY <1>1 DEF Tally, OneVisit
<1>7. \A u \in Busy' : Born(u)'
  <2> SUFFICES ASSUME NEW u \in Busy' PROVE Born(u)'
    OBVIOUS
  <2>1. CASE u = t
    BY <1>1, <2>1 DEF Born
  <2>2. CASE u # t
    <3>1. user'[u] = user[u] /\ Born(u)
      BY <1>1, <2>2 DEF Busy, Tally
    <3> QED BY <3>1 DEF Born
  <2> QED BY <2>1, <2>2
<1>8. IsFiniteSet(made)' /\ IsFiniteSet(Busy)'
  <2>1. IsFiniteSet(Busy \cup {t}) /\ IsFiniteSet(made)
    BY FS_AddElement DEF Tally
  <2> QED BY <1>1, <2>1
<1>9. early \subseteq Busy /\ Busy \subseteq Thread
  BY DEF Painted, Phases, Busy
<1>10. Complete' = Complete
  BY <1>1, <1>9 DEF Complete, At, Object
<1>11. \A o : State(o)' = State(o) /\ (Visiting(o)' <=> Visiting(o))
  BY <1>1, SameBitmap DEF Visiting
<1>12. Tallied' = Tallied
  BY <1>1, <1>10, <1>11 DEF Tallied
<1>13. Owing' = Owing
  BY <1>1, <1>9 DEF Owing, At, Object
<1> DEFINE x == [at |-> 0, size |-> 0]
<1>14. x.size \in Nat
  OBVIOUS
<1> HIDE DEF x
<1>15. live_size' \in Nat /\ Phases
  BY <1>2 DEF Tally, Painted
<1> QED BY <1>1, <1>2, <1>5, <1>6, <1>7, <1>8, <1>12, <1>13, <1>14, <1>15, TallyKept

(* The end of a call: what is published stays in the tally, what is freed  *)
(* leaves it.                                                              *)
LEMMA ReturnTally ==
    ASSUME Typed, NEW H, Laid(H), Intact(H), Painted(H), Tally, NEW t \in Thread, NEW x, x = Object(t),
           t \in Busy, Return(t), UNCHANGED <<phase, cms, gcpc, mark, caught, live_size>>,
           IsFiniteSet(made)',
           gcpc \in Counting =>
               /\ \A o : o # x => (o \in Tallied' <=> o \in Tallied)
               /\ (x \in Tallied' <=> x \in Tallied)
                     \/ (x \in Tallied /\ x \notin Tallied' /\ x \in Owing /\ x \notin Owing')
    PROVE  Tally'
<1>1. Busy' = Busy \ {t} /\ \A u \in Busy' : Object(u)' = Object(u) /\ user'[u] = user[u]
  BY ReturnEffect
<1>2. early' = early \ {t} /\ early \subseteq Busy /\ Phases
  BY DEF Return, Painted, Phases
<1>3. Stages'
  BY <1>1, <1>2 DEF Tally, Stages
<1>4. OneVisit'
  BY DEF Tally, OneVisit
<1>5. \A u \in Busy' : Born(u)'
  BY <1>1 DEF Tally, Born
<1>6. IsFiniteSet(Busy)'
  <2>1. IsFiniteSet(Busy \ {t})
    BY FS_RemoveElement DEF Tally
  <2> QED BY <1>1, <2>1
<1>7. x.size \in Nat /\ \A u \in Busy : u # t => Object(u) # x
  BY <1>2, OwnObject DEF Intact
<1>8. Owing' \subseteq Owing /\ \A o \in Owing : o # x => o \in Owing'
  BY <1>1, <1>2 DEF Owing, At
<1>9. live_size' \in Nat
  BY DEF Tally
<1> QED BY <1>2, <1>3, <1>4, <1>5, <1>6, <1>7, <1>8, <1>9, TallyKept

LEMMA PublishKeepsTally ==
    ASSUME Typed, NEW H, Laid(H), Intact(H), Painted(H), Tally, NEW t \in Thread, Publish(t)
    PROVE  Tally'
<1> PICK x : x = Object(t)
  OBVIOUS
<1>1. /\ Return(t) /\ t \in Busy /\ At(t, "done") /\ made' = made \cup {x}
      /\ UNCHANGED <<phase, cms, gcpc, mark, bitmap_arr>>
  BY PublishFrame
<1>2. UNCHANGED <<caught, live_size>>
  BY DEF Publish, regionVars
<1>3. Busy' = Busy \ {t} /\ \A u \in Busy' : Object(u)' = Object(u) /\ user'[u] = user[u]
  BY <1>1, ReturnEffect
<1>4. Complete' = Complete
  <2>1. \A o : o \in Complete' <=> o \in made' \/ \E u \in Busy' : user'[u].pc = "done" /\ o = Object(u)'
    BY DEF Complete, At
  <2>2. \A o : o \in Complete <=> o \in made \/ \E u \in Busy : user[u].pc = "done" /\ o = Object(u)
    BY DEF Complete, At
  <2>3. \A o : o \in Complete' <=> o \in made \/ o = x \/ \E u \in Busy : u # t /\ user[u].pc = "done" /\ o = Object(u)
    BY <1>1, <1>3, <2>1
  <2>4. \A o : o \in Complete' <=> o \in Complete
    BY <1>1, <2>2, <2>3 DEF At
  <2> QED BY <2>4
<1>5. \A o : State(o)' = State(o) /\ (Visiting(o)' <=> Visiting(o))
  BY <1>1, SameBitmap DEF Visiting
<1>6. Tallied' = Tallied
  BY <1>1, <1>4, <1>5 DEF Tallied
<1>7. IsFiniteSet(made)'
  <2>1. IsFiniteSet(made \cup {x})
    BY FS_AddElement DEF Tally
  <2> QED BY <1>1, <2>1
<1> QED BY <1>1, <1>2, <1>6, <1>7, ReturnTally

LEMMA FreeKeepsTally ==
    ASSUME Typed, NEW H, Laid(H), Intact(H), Painted(H), Tally, NEW t \in Thread, free(t)
    PROVE  Tally'
<1> PICK x : x = Object(t)
  OBVIOUS
<1>1. /\ Return(t) /\ t \in Busy /\ At(t, "done") /\ user[t].kind = "relocate"
      /\ UNCHANGED <<phase, cms, gcpc, mark, made>>
      /\ ~Leaves(t) => UNCHANGED bitmap_arr
      /\ Leaves(t) => bitmap_arr' = WithState(x.at, NOT_ALLOCATED)
  BY FreeFrame DEF Object, free
<1>2. UNCHANGED <<caught, live_size>>
  BY DEF free
<1>3. Busy' = Busy \ {t} /\ \A u \in Busy' : Object(u)' = Object(u) /\ user'[u] = user[u]
  BY <1>1, ReturnEffect
<1>4. /\ x \in Blocks(H) /\ x \notin made /\ (\A u \in Busy : u # t => Object(u) # x)
      /\ x \in Tallied <=> State(x) = cms
      /\ x \in Owing <=> t \in early /\ user[t].state = cms
  BY <1>1, OwnObject DEF Intact, Painted
<1>5. \A o \in Blocks(H) : o # x => State(o)' = State(o)
  <2>1. Bitmap /\ NOT_ALLOCATED \in States
    BY DEF Intact, Sized, States
  <2> QED BY <1>1, <1>4, <2>1, HeadWritten, SameBitmap
<1>6. \A o : o # x => (o \in Complete' <=> o \in Complete)
  BY <1>1, <1>3 DEF Complete, At
<1>7. x \notin Complete'
  BY <1>1, <1>3, <1>4 DEF Complete, At
<1>8. (\A o : Visiting(o)' <=> Visiting(o)) /\ \A o \in Complete : o \in Blocks(H)
  BY <1>1 DEF Visiting, Complete, Blocks
<1>9. \A o : o # x => (o \in Tallied' <=> o \in Tallied)
  BY <1>1, <1>5, <1>6, <1>8 DEF Tallied
<1>10. x \notin Tallied'
  BY <1>7 DEF Tallied
<1>11. gcpc \in Counting => t \in early
  BY <1>1 DEF Tally, Stages, Counting
<1>12. State(x) = user[t].state
  <2>1. State(Object(t)) = user[t].state
    BY <1>1 DEF Painted, Tinted, At
  <2> QED BY <2>1
<1>13. x \notin Owing'
  <2>1. early' = early \ {t} /\ early \subseteq Busy
    BY <1>1 DEF Return, Painted, Phases
  <2> QED BY <1>3, <1>4, <2>1 DEF Owing, At
<1>14. IsFiniteSet(made)'
  BY <1>1 DEF Tally
<1>15. gcpc \in Counting => (x \in Tallied' <=> x \in Tallied)
                     \/ (x \in Tallied /\ x \notin Tallied' /\ x \in Owing /\ x \notin Owing')
  BY <1>4, <1>10, <1>11, <1>12, <1>13
<1> QED BY <1>1, <1>2, <1>9, <1>14, <1>15, ReturnTally

(* A marker's object is in the tally when it has added its size. *)
LEMMA MarkerKeepsTally ==
    ASSUME Typed, NEW H, Laid(H), Intact(H), Painted(H), Tally, NEW k \in Marker, MarkerStep(k)
    PROVE  Tally'
<1> PICK x : x = mark[k].obj
  OBVIOUS
<1>1. /\ UNCHANGED <<user, made, cms, phase, gcpc, early>> /\ Busy' = Busy
      /\ \A j \in Marker : j # k => mark'[j] = mark[j]
      /\ mark[k] \in MarkRecord(made) /\ mark \in [Marker -> MarkRecord(made)]
  BY MarkerFrame, UserUnchanged, MarkerEffect DEF Intact, MarkTyped
<1>2. UNCHANGED caught
  BY DEF MarkerStep, marked, MarkBit, MarkSize, CountLive, history
<1>3. /\ mark[k].pc # "idle" => x \in made
      /\ \A j \in Marker : mark[j].pc \in {"size", "count"} => State(mark[j].obj) = cms
  BY DEF Painted, Visits, Marking
<1>4. /\ Owing' = Owing /\ Complete' = Complete /\ Stages' /\ IsFiniteSet(made)' /\ IsFiniteSet(Busy)'
      /\ \A t \in Busy' : Born(t)'
  BY <1>1 DEF Owing, Complete, At, Object, Tally, Stages, Born
<1>5. made \subseteq Complete /\ \A o \in Complete : o \in Blocks(H)
  BY DEF Complete, Blocks
<1>6. \A step : MarkGoto(k, step) => mark'[k].pc = step /\ mark'[k].obj = x
  BY <1>1 DEF MarkGoto, MarkRecord
<1>7. Visited(k) => mark'[k].pc = "idle"
  BY <1>1 DEF Visited, NoVisit
<1>8. OneVisit /\ Phases
  BY DEF Tally, Painted
<1>9. CASE CountLive(k)
  <2>1. mark[k].pc = "count" /\ mark'[k].pc = "idle" /\ live_size' = live_size + x.size /\ UNCHANGED bitmap_arr
    BY <1>7, <1>9 DEF CountLive, Marking
  <2>2. x \in made /\ State(x) = cms /\ x.size \in Nat
    BY <1>3, <2>1 DEF Laid, Placed, Inside
  <2>3. OneVisit'
    BY <1>1, <1>8, <2>1 DEF OneVisit
  <2>4. \A o : State(o)' = State(o) /\ (o # x => (Visiting(o)' <=> Visiting(o)))
    BY <1>1, <2>1, SameBitmap DEF Visiting
  <2>5. Visiting(x) /\ ~Visiting(x)'
    BY <1>1, <1>8, <2>1 DEF Visiting, OneVisit
  <2>6. \A o : o # x => (o \in Tallied' <=> o \in Tallied)
    BY <1>1, <1>4, <2>4 DEF Tallied
  <2>7. x \in Tallied' /\ x \notin Tallied
    BY <1>1, <1>4, <1>5, <2>2, <2>4, <2>5 DEF Tallied
  <2>8. live_size' \in Nat
    BY <2>1, <2>2 DEF Tally
  <2> QED BY <1>1, <1>2, <1>4, <1>8, <2>1, <2>2, <2>3, <2>6, <2>7, <2>8, TallyKept
<1>10. CASE ~CountLive(k)
  <2>1. live_size' = live_size /\ live_size' \in Nat
    BY <1>10 DEF MarkerStep, marked, MarkBit, MarkSize, Tally, regionVars
  <2>2. OneVisit' /\ Tallied' = Tallied
    <3>1. CASE MarkBit(k) /\ State(x) # cms
      <4>1. /\ mark[k].pc = "head" /\ mark'[k].pc = "size" /\ mark'[k].obj = x
            /\ bitmap_arr' = WithState(x.at, cms)
        BY <1>6, <3>1 DEF MarkBit, Marking, State
      <4>2. x \in made /\ x \in Blocks(H)
        BY <1>3, <1>5, <4>1
      <4>3. Bitmap /\ cms \in States
        BY DEF Intact, Sized, Typed
      <4>4. \A o \in Blocks(H) : o # x => State(o)' = State(o)
        BY <4>1, <4>2, <4>3, HeadWritten
      <4>5. \A j \in Marker : mark[j].pc \in {"size", "count"} => mark[j].obj # x
        BY <1>3, <3>1
      <4>6. OneVisit'
        BY <1>1, <1>8, <4>1, <4>5 DEF OneVisit
      <4>7. Visiting(x)' /\ \A o : o # x => (Visiting(o)' <=> Visiting(o))
        BY <1>1, <4>1 DEF Visiting
      <4>8. \A o : o # x => (o \in Tallied' <=> o \in Tallied)
        BY <1>1, <1>4, <1>5, <4>4, <4>7 DEF Tallied
      <4>9. x \notin Tallied' /\ x \notin Tallied
        BY <3>1, <4>7 DEF Tallied
      <4>10. \A o : o \in Tallied' <=> o \in Tallied
        BY <4>8, <4>9
      <4>11. Tallied' = Tallied
        <5> PICK T : T = Tallied'
          OBVIOUS
        <5>1. T \subseteq Complete /\ Tallied \subseteq Complete
          BY <1>4 DEF Tallied
        <5> QED BY <4>10, <5>1
      <4> QED BY <4>6, <4>11
    <3>2. CASE ~(MarkBit(k) /\ State(x) # cms)
      <4>1. UNCHANGED bitmap_arr
        BY <3>2, MarkerEffect DEF Intact, State
      <4>2. \/ mark[k].pc \in {"idle", "head"} /\ mark'[k].pc \in {"idle", "head"}
            \/ mark[k].pc = "size" /\ mark'[k].pc = "count" /\ mark'[k].obj = x
        <5>1. CASE marked(k)
          <6>1. mark[k].pc = "idle" /\ (UNCHANGED mark \/ mark'[k].pc = "head")
            BY <1>1, <5>1 DEF marked, Marking
          <6> QED BY <6>1
        <5>2. CASE MarkBit(k)
          <6>1. mark[k].pc = "head" /\ Visited(k)
            BY <3>2, <5>2 DEF MarkBit, Marking, State
          <6> QED BY <1>7, <6>1
        <5>3. CASE MarkSize(k)
          <6>1. mark[k].pc = "size" /\ (MarkGoto(k, "count") \/ MarkGoto(k, "throw"))
            BY <5>3 DEF MarkSize, Marking
          <6>2. MarkTyped'
            BY MarkerEffect DEF Intact
          <6>3. mark'[k].pc # "throw"
            BY <6>2 DEF MarkTyped, MarkRecord
          <6> QED BY <1>6, <6>1, <6>3
        <5> QED BY <1>10, <5>1, <5>2, <5>3 DEF MarkerStep
      <4>3. OneVisit'
        BY <1>1, <1>8, <4>2 DEF OneVisit
      <4>4. \A o : State(o)' = State(o) /\ (Visiting(o)' <=> Visiting(o))
        BY <1>1, <4>1, <4>2, SameBitmap DEF Visiting
      <4>5. Tallied' = Tallied
        BY <1>1, <1>4, <4>4 DEF Tallied
      <4> QED BY <4>3, <4>5
    <3> QED BY <3>1, <3>2
  <2> DEFINE y == [at |-> 0, size |-> 0]
  <2>3. y.size \in Nat
    OBVIOUS
  <2> HIDE DEF y
  <2> QED BY <1>1, <1>2, <1>4, <1>8, <2>1, <2>2, <2>3, TallyKept
<1> QED BY <1>9, <1>10

(* When the mark state is switched nothing has the new one. *)
LEMMA SwitchMarkStateKeepsTally ==
    ASSUME Typed, NEW H, Laid(H), Intact(H), Painted(H), Tally, SwitchMarkState
    PROVE  Tally'
<1>1. /\ UNCHANGED <<phase, bitmap_arr, user, mark, made, live_size>>
      /\ gcpc = "switching" /\ gcpc' = "sleep" /\ early' = Busy /\ cms' = switchState(cms)
  BY DEF SwitchMarkState, regionVars, heapVars
<1>2. Busy' = Busy
  BY <1>1, UserUnchanged
<1>3. cms' \in {M0, M1} /\ cms' # cms /\ cms' \notin {NOT_ALLOCATED, REMAPPED}
  BY <1>1 DEF Painted, Phases, switchState, NOT_ALLOCATED, REMAPPED, M0, M1
<1>4. Stages'
  BY <1>1, <1>2, <1>3 DEF Tally, Stages
<1>5. OneVisit' /\ (\A t \in Busy' : Born(t)') /\ IsFiniteSet(made)' /\ IsFiniteSet(Busy)' /\ live_size' \in Nat
  BY <1>1, <1>2 DEF Tally, OneVisit, Born
<1>6. \A t \in Busy : At(t, "done") => user[t].state \in {REMAPPED, cms} /\ State(Object(t)) = user[t].state
  BY <1>1 DEF Painted, Tinted, Calm, At
<1>7. \A o \in made : State(o) \in {NOT_ALLOCATED, REMAPPED, cms}
  BY <1>1 DEF Painted, Coloured, Calm
<1> PICK T : T = Tallied'
  OBVIOUS
<1> PICK V : V = Owing'
  OBVIOUS
<1>8. T = {}
  <2>1. Complete' = Complete /\ \A o : State(o)' = State(o)
    BY <1>1, <1>2, SameBitmap DEF Complete, At, Object
  <2>2. \A o \in Complete : State(o) # cms'
    BY <1>3, <1>6, <1>7 DEF Complete
  <2> QED BY <2>1, <2>2 DEF Tallied
<1> PICK D : D = {t \in Busy : ~At(t, "done")} /\ caught' = live_size + InFlight(D)
  BY DEF SwitchMarkState
<1>9. V = {Object(t) : t \in D}
  <2>1. \A t \in Busy : (~At(t, "done") \/ user[t].state = cms)' <=> t \in D
    BY <1>1, <1>2, <1>3, <1>6 DEF At
  <2> QED BY <1>1, <1>2, <2>1 DEF Owing, At, Object
<1>10. Summable(V) /\ InFlight(D) = Sizes(V)
  <2>1. D \in SUBSET Thread /\ D \subseteq Busy /\ IsFiniteSet(D)
    BY FS_Subset DEF Tally, Busy
  <2>2. \A t \in D : Inside(Object(t), allocated_offset)
    BY <2>1 DEF Laid, Placed
  <2>3. \A t \in D : user[t].size \in Nat
    BY <2>2 DEF Inside, Object
  <2>4. \A t, u \in D : t # u => Object(t) # Object(u)
    BY <2>1, BlocksApart DEF Blocks
  <2> QED BY <1>9, <2>1, <2>3, <2>4, InFlightIsSizes
<1>11. Sizes(V) \in Nat /\ Sizes(T) = 0
  BY <1>8, <1>10, SizesNat, SizesEmpty
<1>12. live_size' \in Nat /\ caught' = live_size' + Sizes(V)
  BY <1>1, <1>5, <1>10
<1> PICK l : l = live_size'
  OBVIOUS
<1> PICK c : c = caught'
  OBVIOUS
<1>13. Balance(T, V, l, c) /\ c \in Nat
  BY <1>11, <1>12 DEF Balance
<1>14. Balance(Tallied, Owing, live_size, caught)'
  BY <1>13 DEF Balance
<1> QED BY <1>4, <1>5, <1>13, <1>14 DEF Tally

LEMMA GCThreadKeepsTally ==
    ASSUME Typed, NEW H, Laid(H), Intact(H), Painted(H), Tally, GCThread
    PROVE  Tally'
<1>1. CASE SwitchMarkState
  BY <1>1, SwitchMarkStateKeepsTally
<1>2. CASE ~SwitchMarkState
  <2>1. UNCHANGED <<user, made, mark, early, cms>>
    BY <1>2 DEF GCThread, SwitchPhase, SwitchMarkState, beginMark, selectRelocationSet, ResumeTheWorld, endGC,
       resetLiveSize, clearUnmarked, LoadOffset, Yield, CurrentState, CurrentSize, VerifySize, Clear,
       ClearSize, MoveNext, regionVars, heapVars, history, phaseVars
  <2>2. /\ gcpc' \in Counting =>
               /\ gcpc \in Counting /\ UNCHANGED <<bitmap_arr, live_size, caught>>
               /\ gcpc' = "selected" => Busy = {}
               /\ gcpc' # "selected" => gcpc' = "mark" /\ gcpc = "sleep" /\ phase' = phase
        /\ gcpc' = "switching" => phase' = "CONCURRENT_MARK"
        /\ live_size' \in Nat /\ caught' \in Nat
    BY <1>2 DEF GCThread, SwitchPhase, SwitchMarkState, beginMark, selectRelocationSet, ResumeTheWorld, endGC,
       resetLiveSize, clearUnmarked, LoadOffset, Yield, CurrentState, CurrentSize, VerifySize, Clear,
       ClearSize, MoveNext, Iterating, Swept, regionVars, heapVars, history, phaseVars, Counting, Tally
  <2>3. Busy' = Busy
    BY <2>1, UserUnchanged
  <2>4. Stages'
    BY <2>1, <2>2, <2>3 DEF Tally, Stages, Counting
  <2>5. OneVisit' /\ (\A t \in Busy' : Born(t)') /\ IsFiniteSet(made)' /\ IsFiniteSet(Busy)'
    BY <2>1, <2>3 DEF Tally, OneVisit, Born
  <2>6. ASSUME gcpc' \in Counting PROVE Balance(Tallied, Owing, live_size, caught)'
    <3>1. \A o : State(o)' = State(o) /\ (Visiting(o)' <=> Visiting(o))
      BY <2>1, <2>2, <2>6, SameBitmap DEF Visiting
    <3>2. Complete' = Complete /\ Owing' = Owing
      BY <2>1, <2>3 DEF Complete, Owing, At, Object
    <3>3. Tallied' = Tallied
      BY <2>1, <3>1, <3>2 DEF Tallied
    <3>4. Balance(Tallied, Owing, live_size, caught)
      BY <2>2, <2>6 DEF Tally
    <3> QED BY <2>2, <2>6, <3>2, <3>3, <3>4 DEF Balance
  <2> QED BY <2>2, <2>4, <2>5, <2>6 DEF Tally
<1> QED BY <1>1, <1>2

LEMMA StillKeepsTally ==
    ASSUME Tally, Drop \/ UNCHANGED vars
    PROVE  Tally'
<1>1. UNCHANGED <<user, made, mark, early, cms, phase, gcpc, bitmap_arr, live_size, caught>>
  BY DEF Drop, vars, regionVars, heapVars, history, phaseVars
<1>2. Busy' = Busy
  BY <1>1, UserUnchanged
<1>3. Stages' /\ OneVisit' /\ (\A t \in Busy' : Born(t)') /\ IsFiniteSet(made)' /\ IsFiniteSet(Busy)'
  BY <1>1, <1>2 DEF Tally, OneVisit, Born, Stages
<1>4. \A o : State(o)' = State(o) /\ (Visiting(o)' <=> Visiting(o))
  BY <1>1, SameBitmap DEF Visiting
<1>5. Complete' = Complete /\ Owing' = Owing
  BY <1>1, <1>2 DEF Complete, Owing, At, Object
<1>6. Tallied' = Tallied
  BY <1>1, <1>4, <1>5 DEF Tallied
<1> QED BY <1>1, <1>3, <1>5, <1>6 DEF Tally, Balance

LEMMA NextTally == Sound /\ (~torn => Tally) /\ [Next]_vars => (~torn => Tally)'
<1> SUFFICES ASSUME Sound, ~torn => Tally, [Next]_vars, ~torn' PROVE Tally'
  OBVIOUS
<1>1. ~torn
  BY TornStays
<1>2. Typed /\ Tally
  BY <1>1 DEF Sound
<1> PICK H : Laid(H) /\ Intact(H) /\ Painted(H)
  BY <1>1 DEF Sound
<1>3. ASSUME NEW t \in Thread, UserStep(t) PROVE Tally'
  BY <1>2, <1>3, AllocateKeepsTally, CallKeepsTally, PublishKeepsTally, FreeKeepsTally DEF UserStep
<1>4. ASSUME NEW k \in Marker, MarkerStep(k) PROVE Tally'
  BY <1>2, <1>4, MarkerKeepsTally
<1>5. CASE GCThread
  BY <1>2, <1>5, GCThreadKeepsTally
<1>6. CASE Drop \/ UNCHANGED vars
  BY <1>2, <1>6, StillKeepsTally
<1> QED BY <1>3, <1>4, <1>5, <1>6 DEF Next

(* When the regions to evacuate are selected, the live size is at least    *)
(* the size of what is marked, and exceeds it by no more than the          *)
(* allocations that the switch of the mark state caught have added         *)
(* (GCRegion.cpp:57-70, 115-127, 317-324).                                 *)
THEOREM RegionLiveCounted == Spec => []LiveCounted
<1>1. Init => (~torn => Tally)
  BY InitTally
<1>2. Sound /\ (~torn => Tally) /\ [Next]_vars => (~torn => Tally)'
  BY NextTally
<1>3. Sound /\ (~torn => Tally) => LiveCounted
  <2> SUFFICES ASSUME Sound, Tally, ~torn, gcpc = "selected"
               PROVE  LET live == Sizes({o \in made : getMarkState(o.at) = cms})
                      IN  live <= live_size /\ live_size <= live + caught
    BY DEF LiveCounted
  <2>1. Busy = {} /\ Balance(Tallied, Owing, live_size, caught)
    BY DEF Tally, Stages, Counting
  <2>2. \A o : ~Visiting(o)
    BY DEF Sound, Painted, Visits, Visiting, Marking
  <2>3. Tallied = {o \in made : getMarkState(o.at) = cms}
    BY <2>1, <2>2 DEF Tallied, Complete, State
  <2> QED BY <2>1, <2>3 DEF Balance
<1>4. Spec => []Sound
  BY SoundThroughout
<1> QED BY <1>1, <1>2, <1>3, <1>4, PTL DEF Spec
=============================================================================
