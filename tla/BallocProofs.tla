---------------------------- MODULE BallocProofs ----------------------------
(***************************************************************************)
(* What the allocator guarantees for every number of callers, groups and   *)
(* bits: single blocks are never given out twice, space is lost only at    *)
(* bit 0, the free count of a group is exact, an extent lies within its    *)
(* group, and the counter of the superblock settles.                       *)
(*                                                                         *)
(* None is inductive.  A single block is new because its bit was zero, so  *)
(* the bits of all extents in use have to be set (Marked); the room behind *)
(* a first zero bit comes from the count of free bits and the cover of the *)
(* set ones (Covered, Counted); and s_free_blocks lags behind by what the  *)
(* callers on their way still owe (Settling).                              *)
(***************************************************************************)
EXTENDS Balloc, FiniteSetTheorems, TLAPS

Arguments == [count : Requests \cup {0}, hint : AGs, ag : AGs, id : Nat]
AnyExtent == [id : Nat, ag : AGs, bit : Bit, len : Requests]

Shape ==
    /\ ab_bitmap \in [AGs -> SUBSET Int]
    /\ pc \in [Callers -> {"idle", "try", "take", "taken", "give", "given"}]
    /\ call \in [Callers -> Arguments]
    /\ \A c \in Callers : pc[c] = "try" => call[c].count \in Requests
    /\ granted \subseteq AnyExtent /\ lost \subseteq AnyExtent /\ grants \in Nat
    /\ multi \in BOOLEAN

(* A bit that is set has an extent it was set for.                         *)
Covered ==
    \A g \in AGs : \A b \in ab_bitmap[g] : \E x \in granted \cup lost : x.ag = g /\ b \in Span(x)

(* While only single blocks are asked for.                                 *)
Marked ==
    ~multi =>
        /\ \A c \in Callers : pc[c] = "try" => call[c].count = 1
        /\ \A x \in granted : x.len = 1 /\ x.bit \in ab_bitmap[x.ag]
        /\ \A x, y \in granted : x.ag = y.ag /\ x.bit = y.bit => x = y

BallocInv == Shape /\ Covered /\ Marked

-----------------------------------------------------------------------------
(* Group and bit are recovered from a block number.                        *)
LEMMA Roundtrip ==
    ASSUME NEW g \in AGs, NEW b \in Bit
    PROVE  AgOf(Address(g, b)) = g /\ BitOf(Address(g, b)) = b
<1>1. g \in Nat /\ b \in 0 .. (PerGroup - 1) /\ PerGroup \in Nat \ {0} /\ DataStart \in Nat
  BY BallocAssumption DEF AGs, Bit
<1>2. (b + g * PerGroup) \div PerGroup = g /\ (b + g * PerGroup) % PerGroup = b
  BY <1>1
<1>3. Address(g, b) - DataStart = b + g * PerGroup
  BY <1>1 DEF Address
<1> QED
  BY <1>2, <1>3 DEF AgOf, BitOf

(* The group tried is one of the groups.                                   *)
LEMMA TryInRange == ASSUME Shape, NEW c \in Callers PROVE try_ag(c) \in AGs
<1>1. call[c].hint \in Nat /\ call[c].ag \in Nat /\ Groups \in Nat \ {0}
  BY BallocAssumption DEF Shape, Arguments, AGs
<1> QED
  BY <1>1 DEF try_ag, AGs

(* In the beginning no bit is set and nothing is given out.                *)
LEMMA InitBalloc == Init => BallocInv
<1> SUFFICES ASSUME Init PROVE BallocInv
  OBVIOUS
<1>1. Call(0, 0) \in Arguments
  BY BallocAssumption DEF Call, Arguments, AGs
<1> QED
  BY <1>1 DEF Init, BallocInv, Shape, Covered, Marked
-----------------------------------------------------------------------------
(* A caller begins with the number of blocks it asks for.                  *)
LEMMA AllocStep ==
    ASSUME BallocInv, NEW c \in Callers, NEW n \in Requests, NEW h \in 0 .. Groups,
           alloc_blocks_extended(c, n, h)
    PROVE  BallocInv'
<1> DEFINE k == Call(n, IF h >= Groups THEN 0 ELSE h)
<1>1. k \in Arguments /\ k.count = n
  BY BallocAssumption DEF Call, Arguments, AGs
<1>2. call' = [call EXCEPT ![c] = k] /\ pc' = [pc EXCEPT ![c] = "try"]
  BY DEF alloc_blocks_extended
<1> HIDE DEF k
<1>3. UNCHANGED << ab_bitmap, granted, grants, lost >> /\ multi' = (multi \/ n > 1)
  BY DEF alloc_blocks_extended, bitmaps
<1>4. \A d \in Callers : /\ call'[d] = IF d = c THEN k ELSE call[d]
                         /\ pc'[d] = IF d = c THEN "try" ELSE pc[d]
  BY <1>2 DEF BallocInv, Shape
<1>5. Shape'
  BY <1>1, <1>2, <1>3, <1>4 DEF BallocInv, Shape
<1>6. Covered'
  BY <1>3 DEF BallocInv, Covered
<1>7. Marked'
  <2>1. n > 1 \/ n = 1
    BY BallocAssumption
  <2> QED
    BY <1>1, <1>3, <1>4, <2>1 DEF BallocInv, Marked
<1> QED
  BY <1>5, <1>6, <1>7 DEF BallocInv

(* The first zero bit is given out: it belongs to no extent in use.        *)
LEMMA GrantStep ==
    ASSUME BallocInv, NEW c \in Callers, NEW b \in Bit, Grant(c, b) PROVE BallocInv'
<1> DEFINE g == try_ag(c)
           n == call[c].count
           new == Extent(grants + 1, g, b, n)
<1>1. g \in AGs /\ n \in Requests /\ grants \in Nat /\ b \notin ab_bitmap[g]
  BY TryInRange DEF BallocInv, Shape, Grant, IsFirstZero, ZeroBits
<1>2. /\ new \in AnyExtent /\ new.ag = g /\ new.bit = b /\ new.len = n
      /\ Span(new) = b .. (b + n - 1)
  BY <1>1 DEF Extent, AnyExtent, Span
<1>3. /\ ab_bitmap' = [ab_bitmap EXCEPT ![g] = @ \cup Span(new)]
      /\ granted' = granted \cup {new}
      /\ UNCHANGED << lost, multi >> /\ grants' = grants + 1
  BY <1>2 DEF Grant
<1>4. /\ pc' = [pc EXCEPT ![c] = "take"]
      /\ call' = [call EXCEPT ![c].id = grants + 1]
      /\ pc[c] = "try"
  BY DEF Grant
<1> HIDE DEF new, g, n
<1>5. n \in Nat /\ n >= 1 /\ b \in Nat
  BY <1>1, BallocAssumption DEF Bit
<1>6. b \in Span(new) /\ Span(new) \subseteq Int
  BY <1>2, <1>5
<1>7. Shape'
  <2>1. ab_bitmap' \in [AGs -> SUBSET Int]
    BY <1>1, <1>3, <1>6 DEF BallocInv, Shape
  <2>2. call' \in [Callers -> Arguments]
    <3>1. [call[c] EXCEPT !.id = grants + 1] \in Arguments
      BY <1>1 DEF BallocInv, Shape, Arguments
    <3> QED
      BY <1>4, <3>1 DEF BallocInv, Shape
  <2>3. \A d \in Callers : pc'[d] = "try" => call'[d].count \in Requests
    BY <1>4 DEF BallocInv, Shape
  <2> QED
    BY <1>2, <1>3, <1>4, <2>1, <2>2, <2>3 DEF BallocInv, Shape
<1>8. \A h \in AGs : ab_bitmap'[h] = IF h = g THEN ab_bitmap[h] \cup Span(new) ELSE ab_bitmap[h]
  BY <1>1, <1>3 DEF BallocInv, Shape
<1>9. Covered'
  <2> SUFFICES ASSUME NEW h \in AGs, NEW z \in ab_bitmap'[h]
               PROVE  \E x \in granted' \cup lost' : x.ag = h /\ z \in Span(x)
    BY DEF Covered
  <2>1. CASE z \in ab_bitmap[h]
    <3>1. PICK x \in granted \cup lost : x.ag = h /\ z \in Span(x)
      BY <2>1 DEF BallocInv, Covered
    <3> QED
      BY <1>3, <3>1
  <2>2. CASE h = g /\ z \in Span(new)
    BY <1>2, <1>3, <2>2
  <2> QED
    BY <1>8, <2>1, <2>2
<1>10. Marked'
  <2> SUFFICES ASSUME ~multi PROVE Marked'
    BY <1>3 DEF Marked
  <2>1. n = 1 /\ \A d \in Callers : pc'[d] = "try" => call'[d].count = 1
    BY <1>4 DEF BallocInv, Marked, Shape, n
  <2>2. \A x \in granted : x.ag \in AGs /\ x.len = 1 /\ x.bit \in ab_bitmap[x.ag]
    BY DEF BallocInv, Shape, Marked, AnyExtent
  <2>3. \A x \in granted' : x.len = 1 /\ x.bit \in ab_bitmap'[x.ag]
    <3>1. new.len = 1 /\ new.bit \in ab_bitmap'[new.ag]
      BY <1>1, <1>2, <1>6, <1>8, <2>1
    <3>2. \A x \in granted : x.len = 1 /\ x.bit \in ab_bitmap'[x.ag]
      BY <1>8, <2>2
    <3> QED
      BY <1>3, <3>1, <3>2
  <2>4. \A x \in granted : ~(x.ag = new.ag /\ x.bit = new.bit)
    BY <1>1, <1>2, <2>2
  <2>5. \A x, y \in granted' : x.ag = y.ag /\ x.bit = y.bit => x = y
    BY <1>3, <2>4 DEF BallocInv, Marked
  <2> QED
    BY <2>1, <2>3, <2>5 DEF Marked
<1> QED
  BY <1>7, <1>9, <1>10 DEF BallocInv

(* Freeing clears the bits of that extent only, or none at all.            *)
LEMMA FreeStep ==
    ASSUME BallocInv, NEW c \in Callers, NEW x \in granted, free_blocks_extended(c, x)
    PROVE  BallocInv'
<1>1. x \in AnyExtent /\ x.ag \in AGs /\ x.bit \in Bit /\ x.len \in Requests
  BY DEF BallocInv, Shape, AnyExtent
<1>2. AgOf(Address(x.ag, x.bit)) = x.ag /\ BitOf(Address(x.ag, x.bit)) = x.bit
  BY <1>1, Roundtrip
<1>3. /\ ab_bitmap' = [ab_bitmap EXCEPT ![x.ag] = @ \ ClearedBits(x.bit, x.len)]
      /\ granted' = granted \ {x} /\ UNCHANGED << grants, multi >>
      /\ lost' = IF x.bit = 0 THEN lost \cup {x} ELSE lost
  BY <1>2 DEF free_blocks_extended
<1>4. call' = [call EXCEPT ![c] = Call(x.len, 0)] /\ pc' = [pc EXCEPT ![c] = "give"]
  BY DEF free_blocks_extended
<1>5. Shape'
  <2>1. Call(x.len, 0) \in Arguments
    BY <1>1, BallocAssumption DEF Call, Arguments, AGs
  <2>2. ab_bitmap' \in [AGs -> SUBSET Int]
    BY <1>1, <1>3 DEF BallocInv, Shape
  <2>3. \A d \in Callers : pc'[d] = "try" => call'[d].count \in Requests
    BY <1>4 DEF BallocInv, Shape
  <2> QED
    BY <1>1, <1>3, <1>4, <2>1, <2>2, <2>3 DEF BallocInv, Shape
<1>6. \A h \in AGs : ab_bitmap'[h] = IF h = x.ag THEN ab_bitmap[h] \ ClearedBits(x.bit, x.len)
                                                 ELSE ab_bitmap[h]
  BY <1>1, <1>3 DEF BallocInv, Shape
<1>7. Covered'
  <2> SUFFICES ASSUME NEW h \in AGs, NEW z \in ab_bitmap'[h]
               PROVE  \E y \in granted' \cup lost' : y.ag = h /\ z \in Span(y)
    BY DEF Covered
  <2>1. z \in ab_bitmap[h] /\ (h = x.ag => z \notin ClearedBits(x.bit, x.len))
    BY <1>6
  <2>2. PICK y \in granted \cup lost : y.ag = h /\ z \in Span(y)
    BY <2>1 DEF BallocInv, Covered
  <2>3. y = x => x.bit = 0
    BY <2>1, <2>2 DEF ClearedBits, Span
  <2>4. y \in granted' \cup lost'
    BY <1>3, <2>3
  <2> QED
    BY <2>2, <2>4
<1>8. Marked'
  <2> SUFFICES ASSUME ~multi PROVE Marked'
    BY <1>3 DEF Marked
  <2>1. \A d \in Callers : pc'[d] = "try" => call'[d].count = 1
    BY <1>4 DEF BallocInv, Shape, Marked
  <2>2. x.len = 1 /\ x.bit \in Int
    BY <1>1 DEF BallocInv, Marked, Bit
  <2>3. ClearedBits(x.bit, x.len) \subseteq {x.bit}
    BY <2>2 DEF ClearedBits
  <2>4. ASSUME NEW y \in granted' PROVE y.len = 1 /\ y.bit \in ab_bitmap'[y.ag]
    <3>1. /\ y \in granted /\ y # x /\ y.ag \in AGs /\ y.len = 1
          /\ y.bit \in ab_bitmap[y.ag]
      BY <1>3 DEF BallocInv, Shape, Marked, AnyExtent
    <3>2. y.ag = x.ag => y.bit # x.bit
      BY <3>1 DEF BallocInv, Marked
    <3> QED
      BY <1>6, <2>3, <3>1, <3>2
  <2>5. \A y, z \in granted' : y.ag = z.ag /\ y.bit = z.bit => y = z
    BY <1>3 DEF BallocInv, Marked
  <2> QED
    BY <2>1, <2>4, <2>5 DEF Marked
<1> QED
  BY <1>5, <1>7, <1>8 DEF BallocInv

(* A group without room, and the update of the free counter, leave the     *)
(* bitmaps alone.                                                          *)
LEMMA OtherStep ==
    ASSUME BallocInv, NEW c \in Callers, NoSpace(c) \/ ReadCount(c) \/ WriteCount(c)
    PROVE  BallocInv'
<1>1. UNCHANGED << ab_bitmap, granted, grants, lost, multi >>
  BY DEF NoSpace, ReadCount, WriteCount, bitmaps
<1>2. Call(0, 0) \in Arguments
  BY BallocAssumption DEF Call, Arguments, AGs
<1>3. pc' \in [Callers -> {"idle", "try", "take", "taken", "give", "given"}]
  BY DEF BallocInv, Shape, NoSpace, ReadCount, WriteCount
<1>4. call' \in [Callers -> Arguments]
  <2>1. CASE call' = call \/ call' = [call EXCEPT ![c] = Call(0, 0)]
    BY <1>2, <2>1 DEF BallocInv, Shape
  <2>2. CASE call[c].ag + 1 < Groups /\ call' = [call EXCEPT ![c].ag = @ + 1]
    <3>1. call[c] \in Arguments /\ call[c].ag + 1 \in AGs
      BY <2>2, BallocAssumption DEF BallocInv, Shape, Arguments, AGs
    <3>2. [call[c] EXCEPT !.ag = call[c].ag + 1] \in Arguments
      BY <3>1 DEF Arguments
    <3> QED
      BY <2>2, <3>2 DEF BallocInv, Shape
  <2> QED
    BY <2>1, <2>2 DEF NoSpace, ReadCount, WriteCount
<1>5. \A d \in Callers : pc'[d] = "try" => pc[d] = "try" /\ call'[d].count = call[d].count
  BY DEF BallocInv, Shape, NoSpace, ReadCount, WriteCount, Arguments
<1>6. Shape'
  BY <1>1, <1>3, <1>4, <1>5 DEF BallocInv, Shape
<1>7. Covered' /\ Marked'
  BY <1>1, <1>5 DEF BallocInv, Covered, Marked
<1> QED
  BY <1>6, <1>7 DEF BallocInv

(* Every step keeps the invariant.                                         *)
LEMMA BallocStep == BallocInv /\ [Next]_vars => BallocInv'
<1> SUFFICES ASSUME BallocInv, [Next]_vars PROVE BallocInv'
  OBVIOUS
<1>1. CASE UNCHANGED vars
  BY <1>1 DEF vars, bitmaps, BallocInv, Shape, Covered, Marked
<1>2. CASE Next
  BY <1>2, AllocStep, GrantStep, FreeStep, OtherStep DEF Next
<1> QED
  BY <1>1, <1>2

-----------------------------------------------------------------------------
(***************************************************************************)
(* As long as aetherfs_alloc_blocks_extended is asked for single blocks,   *)
(* no block belongs to two extents in use, whatever the callers do.        *)
(***************************************************************************)
THEOREM SinglesNeverShared == Spec => []SinglesDisjoint
<1>1. BallocInv => SinglesDisjoint
  <2> SUFFICES ASSUME BallocInv, ~multi, NEW x \in granted, NEW y \in granted, x # y,
                      NEW a \in Blocks(x), a \in Blocks(y)
               PROVE  FALSE
    BY DEF SinglesDisjoint, NoDoubleAllocation
  <2>1. /\ x.ag \in AGs /\ x.bit \in Bit /\ x.len = 1
        /\ y.ag \in AGs /\ y.bit \in Bit /\ y.len = 1
    BY DEF BallocInv, Shape, Marked, AnyExtent
  <2>2. Span(x) = {x.bit} /\ Span(y) = {y.bit}
    BY <2>1 DEF Span, Bit
  <2>3. a = Address(x.ag, x.bit) /\ a = Address(y.ag, y.bit)
    BY <2>2 DEF Blocks
  <2>4. /\ AgOf(Address(x.ag, x.bit)) = x.ag /\ BitOf(Address(x.ag, x.bit)) = x.bit
        /\ AgOf(Address(y.ag, y.bit)) = y.ag /\ BitOf(Address(y.ag, y.bit)) = y.bit
    BY ONLY <2>1, Roundtrip
  <2>5. x.ag = y.ag /\ x.bit = y.bit
    BY ONLY <2>3, <2>4
  <2> QED
    BY <2>5 DEF BallocInv, Marked
<1> QED
  BY <1>1, InitBalloc, BallocStep, PTL DEF Spec

(***************************************************************************)
(* Every set bit belongs to an extent in use or to one that began at bit 0 *)
(* and that ag_bitmap_free refused to free, also when extents overlap.     *)
(***************************************************************************)
THEOREM NoOtherLoss == Spec => []LossOnlyAtFirstBit
<1>1. BallocInv => LossOnlyAtFirstBit
  BY DEF BallocInv, Covered, LossOnlyAtFirstBit, OfGroup
<1> QED
  BY <1>1, InitBalloc, BallocStep, PTL DEF Spec
-----------------------------------------------------------------------------
(***************************************************************************)
(* The free counts of the groups.  What is in use or lost is counted block *)
(* by block (Held); an id is never given twice, so a new extent is new.    *)
(***************************************************************************)
Taken == granted \cup lost

Counted ==
    /\ IsFiniteSet(Held(Taken))
    /\ \A x \in Taken : x.id <= grants
    /\ \A x \in lost : x.bit = 0
    /\ ab_free \in [AGs -> 0 .. Bits]
    /\ FreeCountExact /\ GrantsInGroup

(* A row of pairs with a new first component adds its length.              *)
LEMMA AddRow ==
    ASSUME NEW old, IsFiniteSet(old), NEW x, NEW row, IsFiniteSet(row),
           \A p \in old : p[1] # x
    PROVE  /\ IsFiniteSet(old \cup ({x} \X row)) /\ Cardinality(old) \in Nat
           /\ Cardinality(old \cup ({x} \X row)) = Cardinality(old) + Cardinality(row)
<1> DEFINE new == {x} \X row
<1>1. IsFiniteSet({x}) /\ Cardinality({x}) = 1
  BY FS_Singleton
<1>2. old \cap new = {}
  OBVIOUS
<1>3. IsFiniteSet(new) /\ Cardinality(new) = Cardinality({x}) * Cardinality(row)
  BY <1>1, FS_Product
<1>4. /\ Cardinality(old) \in Nat /\ Cardinality(row) \in Nat /\ Cardinality({}) = 0
  BY FS_CardinalityType, FS_EmptySet
<1>5. Cardinality(new) = Cardinality(row)
  BY <1>1, <1>3, <1>4
<1> HIDE DEF new
<1>6. /\ IsFiniteSet(old \cup new)
      /\ Cardinality(old \cup new) = Cardinality(old) + Cardinality(new) - Cardinality({})
  BY <1>2, <1>3, FS_Union
<1>7. Cardinality(old \cup new) = Cardinality(old) + Cardinality(row)
  BY <1>4, <1>5, <1>6
<1> QED
  BY <1>4, <1>6, <1>7 DEF new

(* One more extent: its blocks are added to the total.                     *)
LEMMA AddTotal ==
    ASSUME NEW xs, IsFiniteSet(Held(xs)), NEW x \in AnyExtent, x \notin xs
    PROVE  /\ IsFiniteSet(Held(xs \cup {x})) /\ Total(xs) \in Nat
           /\ Total(xs \cup {x}) = Total(xs) + x.len
<1>1. x.bit \in Int /\ x.len \in Nat
  <2>1. x.bit \in Bit /\ x.len \in Requests
    BY DEF AnyExtent
  <2>2. Requests \subseteq Nat /\ Bit \subseteq Int
    BY BallocAssumption DEF Bit
  <2> QED
    BY <2>1, <2>2
<1>2. IsFiniteSet(Span(x)) /\ Cardinality(Span(x)) = x.len
  BY <1>1, FS_Interval DEF Span
<1>3. Held(xs \cup {x}) = Held(xs) \cup ({x} \X Span(x))
  BY DEF Held
<1>4. \A p \in Held(xs) : p[1] # x
  BY DEF Held
<1>5. /\ IsFiniteSet(Held(xs) \cup ({x} \X Span(x))) /\ Cardinality(Held(xs)) \in Nat
      /\ Cardinality(Held(xs) \cup ({x} \X Span(x))) = Cardinality(Held(xs)) + Cardinality(Span(x))
  BY ONLY <1>2, <1>4, IsFiniteSet(Held(xs)), AddRow
<1> QED
  BY <1>2, <1>3, <1>5 DEF Total

(* One extent less.                                                        *)
LEMMA RemoveTotal ==
    ASSUME NEW xs, IsFiniteSet(Held(xs)), NEW x \in xs, x \in AnyExtent
    PROVE  /\ IsFiniteSet(Held(xs \ {x})) /\ Total(xs \ {x}) \in Nat
           /\ Total(xs \ {x}) = Total(xs) - x.len
<1>1. Held(xs \ {x}) \subseteq Held(xs)
  BY DEF Held
<1>2. IsFiniteSet(Held(xs \ {x}))
  BY <1>1, FS_Subset
<1>3. (xs \ {x}) \cup {x} = xs
  OBVIOUS
<1>4. x.len \in Nat
  BY BallocAssumption DEF AnyExtent
<1> QED
  BY <1>2, <1>3, <1>4, AddTotal

(* The blocks of part of the extents.                                      *)
LEMMA PartTotal ==
    ASSUME NEW xs, IsFiniteSet(Held(xs)), NEW ys \in SUBSET xs
    PROVE  IsFiniteSet(Held(ys)) /\ Total(ys) \in Nat
<1>1. Held(ys) \subseteq Held(xs)
  BY DEF Held
<1> QED
  BY <1>1, FS_Subset, FS_CardinalityType DEF Total

(***************************************************************************)
(* The first zero bit has at least as many blocks before it in the extents *)
(* of the group: what is left behind it is enough.                         *)
(***************************************************************************)
LEMMA RoomAfterFirstZero ==
    ASSUME BallocInv, Counted, NEW g \in AGs, NEW b \in Bit, IsFirstZero(g, b),
           NEW n \in Requests, HasRoom(g, n)
    PROVE  b + n <= Bits
<1> DEFINE below == 0 .. (b - 1)
           held == Held(OfGroup(Taken, g))
<1>1. b \in Nat /\ n \in Nat /\ Bits \in Nat /\ b < Bits
  BY BallocAssumption DEF Bit
<1>2. below \subseteq ab_bitmap[g]
  BY <1>1 DEF IsFirstZero, ZeroBits, Bit
<1>3. \A z \in below : \E p \in held : p[2] = z
  <2> SUFFICES ASSUME NEW z \in below PROVE \E p \in held : p[2] = z
    OBVIOUS
  <2>1. PICK x \in Taken : x.ag = g /\ z \in Span(x)
    BY <1>2 DEF BallocInv, Covered, Taken
  <2>2. << x, z >> \in held
    BY <2>1 DEF Held, OfGroup
  <2> QED
    BY <2>2
<1>4. IsFiniteSet(held) /\ Cardinality(held) \in Nat
  BY PartTotal DEF Counted, OfGroup, Total
<1>5. Cardinality(below) <= Cardinality(held)
  <2> DEFINE f == [z \in below |-> CHOOSE p \in held : p[2] = z]
  <2>1. \A z \in below : f[z] \in held /\ f[z][2] = z
    BY <1>3
  <2>2. f \in [below -> held]
    BY <2>1
  <2>3. f \in Injection(below, held)
    BY <2>1, <2>2 DEF Injection, IsInjective
  <2> QED
    BY <1>4, <2>3, FS_Injection
<1>6. Cardinality(below) = b
  BY <1>1, FS_Interval
<1>7. ab_free[g] = Bits - Cardinality(held) /\ ab_free[g] >= n
  BY DEF Counted, FreeCountExact, Total, Taken, HasRoom
<1> QED
  BY <1>1, <1>4, <1>5, <1>6, <1>7
(* Nothing is taken in the beginning.                                      *)
LEMMA InitCounted == Init => Counted
<1> SUFFICES ASSUME Init PROVE Counted
  OBVIOUS
<1>1. Taken = {} /\ Held({}) = {}
  BY DEF Init, Taken, Held
<1>2. IsFiniteSet(Held(Taken)) /\ Cardinality({}) = 0
  BY <1>1, FS_EmptySet
<1>3. \A g \in AGs : OfGroup(granted \cup lost, g) = {}
  BY DEF Init, OfGroup
<1>4. FreeCountExact
  BY <1>1, <1>2, <1>3, BallocAssumption DEF Init, FreeCountExact, Total
<1> QED
  BY <1>1, <1>2, <1>4, BallocAssumption DEF Init, Counted, GrantsInGroup

(* A grant takes as many free bits as it has blocks.                       *)
LEMMA GrantCounted ==
    ASSUME BallocInv, Counted, NEW c \in Callers, NEW b \in Bit, Grant(c, b) PROVE Counted'
<1> DEFINE g == try_ag(c)
           n == call[c].count
           new == Extent(grants + 1, g, b, n)
<1>1. g \in AGs /\ n \in Requests /\ grants \in Nat
  BY TryInRange DEF BallocInv, Shape, Grant
<1>2. n \in Nat /\ b \in Nat /\ Bits \in Nat
  <2>1. Requests \subseteq Nat /\ Bit \subseteq Nat /\ Bits \in Nat
    BY BallocAssumption DEF Bit
  <2> QED
    BY <1>1, <2>1
<1>3. /\ new \in AnyExtent /\ new.ag = g /\ new.bit = b /\ new.len = n
      /\ new.id = grants + 1
  BY <1>1 DEF Extent, AnyExtent
<1>4. /\ granted' = granted \cup {new} /\ lost' = lost /\ grants' = grants + 1
      /\ ab_free' = [ab_free EXCEPT ![g] = @ - n] /\ ab_free[g] >= n
  BY DEF Grant, HasRoom
<1>5. b + n <= Bits
  BY <1>1, RoomAfterFirstZero DEF Grant
<1> HIDE DEF new, g, n
<1>6. Taken' = Taken \cup {new} /\ new \notin Taken
  BY <1>1, <1>3, <1>4 DEF Counted, Taken
<1>7. IsFiniteSet(Held(Taken'))
  BY <1>3, <1>6, AddTotal DEF Counted
<1>8. \A x \in Taken' : x.id <= grants'
  <2>1. \A x \in Taken : x.id \in Nat /\ x.id <= grants
    BY DEF Counted, BallocInv, Shape, AnyExtent, Taken
  <2> QED
    BY <1>1, <1>3, <1>4, <1>6, <2>1
<1>9. ASSUME NEW h \in AGs
      PROVE  /\ ab_free'[h] \in 0 .. Bits
             /\ ab_free'[h] = Bits - Total(OfGroup(Taken', h))
  <2>1. ab_free[h] \in 0 .. Bits /\ ab_free[h] = Bits - Total(OfGroup(Taken, h))
    BY DEF Counted, FreeCountExact, Taken
  <2>2. CASE h = g
    <3>1. OfGroup(Taken', h) = OfGroup(Taken, h) \cup {new} /\ new \notin OfGroup(Taken, h)
      BY <1>3, <1>6, <2>2 DEF OfGroup
    <3>2. IsFiniteSet(Held(OfGroup(Taken, h)))
      BY PartTotal DEF Counted, OfGroup
    <3>3. /\ Total(OfGroup(Taken', h)) = Total(OfGroup(Taken, h)) + n
          /\ Total(OfGroup(Taken, h)) \in Nat
      BY <1>3, <3>1, <3>2, AddTotal
    <3>4. ab_free'[h] = ab_free[h] - n
      BY <1>1, <1>4, <2>2 DEF Counted
    <3> QED
      BY <1>2, <1>4, <2>1, <2>2, <3>3, <3>4
  <2>3. CASE h # g
    <3>1. OfGroup(Taken', h) = OfGroup(Taken, h)
      BY <1>3, <1>6, <2>3 DEF OfGroup
    <3>2. ab_free'[h] = ab_free[h]
      BY <1>4, <2>3 DEF Counted
    <3> QED
      BY <2>1, <3>1, <3>2
  <2> QED
    BY <2>2, <2>3
<1>10. ab_free' \in [AGs -> 0 .. Bits]
  <2>1. DOMAIN ab_free' = AGs /\ ab_free' = [h \in AGs |-> ab_free'[h]]
    BY <1>4 DEF Counted
  <2> QED
    BY <1>9, <2>1
<1>11. FreeCountExact'
  BY <1>9 DEF FreeCountExact, Taken
<1>12. GrantsInGroup'
  BY <1>3, <1>4, <1>5 DEF GrantsInGroup, Counted
<1> QED
  BY <1>4, <1>7, <1>8, <1>10, <1>11, <1>12 DEF Counted
(* Freeing gives its blocks back, unless it began at bit 0 and is lost.    *)
LEMMA FreeCounted ==
    ASSUME BallocInv, Counted, NEW c \in Callers, NEW x \in granted, free_blocks_extended(c, x)
    PROVE  Counted'
<1>1. x \in AnyExtent /\ x.ag \in AGs /\ x.bit \in Bit /\ x.len \in Requests /\ x \in Taken
  BY DEF BallocInv, Shape, AnyExtent, Taken
<1>2. x.len \in Nat /\ Bits \in Nat
  <2>1. Requests \subseteq Nat /\ Bits \in Nat
    BY BallocAssumption
  <2> QED
    BY <1>1, <2>1
<1>3. AgOf(Address(x.ag, x.bit)) = x.ag /\ BitOf(Address(x.ag, x.bit)) = x.bit
  BY <1>1, Roundtrip
<1>4. /\ ab_free' = [ab_free EXCEPT ![x.ag] = @ + Returned(x.bit, x.len)]
      /\ granted' = granted \ {x} /\ grants' = grants
      /\ lost' = IF x.bit = 0 THEN lost \cup {x} ELSE lost
  BY <1>3 DEF free_blocks_extended
<1>5. GrantsInGroup' /\ \A y \in lost' : y.bit = 0
  BY <1>4 DEF Counted, GrantsInGroup
<1>6. CASE x.bit = 0
  <2>1. Taken' = Taken /\ Returned(x.bit, x.len) = 0
    BY <1>4, <1>6 DEF Taken, Returned
  <2>2. ab_free' = ab_free
    <3>1. \A h \in AGs : ab_free'[h] = ab_free[h]
      BY <1>4, <2>1 DEF Counted
    <3> QED
      BY <1>4, <3>1 DEF Counted
  <2> QED
    BY <1>4, <1>5, <2>1, <2>2 DEF Counted, FreeCountExact, Taken
<1>7. CASE x.bit # 0
  <2>1. Taken' = Taken \ {x} /\ Returned(x.bit, x.len) = x.len
    BY <1>4, <1>7 DEF Taken, Returned, Counted
  <2>2. IsFiniteSet(Held(Taken'))
    BY <1>1, <2>1, RemoveTotal DEF Counted
  <2>3. ASSUME NEW h \in AGs
        PROVE  /\ ab_free'[h] \in 0 .. Bits
               /\ ab_free'[h] = Bits - Total(OfGroup(Taken', h))
    <3>1. ab_free[h] \in 0 .. Bits /\ ab_free[h] = Bits - Total(OfGroup(Taken, h))
      BY DEF Counted, FreeCountExact, Taken
    <3>2. CASE h = x.ag
      <4>1. OfGroup(Taken', h) = OfGroup(Taken, h) \ {x} /\ x \in OfGroup(Taken, h)
        BY <1>1, <2>1, <3>2 DEF OfGroup
      <4>2. IsFiniteSet(Held(OfGroup(Taken, h))) /\ Total(OfGroup(Taken, h)) \in Nat
        BY PartTotal DEF Counted, OfGroup
      <4>3. /\ Total(OfGroup(Taken', h)) = Total(OfGroup(Taken, h)) - x.len
            /\ Total(OfGroup(Taken', h)) \in Nat
        BY <1>1, <4>1, <4>2, RemoveTotal
      <4>4. ab_free'[h] = ab_free[h] + x.len
        BY <1>1, <1>4, <2>1, <3>2 DEF Counted
      <4> QED
        BY <1>2, <3>1, <4>2, <4>3, <4>4
    <3>3. CASE h # x.ag
      <4>1. OfGroup(Taken', h) = OfGroup(Taken, h)
        BY <2>1, <3>3 DEF OfGroup
      <4>2. ab_free'[h] = ab_free[h]
        BY <1>4, <3>3 DEF Counted
      <4> QED
        BY <3>1, <4>1, <4>2
    <3> QED
      BY <3>2, <3>3
  <2>4. ab_free' \in [AGs -> 0 .. Bits]
    <3>1. DOMAIN ab_free' = AGs /\ ab_free' = [h \in AGs |-> ab_free'[h]]
      BY <1>4 DEF Counted
    <3> QED
      BY <2>3, <3>1
  <2>5. FreeCountExact'
    BY <2>3 DEF FreeCountExact, Taken
  <2> QED
    BY <1>4, <1>5, <2>1, <2>2, <2>4, <2>5 DEF Counted
<1> QED
  BY <1>6, <1>7

(* Every step keeps the counts.                                            *)
LEMMA CountedStep == BallocInv /\ Counted /\ [Next]_vars => Counted'
<1> SUFFICES ASSUME BallocInv, Counted, [Next]_vars PROVE Counted'
  OBVIOUS
<1>1. CASE UNCHANGED bitmaps
  BY <1>1 DEF bitmaps, Counted, Taken, FreeCountExact, GrantsInGroup
<1>2. ASSUME NEW c \in Callers, NEW b \in Bit, Grant(c, b) PROVE Counted'
  BY <1>2, GrantCounted
<1>3. ASSUME NEW c \in Callers, NEW x \in granted, free_blocks_extended(c, x) PROVE Counted'
  BY <1>3, FreeCounted
<1> QED
  BY <1>1, <1>2, <1>3
  DEF Next, vars, alloc_blocks_extended, NoSpace, ReadCount, WriteCount

-----------------------------------------------------------------------------
(***************************************************************************)
(* The free count of every group is the number of its bits less the blocks *)
(* in use or lost: ag_bitmap_alloc and ag_bitmap_free count every block of *)
(* an extent once, also those whose bit another extent had set.            *)
(***************************************************************************)
THEOREM GroupCountsExact == Spec => []FreeCountExact
<1>1. Counted => FreeCountExact
  BY DEF Counted
<1> QED
  BY <1>1, InitBalloc, BallocStep, InitCounted, CountedStep, PTL DEF Spec

(***************************************************************************)
(* bitmap_set stays within the bitmap: ag_bitmap_alloc checks the count of *)
(* free bits only, and that is enough, because the bits before the first   *)
(* zero one are accounted for.                                             *)
(***************************************************************************)
THEOREM GrantsStayInGroup == Spec => []GrantsInGroup
<1>1. Counted => GrantsInGroup
  BY DEF Counted
<1> QED
  BY <1>1, InitBalloc, BallocStep, InitCounted, CountedStep, PTL DEF Spec
-----------------------------------------------------------------------------
(* The arguments of a call, with the id of an extent that was granted.     *)
TypedCall == [count : Requests \cup {0}, hint : AGs, ag : AGs, id : 0 .. MaxGrants]

(* Taking a value modulo W changes it by a multiple of W.                  *)
LEMMA Wrap ==
    ASSUME NEW a \in Int
    PROVE  a % W \in 0 .. (W - 1) /\ \E k \in Int : a % W = a + k * W
<1>1. W \in Nat \ {0}
  BY BallocAssumption
<1>2. a = W * (a \div W) + (a % W) /\ a \div W \in Int /\ a % W \in 0 .. (W - 1)
  BY <1>1
<1>3. a % W = a + (0 - (a \div W)) * W
  BY <1>1, <1>2
<1> QED
  BY <1>2, <1>3

(* A value of the counter's type that differs from a by a multiple of W is *)
(* a modulo W.                                                             *)
LEMMA Unwrap ==
    ASSUME NEW a \in Int, NEW k \in Int, a + k * W \in 0 .. (W - 1)
    PROVE  a + k * W = a % W
<1> DEFINE s == a + k * W
           j == 0 - k
<1>1. W \in Nat \ {0}
  BY BallocAssumption
<1>2. s \in 0 .. (W - 1) /\ j \in Int /\ a = s + j * W
  BY <1>1
<1> HIDE DEF s, j
<1>3. (s + j * W) % W = s
  BY <1>1, <1>2
<1> QED
  BY <1>2, <1>3 DEF s

(* The type invariant holds in the beginning.                              *)
LEMMA InitTyped == Init => TypeOK
<1> SUFFICES ASSUME Init PROVE TypeOK
  OBVIOUS
<1>1. Call(0, 0) \in TypedCall
  BY BallocAssumption DEF Call, TypedCall, AGs
<1>2. 0 \in 0 .. (W - 1) /\ 0 \in 0 .. MaxGrants /\ Bits \in 0 .. Bits
  BY BallocAssumption
<1> QED
  BY <1>1, <1>2, BallocAssumption DEF Init, TypeOK, TypedCall

(* The counters written stay within their types: the group counts because  *)
(* they are exact, s_free_blocks because it wraps.                         *)
LEMMA TypeStep == BallocInv /\ Counted' /\ TypeOK /\ [Next]_vars => TypeOK'
<1> SUFFICES ASSUME BallocInv, Counted', TypeOK, [Next]_vars PROVE TypeOK'
  OBVIOUS
<1>0. /\ call \in [Callers -> TypedCall] /\ Call(0, 0) \in TypedCall
      /\ 0 \in 0 .. (W - 1) /\ ab_free' \in [AGs -> 0 .. Bits]
  BY BallocAssumption DEF TypeOK, TypedCall, Call, AGs, Counted
<1>1. CASE UNCHANGED vars
  BY <1>1 DEF vars, bitmaps, TypeOK
<1>2. ASSUME NEW c \in Callers, NEW n \in Requests, NEW h \in 0 .. Groups,
             alloc_blocks_extended(c, n, h)
      PROVE  TypeOK'
  <2> DEFINE k == Call(n, IF h >= Groups THEN 0 ELSE h)
  <2>1. k \in TypedCall
    BY BallocAssumption DEF Call, TypedCall, AGs
  <2>2. call' = [call EXCEPT ![c] = k] /\ pc' = [pc EXCEPT ![c] = "try"]
    BY <1>2 DEF alloc_blocks_extended
  <2> HIDE DEF k
  <2>3. call' \in [Callers -> TypedCall]
    BY <1>0, <2>1, <2>2
  <2> QED
    BY <1>2, <2>2, <2>3 DEF alloc_blocks_extended, bitmaps, TypeOK, TypedCall
<1>3. ASSUME NEW c \in Callers, NEW b \in Bit, Grant(c, b) PROVE TypeOK'
  <2> DEFINE g == try_ag(c)
             n == call[c].count
             new == Extent(grants + 1, g, b, n)
  <2>1. g \in AGs /\ n \in Requests /\ grants \in Nat /\ grants + 1 \in 1 .. MaxGrants
    <3>1. grants \in 0 .. MaxGrants /\ grants < MaxGrants /\ MaxGrants \in Nat
      BY <1>3, BallocAssumption DEF Grant, TypeOK
    <3>2. grants \in Nat /\ grants + 1 \in 1 .. MaxGrants
      BY <3>1
    <3> QED
      BY <1>3, <3>2, TryInRange DEF BallocInv, Shape, Grant
  <2>2. new \in Extents
    BY <2>1 DEF Extent, Extents
  <2>3. /\ ab_bitmap' = [ab_bitmap EXCEPT ![g] = @ \cup b .. (b + n - 1)]
        /\ granted' = granted \cup {new} /\ grants' = grants + 1
        /\ call' = [call EXCEPT ![c].id = grants + 1]
        /\ pc' = [pc EXCEPT ![c] = "take"]
    BY <1>3 DEF Grant
  <2>4. b .. (b + n - 1) \subseteq Nat
    BY <2>1, BallocAssumption DEF Bit
  <2> HIDE DEF new, g, n
  <2>5. ab_bitmap' \in [AGs -> SUBSET Nat]
    BY <2>1, <2>3, <2>4 DEF TypeOK
  <2>6. call' \in [Callers -> TypedCall]
    <3>1. [call[c] EXCEPT !.id = grants + 1] \in TypedCall
      BY <1>0, <2>1 DEF TypedCall
    <3> QED
      BY <1>0, <2>3, <3>1
  <2>7. grants' \in 0 .. MaxGrants
    BY <2>1, <2>3
  <2> QED
    BY <1>0, <1>3, <2>2, <2>3, <2>5, <2>6, <2>7 DEF Grant, TypeOK, TypedCall
<1>4. ASSUME NEW c \in Callers, NEW x \in granted, free_blocks_extended(c, x) PROVE TypeOK'
  <2>1. x \in Extents /\ x.ag \in AGs /\ x.bit \in Bit /\ x.len \in Requests
    BY DEF TypeOK, Extents
  <2>2. AgOf(Address(x.ag, x.bit)) = x.ag
    BY <2>1, Roundtrip
  <2>3. /\ ab_bitmap' = [ab_bitmap EXCEPT
                            ![x.ag] = @ \ ClearedBits(BitOf(Address(x.ag, x.bit)), x.len)]
        /\ granted' = granted \ {x}
        /\ lost' = IF x.bit = 0 THEN lost \cup {x} ELSE lost
        /\ call' = [call EXCEPT ![c] = Call(x.len, 0)]
        /\ pc' = [pc EXCEPT ![c] = "give"]
    BY <1>4, <2>2 DEF free_blocks_extended
  <2>4. ab_bitmap' \in [AGs -> SUBSET Nat]
    BY <2>1, <2>3 DEF TypeOK
  <2>5. Call(x.len, 0) \in TypedCall
    BY <2>1, BallocAssumption DEF Call, TypedCall, AGs
  <2>6. call' \in [Callers -> TypedCall]
    BY <1>0, <2>3, <2>5
  <2>7. granted' \subseteq Extents /\ lost' \subseteq Extents
    BY <2>1, <2>3 DEF TypeOK
  <2> QED
    BY <1>0, <1>4, <2>3, <2>4, <2>6, <2>7 DEF free_blocks_extended, TypeOK, TypedCall
<1>5. ASSUME NEW c \in Callers, NoSpace(c) PROVE TypeOK'
  <2>1. call' \in [Callers -> TypedCall]
    <3>1. CASE call' = [call EXCEPT ![c] = Call(0, 0)]
      BY <1>0, <3>1
    <3>2. CASE call[c].ag + 1 < Groups /\ call' = [call EXCEPT ![c].ag = @ + 1]
      <4>1. call[c] \in TypedCall /\ call[c].ag + 1 \in AGs
        BY <1>0, <3>2, BallocAssumption DEF TypedCall, AGs
      <4>2. [call[c] EXCEPT !.ag = call[c].ag + 1] \in TypedCall
        BY <4>1 DEF TypedCall
      <4> QED
        BY <1>0, <3>2, <4>2
    <3> QED
      BY <1>5, <3>1, <3>2 DEF NoSpace
  <2>2. pc' \in [Callers -> {"idle", "try", "take", "taken", "give", "given"}]
    BY <1>5 DEF NoSpace, TypeOK
  <2> QED
    BY <1>0, <1>5, <2>1, <2>2 DEF NoSpace, bitmaps, TypeOK, TypedCall
<1>6. ASSUME NEW c \in Callers, ReadCount(c) PROVE TypeOK'
  BY <1>6 DEF ReadCount, bitmaps, TypeOK
<1>7. ASSUME NEW c \in Callers, WriteCount(c) PROVE TypeOK'
  <2>1. seen[c] \in Int /\ call[c].count \in Int
    <3>1. seen[c] \in 0 .. (W - 1) /\ call[c].count \in Requests \cup {0}
      BY <1>0 DEF TypeOK, TypedCall
    <3>2. 0 .. (W - 1) \subseteq Int /\ Requests \cup {0} \subseteq Int
      BY BallocAssumption
    <3> QED
      BY <3>1, <3>2
  <2>2. Updated(c) \in 0 .. (W - 1)
    BY <2>1, Wrap DEF Updated
  <2>3. call' \in [Callers -> TypedCall] /\ seen' \in [Callers -> 0 .. (W - 1)]
    BY <1>0, <1>7 DEF WriteCount, TypeOK
  <2>4. pc' \in [Callers -> {"idle", "try", "take", "taken", "give", "given"}]
    BY <1>7 DEF WriteCount, TypeOK
  <2>5. raced' \in BOOLEAN
    BY <1>7, Zenon DEF WriteCount
  <2> QED
    BY <1>7, <2>2, <2>3, <2>4, <2>5 DEF WriteCount, bitmaps, TypeOK, TypedCall
<1> QED
  BY <1>1, <1>2, <1>3, <1>4, <1>5, <1>6, <1>7 DEF Next

(***************************************************************************)
(* Type correctness of the allocator: no free count goes below zero or     *)
(* above the number of bits, and the counter of the superblock stays in    *)
(* its unsigned type.                                                      *)
(***************************************************************************)
THEOREM BallocTypeCorrect == Spec => []TypeOK
BY InitBalloc, BallocStep, InitCounted, CountedStep, InitTyped, TypeStep, PTL DEF Spec
-----------------------------------------------------------------------------
(***************************************************************************)
(* The counter of the superblock.  Between a change of a bitmap and the    *)
(* write of s_free_blocks a caller still owes the blocks of its call: they *)
(* are counted as pairs of the caller and a number (Rows).  A value that   *)
(* was read stays current as long as no update overlapped another.         *)
(***************************************************************************)
Rows(p, k, ps) == UNION {{c} \X (1 .. k[c].count) : c \in {d \in Callers : p[d] \in ps}}

Takes == {"take", "taken"}
Gives == {"give", "given"}

Taking == Rows(pc, call, Takes)
Giving == Rows(pc, call, Gives)

Owing(k) == mounted_free - Total(granted) + Cardinality(Taking) - Cardinality(Giving) + k * W

Settling ==
    /\ IsFiniteSet(Taking) /\ IsFiniteSet(Giving) /\ IsFiniteSet(Held(granted))
    /\ ~raced =>
        /\ \A c \in Callers : pc[c] \in {"taken", "given"} => seen[c] = s_free_blocks
        /\ \E k \in Int : s_free_blocks = Owing(k)

(* A caller that owes as much as before.                                   *)
LEMMA RowsWith ==
    ASSUME NEW p, NEW q, NEW k, NEW l, NEW c \in Callers, NEW ps,
           \A d \in Callers \ {c} : q[d] = p[d] /\ l[d].count = k[d].count,
           p[c] \in ps, q[c] \in ps, l[c].count = k[c].count
    PROVE  Rows(q, l, ps) = Rows(p, k, ps)
<1>1. ASSUME NEW z \in Rows(q, l, ps) PROVE z \in Rows(p, k, ps)
  BY DEF Rows
<1>2. ASSUME NEW z \in Rows(p, k, ps) PROVE z \in Rows(q, l, ps)
  BY DEF Rows
<1> QED
  BY <1>1, <1>2

(* A caller that begins to owe n blocks.                                   *)
LEMMA RowsAdded ==
    ASSUME NEW p, NEW q, NEW k, NEW l, NEW c \in Callers, NEW ps,
           \A d \in Callers \ {c} : q[d] = p[d] /\ l[d].count = k[d].count,
           p[c] \notin ps, q[c] \in ps, NEW n \in Nat, l[c].count = n,
           IsFiniteSet(Rows(p, k, ps))
    PROVE  /\ IsFiniteSet(Rows(q, l, ps)) /\ Cardinality(Rows(p, k, ps)) \in Nat
           /\ Cardinality(Rows(q, l, ps)) = Cardinality(Rows(p, k, ps)) + n
<1> DEFINE row == 1 .. n
<1>1. IsFiniteSet(row) /\ Cardinality(row) = n
  BY FS_Interval
<1>2. Rows(q, l, ps) = Rows(p, k, ps) \cup ({c} \X row)
  <2>1. ASSUME NEW z \in Rows(q, l, ps) PROVE z \in Rows(p, k, ps) \cup ({c} \X row)
    BY DEF Rows
  <2>2. ASSUME NEW z \in Rows(p, k, ps) PROVE z \in Rows(q, l, ps)
    BY DEF Rows
  <2>3. {c} \X row \subseteq Rows(q, l, ps)
    BY DEF Rows
  <2> QED
    BY <2>1, <2>2, <2>3
<1> DEFINE old == Rows(p, k, ps)
<1>3. IsFiniteSet(old) /\ \A z \in old : z[1] # c
  BY DEF Rows
<1> HIDE DEF row, old
<1>4. /\ IsFiniteSet(old \cup ({c} \X row)) /\ Cardinality(old) \in Nat
      /\ Cardinality(old \cup ({c} \X row)) = Cardinality(old) + Cardinality(row)
  BY ONLY <1>1, <1>3, AddRow
<1> QED
  BY <1>1, <1>2, <1>4 DEF old

(* A caller that has settled its n blocks.                                 *)
LEMMA RowsDropped ==
    ASSUME NEW p, NEW q, NEW k, NEW l, NEW c \in Callers, NEW ps,
           \A d \in Callers \ {c} : q[d] = p[d] /\ l[d].count = k[d].count,
           p[c] \in ps, q[c] \notin ps, NEW n \in Nat, k[c].count = n,
           IsFiniteSet(Rows(p, k, ps))
    PROVE  /\ IsFiniteSet(Rows(q, l, ps)) /\ Cardinality(Rows(q, l, ps)) \in Nat
           /\ Cardinality(Rows(p, k, ps)) = Cardinality(Rows(q, l, ps)) + n
<1>1. Rows(q, l, ps) \subseteq Rows(p, k, ps)
  <2>1. ASSUME NEW z \in Rows(q, l, ps) PROVE z \in Rows(p, k, ps)
    BY DEF Rows
  <2> QED
    BY <2>1
<1>2. IsFiniteSet(Rows(q, l, ps))
  BY <1>1, FS_Subset
<1>3. \A d \in Callers \ {c} : p[d] = q[d] /\ k[d].count = l[d].count
  OBVIOUS
<1> QED
  BY <1>2, <1>3, RowsAdded

(* What is owed by takers stays when a step of c is not about it.         *)
LEMMA TakingSame ==
    ASSUME NEW c \in Callers, pc[c] \notin Takes, pc'[c] \notin Takes,
           \A d \in Callers \ {c} : pc'[d] = pc[d] /\ call'[d].count = call[d].count
    PROVE  Taking' = Taking
<1>1. ASSUME NEW z \in Taking' PROVE z \in Taking
  BY DEF Taking, Rows
<1>2. ASSUME NEW z \in Taking PROVE z \in Taking'
  BY DEF Taking, Rows
<1> QED
  BY <1>1, <1>2

(* What is owed grows by the blocks of a caller that begins to owe them.   *)
LEMMA TakingGrows ==
    ASSUME NEW c \in Callers, pc[c] \notin Takes, pc'[c] \in Takes, IsFiniteSet(Taking),
           \A d \in Callers \ {c} : pc'[d] = pc[d] /\ call'[d].count = call[d].count,
           NEW n \in Nat, call'[c].count = n
    PROVE  /\ IsFiniteSet(Taking') /\ Cardinality(Taking) \in Nat
           /\ Cardinality(Taking') = Cardinality(Taking) + n
BY RowsAdded DEF Taking

(* What is owed by givers stays when a step of c is not about it.         *)
LEMMA GivingSame ==
    ASSUME NEW c \in Callers, pc[c] \notin Gives, pc'[c] \notin Gives,
           \A d \in Callers \ {c} : pc'[d] = pc[d] /\ call'[d].count = call[d].count
    PROVE  Giving' = Giving
<1>1. ASSUME NEW z \in Giving' PROVE z \in Giving
  BY DEF Giving, Rows
<1>2. ASSUME NEW z \in Giving PROVE z \in Giving'
  BY DEF Giving, Rows
<1> QED
  BY <1>1, <1>2

(* What is owed grows by the blocks of a caller that begins to owe them.   *)
LEMMA GivingGrows ==
    ASSUME NEW c \in Callers, pc[c] \notin Gives, pc'[c] \in Gives, IsFiniteSet(Giving),
           \A d \in Callers \ {c} : pc'[d] = pc[d] /\ call'[d].count = call[d].count,
           NEW n \in Nat, call'[c].count = n
    PROVE  /\ IsFiniteSet(Giving') /\ Cardinality(Giving) \in Nat
           /\ Cardinality(Giving') = Cardinality(Giving) + n
BY RowsAdded DEF Giving

(* Nobody owes anything in the beginning.                                  *)
LEMMA InitSettling == Init => Settling
<1> SUFFICES ASSUME Init PROVE Settling
  OBVIOUS
<1>1. Taking = {} /\ Giving = {} /\ Held(granted) = {}
  BY DEF Init, Taking, Giving, Rows, Held, Takes, Gives
<1>2. IsFiniteSet({}) /\ Cardinality({}) = 0
  BY FS_EmptySet
<1>3. mounted_free \in Int /\ W \in Int
  BY BallocAssumption DEF Init
<1>4. Owing(0) = mounted_free
  BY <1>1, <1>2, <1>3 DEF Owing, Total
<1>5. s_free_blocks = Owing(0) /\ 0 \in Int
  BY <1>4 DEF Init
<1> QED
  BY <1>1, <1>2, <1>5 DEF Init, Settling

(* An action that leaves the counter, the extents and what is owed.        *)
LEMMA QuietStep ==
    ASSUME Settling, UNCHANGED << s_free_blocks, mounted_free, granted, raced >>,
           Taking' = Taking, Giving' = Giving,
           \A c \in Callers : pc'[c] \in {"taken", "given"} =>
               seen'[c] = s_free_blocks \/ (pc'[c] = pc[c] /\ seen'[c] = seen[c])
    PROVE  Settling'
<1>1. \A k : Owing(k)' = Owing(k)
  BY DEF Owing
<1>2. IsFiniteSet(Taking') /\ IsFiniteSet(Giving') /\ IsFiniteSet(Held(granted'))
  BY DEF Settling
<1>3. ASSUME ~raced' PROVE \A c \in Callers : pc'[c] \in {"taken", "given"} => seen'[c] = s_free_blocks'
  BY <1>3 DEF Settling
<1>4. ASSUME ~raced' PROVE \E k \in Int : s_free_blocks' = Owing(k)'
  BY <1>1, <1>4 DEF Settling
<1> QED
  BY <1>2, <1>3, <1>4 DEF Settling

(* A grant: the blocks in use and the blocks owed grow alike.              *)
LEMMA GrantSettling ==
    ASSUME BallocInv, Counted, TypeOK, Settling, NEW c \in Callers, NEW b \in Bit, Grant(c, b)
    PROVE  Settling'
<1> DEFINE g == try_ag(c)
           n == call[c].count
           new == Extent(grants + 1, g, b, n)
<1>1. g \in AGs /\ n \in Requests /\ grants \in Nat /\ Requests \subseteq Nat
  BY TryInRange, BallocAssumption DEF BallocInv, Shape, Grant
<1>2. n \in Nat /\ new \in AnyExtent /\ new.len = n /\ new.id = grants + 1
  <2>1. new \in AnyExtent /\ new.len = n /\ new.id = grants + 1
    BY <1>1 DEF Extent, AnyExtent
  <2> QED
    BY <1>1, <2>1
<1>3. /\ granted' = granted \cup {new}
      /\ UNCHANGED << s_free_blocks, seen, mounted_free, raced >>
      /\ pc' = [pc EXCEPT ![c] = "take"] /\ call' = [call EXCEPT ![c].id = grants + 1]
      /\ pc[c] = "try"
  BY DEF Grant
<1>4. /\ \A d \in Callers \ {c} : pc'[d] = pc[d] /\ call'[d].count = call[d].count
      /\ call'[c].count = n /\ pc'[c] = "take"
  BY <1>3 DEF BallocInv, Shape, Arguments
<1> HIDE DEF new, g, n
<1>5. new \notin granted
  BY <1>1, <1>2 DEF Counted, Taken
<1>6. /\ IsFiniteSet(Held(granted')) /\ Total(granted) \in Nat
      /\ Total(granted') = Total(granted) + n
  BY <1>2, <1>3, <1>5, AddTotal DEF Settling
<1>7. /\ IsFiniteSet(Taking') /\ Cardinality(Taking) \in Nat
      /\ Cardinality(Taking') = Cardinality(Taking) + n
  <2>1. pc[c] \notin Takes /\ pc'[c] \in Takes
    BY <1>3, <1>4 DEF Takes, Gives
  <2> QED
    BY <1>2, <1>4, <2>1, TakingGrows DEF Settling
<1>8. Giving' = Giving
  <2>1. pc[c] \notin Gives /\ pc'[c] \notin Gives
    BY <1>3, <1>4 DEF Takes, Gives
  <2> QED
    BY <1>4, <2>1, GivingSame
<1>9. \A k \in Int : Owing(k)' = Owing(k)
  <2>1. mounted_free \in Int /\ Cardinality(Giving) \in Int /\ W \in Int
    BY FS_CardinalityType, BallocAssumption DEF TypeOK, Settling
  <2> QED
    BY <1>2, <1>3, <1>6, <1>7, <1>8, <2>1 DEF Owing
<1>10. ASSUME ~raced'
       PROVE  \A d \in Callers : pc'[d] \in {"taken", "given"} => seen'[d] = s_free_blocks'
  BY <1>3, <1>4, <1>10 DEF Settling
<1>11. ASSUME ~raced' PROVE \E k \in Int : s_free_blocks' = Owing(k)'
  BY <1>3, <1>9, <1>11 DEF Settling
<1> QED
  BY <1>6, <1>7, <1>8, <1>10, <1>11 DEF Settling

(* A free: the blocks in use shrink by what is now owed the other way.     *)
LEMMA FreeSettling ==
    ASSUME BallocInv, TypeOK, Settling, NEW c \in Callers, NEW x \in granted,
           free_blocks_extended(c, x)
    PROVE  Settling'
<1> DEFINE n == x.len
<1>1. x \in AnyExtent /\ n \in Nat
  <2>1. x \in AnyExtent /\ x.len \in Requests /\ Requests \subseteq Nat
    BY BallocAssumption DEF BallocInv, Shape, AnyExtent
  <2> QED
    BY <2>1
<1>2. /\ granted' = granted \ {x}
      /\ UNCHANGED << s_free_blocks, seen, mounted_free, raced >>
      /\ pc' = [pc EXCEPT ![c] = "give"] /\ call' = [call EXCEPT ![c] = Call(n, 0)]
      /\ pc[c] = "idle"
  BY DEF free_blocks_extended
<1>3. /\ \A d \in Callers \ {c} : pc'[d] = pc[d] /\ call'[d].count = call[d].count
      /\ call'[c].count = n /\ pc'[c] = "give"
  BY <1>2 DEF BallocInv, Shape, Call
<1> HIDE DEF n
<1>4. /\ IsFiniteSet(Held(granted')) /\ Total(granted') \in Nat /\ Total(granted) \in Nat
      /\ Total(granted') = Total(granted) - n
  <2>1. Total(granted) \in Nat
    BY PartTotal DEF Settling
  <2> QED
    BY <1>1, <1>2, <2>1, RemoveTotal DEF Settling, n
<1>5. /\ IsFiniteSet(Giving') /\ Cardinality(Giving) \in Nat
      /\ Cardinality(Giving') = Cardinality(Giving) + n
  <2>1. pc[c] \notin Gives /\ pc'[c] \in Gives
    BY <1>2, <1>3 DEF Takes, Gives
  <2> QED
    BY <1>1, <1>3, <2>1, GivingGrows DEF Settling
<1>6. Taking' = Taking
  <2>1. pc[c] \notin Takes /\ pc'[c] \notin Takes
    BY <1>2, <1>3 DEF Takes, Gives
  <2> QED
    BY <1>3, <2>1, TakingSame
<1>7. \A k \in Int : Owing(k)' = Owing(k)
  <2>1. mounted_free \in Int /\ Cardinality(Taking) \in Int /\ W \in Int
    BY FS_CardinalityType, BallocAssumption DEF TypeOK, Settling
  <2> QED
    BY <1>1, <1>2, <1>4, <1>5, <1>6, <2>1 DEF Owing
<1>8. ASSUME ~raced'
      PROVE  \A d \in Callers : pc'[d] \in {"taken", "given"} => seen'[d] = s_free_blocks'
  BY <1>2, <1>3, <1>8 DEF Settling
<1>9. ASSUME ~raced' PROVE \E k \in Int : s_free_blocks' = Owing(k)'
  BY <1>2, <1>7, <1>9 DEF Settling
<1> QED
  BY <1>4, <1>5, <1>6, <1>8, <1>9 DEF Settling

(* The write of the counter settles what the caller owed.  If no update    *)
(* overlapped it, the value it had read was current.                       *)
LEMMA WriteSettling ==
    ASSUME BallocInv, TypeOK, Settling, NEW c \in Callers, WriteCount(c) PROVE Settling'
<1> DEFINE n == call[c].count
<1>1. n \in Nat /\ W \in Nat \ {0} /\ mounted_free \in Int /\ s_free_blocks \in Int
  <2>1. call[c].count \in Requests \cup {0}
    BY DEF BallocInv, Shape, Arguments
  <2>2. Requests \cup {0} \subseteq Nat
    BY BallocAssumption
  <2>3. W \in Nat \ {0} /\ mounted_free \in Int /\ s_free_blocks \in Int
    BY BallocAssumption DEF TypeOK
  <2> QED
    BY <2>1, <2>2, <2>3
<1>2. /\ granted' = granted /\ mounted_free' = mounted_free
      /\ pc' = [pc EXCEPT ![c] = "idle"] /\ call' = [call EXCEPT ![c] = Call(0, 0)]
      /\ seen' = [seen EXCEPT ![c] = 0]
      /\ pc[c] \in {"taken", "given"} /\ s_free_blocks' = Updated(c)
      /\ raced' = (raced \/ \E d \in Callers \ {c} : pc[d] \in {"taken", "given"})
  BY DEF WriteCount, bitmaps
<1>3. /\ \A d \in Callers \ {c} : pc'[d] = pc[d] /\ call'[d].count = call[d].count
      /\ pc'[c] = "idle"
  BY <1>2 DEF BallocInv, Shape
<1>4. ASSUME ~raced'
      PROVE  /\ ~raced /\ seen[c] = s_free_blocks
             /\ \A d \in Callers : pc'[d] \notin {"taken", "given"}
  BY <1>2, <1>3, <1>4 DEF Settling
<1>5. IsFiniteSet(Held(granted')) /\ Total(granted) \in Nat
  BY <1>2, PartTotal DEF Settling
<1>6. Cardinality(Taking) \in Nat /\ Cardinality(Giving) \in Nat
  BY FS_CardinalityType DEF Settling
<1> DEFINE d == IF pc[c] = "taken" THEN 0 - n ELSE n
<1>7. /\ IsFiniteSet(Taking') /\ IsFiniteSet(Giving')
      /\ Cardinality(Taking') - Cardinality(Giving') = Cardinality(Taking) - Cardinality(Giving) + d
  <2>1. CASE pc[c] = "taken"
    <3>1. /\ pc[c] \in Takes /\ pc'[c] \notin Takes
          /\ pc[c] \notin Gives /\ pc'[c] \notin Gives
      BY <1>3, <2>1 DEF Takes, Gives
    <3>2. /\ IsFiniteSet(Taking') /\ Cardinality(Taking') \in Nat
          /\ Cardinality(Taking) = Cardinality(Taking') + n
      BY <1>1, <1>3, <3>1, RowsDropped DEF Taking, Settling
    <3>3. Giving' = Giving
      BY <1>3, <3>1, GivingSame
    <3> HIDE DEF n
    <3> QED
      BY <1>1, <1>6, <2>1, <3>2, <3>3 DEF Settling
  <2>2. CASE pc[c] = "given"
    <3>1. /\ pc[c] \in Gives /\ pc'[c] \notin Gives
          /\ pc[c] \notin Takes /\ pc'[c] \notin Takes
      BY <1>3, <2>2 DEF Takes, Gives
    <3>2. /\ IsFiniteSet(Giving') /\ Cardinality(Giving') \in Nat
          /\ Cardinality(Giving) = Cardinality(Giving') + n
      BY <1>1, <1>3, <3>1, RowsDropped DEF Giving, Settling
    <3>3. Taking' = Taking
      BY <1>3, <3>1, TakingSame
    <3> HIDE DEF n
    <3> QED
      BY <1>1, <1>6, <2>2, <3>2, <3>3 DEF Settling
  <2> QED
    BY <1>2, <2>1, <2>2
<1>8. ASSUME ~raced' PROVE \E k \in Int : s_free_blocks' = Owing(k)'
  <2>1. PICK k \in Int : s_free_blocks = Owing(k)
    BY <1>4, <1>8 DEF Settling
  <2>2. s_free_blocks' = (s_free_blocks + d) % W
    BY <1>1, <1>2, <1>4, <1>8 DEF Updated
  <2>3. d \in Int
    BY <1>1
  <2> HIDE DEF d
  <2>4. PICK j \in Int : (s_free_blocks + d) % W = s_free_blocks + d + j * W
    <3>1. s_free_blocks + d \in Int
      BY <1>1, <2>3
    <3> QED
      BY <3>1, Wrap
  <2>5. k + j \in Int /\ (k + j) * W = k * W + j * W
    BY <1>1
  <2>6. Cardinality(Taking') \in Nat /\ Cardinality(Giving') \in Nat
    BY <1>7, FS_CardinalityType
  <2>7. k * W \in Int /\ j * W \in Int
    BY <1>1
  <2>8. Owing(k + j)' = Owing(k) + d + j * W
    BY <1>1, <1>2, <1>5, <1>6, <1>7, <2>3, <2>5, <2>6, <2>7 DEF Owing
  <2> QED
    BY <2>1, <2>2, <2>4, <2>5, <2>8
<1>9. ASSUME ~raced'
      PROVE  \A e \in Callers : pc'[e] \in {"taken", "given"} => seen'[e] = s_free_blocks'
  BY <1>4, <1>9
<1> QED
  BY <1>5, <1>7, <1>8, <1>9 DEF Settling

(* Every step keeps the account of the counter.                            *)
LEMMA SettlingStep == BallocInv /\ Counted /\ TypeOK /\ Settling /\ [Next]_vars => Settling'
<1> SUFFICES ASSUME BallocInv, Counted, TypeOK, Settling, [Next]_vars PROVE Settling'
  OBVIOUS
<1>1. CASE UNCHANGED vars
  BY <1>1, QuietStep DEF vars, bitmaps, Taking, Giving
<1>2. ASSUME NEW c \in Callers, NEW n \in Requests, NEW h \in 0 .. Groups,
             alloc_blocks_extended(c, n, h)
      PROVE  Settling'
  <2>1. /\ \A d \in Callers \ {c} : pc'[d] = pc[d] /\ call'[d].count = call[d].count
        /\ pc[c] \notin Takes /\ pc'[c] \notin Takes
        /\ pc[c] \notin Gives /\ pc'[c] \notin Gives
    BY <1>2 DEF alloc_blocks_extended, BallocInv, Shape, Takes, Gives
  <2>2. Taking' = Taking
    BY <2>1, TakingSame
  <2>3. Giving' = Giving
    BY <2>1, GivingSame
  <2> QED
    BY <1>2, <2>1, <2>2, <2>3, QuietStep DEF alloc_blocks_extended, bitmaps
<1>3. ASSUME NEW c \in Callers, NEW b \in Bit, Grant(c, b) PROVE Settling'
  BY <1>3, GrantSettling
<1>4. ASSUME NEW c \in Callers, NoSpace(c) PROVE Settling'
  <2>1. /\ \A d \in Callers \ {c} : pc'[d] = pc[d] /\ call'[d].count = call[d].count
        /\ pc[c] \notin Takes /\ pc'[c] \notin Takes
        /\ pc[c] \notin Gives /\ pc'[c] \notin Gives
    BY <1>4 DEF NoSpace, BallocInv, Shape, Takes, Gives
  <2>2. Taking' = Taking
    BY <2>1, TakingSame
  <2>3. Giving' = Giving
    BY <2>1, GivingSame
  <2> QED
    <3>1. UNCHANGED << s_free_blocks, mounted_free, granted, raced, seen >>
      BY <1>4 DEF NoSpace, bitmaps
    <3>2. pc'[c] \in {"idle", "try"}
      BY <1>4 DEF NoSpace, TypeOK
    <3> QED
      BY <2>1, <2>2, <2>3, <3>1, <3>2, QuietStep
<1>5. ASSUME NEW c \in Callers, NEW x \in granted, free_blocks_extended(c, x) PROVE Settling'
  BY <1>5, FreeSettling
<1>6. ASSUME NEW c \in Callers, ReadCount(c) PROVE Settling'
  <2>1. /\ \A d \in Callers \ {c} : pc'[d] = pc[d] /\ call'[d].count = call[d].count
        /\ \A d \in Callers \ {c} : seen'[d] = seen[d]
        /\ call'[c].count = call[c].count /\ seen'[c] = s_free_blocks
    BY <1>6 DEF ReadCount, TypeOK
  <2>2. Taking' = Taking /\ Giving' = Giving
    <3>1. CASE pc[c] = "take"
      <4>1. /\ pc[c] \in Takes /\ pc'[c] \in Takes
            /\ pc[c] \notin Gives /\ pc'[c] \notin Gives
        BY <1>6, <3>1 DEF ReadCount, TypeOK, Takes, Gives
      <4>2. Taking' = Taking
        BY <2>1, <4>1, RowsWith DEF Taking
      <4>3. Giving' = Giving
        BY <2>1, <4>1, GivingSame
      <4> QED
        BY <4>2, <4>3
    <3>2. CASE pc[c] = "give"
      <4>1. /\ pc[c] \in Gives /\ pc'[c] \in Gives
            /\ pc[c] \notin Takes /\ pc'[c] \notin Takes
        BY <1>6, <3>2 DEF ReadCount, TypeOK, Takes, Gives
      <4>2. Giving' = Giving
        BY <2>1, <4>1, RowsWith DEF Giving
      <4>3. Taking' = Taking
        BY <2>1, <4>1, TakingSame
      <4> QED
        BY <4>2, <4>3
    <3> QED
      BY <1>6, <3>1, <3>2 DEF ReadCount
  <2>3. UNCHANGED << s_free_blocks, mounted_free, granted, raced >>
    BY <1>6 DEF ReadCount, bitmaps
  <2> QED
    BY <2>1, <2>2, <2>3, QuietStep
<1>7. ASSUME NEW c \in Callers, WriteCount(c) PROVE Settling'
  BY <1>7, WriteSettling
<1> QED
  BY <1>1, <1>2, <1>3, <1>4, <1>5, <1>6, <1>7 DEF Next

(***************************************************************************)
(* Unless two unlocked updates of info->s_free_blocks overlapped, the      *)
(* counter is, whenever no update is under way, its value at mount time    *)
(* less the blocks in use, modulo the width of its type.                   *)
(***************************************************************************)
THEOREM CounterSettles == Spec => []CountSettles
<1>1. TypeOK /\ Settling => CountSettles
  <2> SUFFICES ASSUME TypeOK, Settling, ~raced, \A c \in Callers : pc[c] \in {"idle", "try"}
               PROVE  s_free_blocks = (mounted_free - Total(granted)) % W
    BY DEF CountSettles
  <2>1. \A c \in Callers : pc[c] \notin {"take", "taken", "give", "given"}
    OBVIOUS
  <2>2. Taking = {} /\ Giving = {}
    BY <2>1 DEF Taking, Giving, Rows, Takes, Gives
  <2>3. PICK k \in Int : s_free_blocks = Owing(k)
    BY DEF Settling
  <2> DEFINE a == mounted_free - Total(granted)
  <2>4. a \in Int /\ W \in Int
    <3>1. Total(granted) \in Nat
      BY PartTotal DEF Settling
    <3> QED
      BY <3>1, BallocAssumption DEF TypeOK
  <2>5. Owing(k) = a + k * W
    BY <2>2, <2>4, FS_EmptySet DEF Owing
  <2> HIDE DEF a
  <2>6. a + k * W \in 0 .. (W - 1)
    BY <2>3, <2>5 DEF TypeOK
  <2> QED
    BY <2>3, <2>4, <2>5, <2>6, Unwrap DEF a
<1> QED
  BY <1>1, InitBalloc, BallocStep, InitCounted, CountedStep, InitTyped, TypeStep,
     InitSettling, SettlingStep, PTL DEF Spec
=============================================================================
