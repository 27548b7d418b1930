--------------------------- MODULE CoverageProofs ---------------------------
(***************************************************************************)
(* The scan of aetherfs_image_validate decides, for every word width, every*)
(* image size and any number of intervals: what it accepts is an exact     *)
(* tiling with the free count of the superblock, and it rejects no such.   *)
(***************************************************************************)
EXTENDS Coverage, FiniteSetTheorems, TLAPS

(* What the tests of the walk and of the free list leave true of an        *)
(* interval: it is not empty and its wrapped end is within the image.      *)
Admitted(i) == i.len # 0 /\ Plus(i.start, i.len) <= blocks

(* The lists hold admitted intervals; `coverage` is the free list until    *)
(* Merge, and the whole allocation afterwards.                             *)
ListInv ==
    /\ \A i \in free : Admitted(i)
    /\ \A i \in UsedData : Admitted(i)
    /\ pc \in {"walk", "free", "merge"} => coverage = free /\ scanned = {}
    /\ pc \in {"scan", "accepted"} => coverage = Allocation

(* Behind the loop index either everything up to the cursor is tiled, or   *)
(* an end has wrapped and the cursor lies below a scanned start, from where *)
(* no later interval can pick it up.                                       *)
Tiled == DataStart <= cursor /\ ExactTiling(scanned, DataStart, cursor)

Wrapped == \E i \in scanned : cursor < i.start

ScanInv ==
    /\ cursor <= blocks
    /\ \A i \in scanned : i.start <= blocks
    /\ \A i \in scanned : \A j \in coverage \ scanned : i.start <= j.start
    /\ Tiled \/ Wrapped
    /\ pc = "accepted" => scanned = coverage /\ cursor = blocks

IInv == TypeOK /\ ListInv /\ ScanInv

-----------------------------------------------------------------------------
(* A wrapped sum of two words is a word, and equals the sum or lies below  *)
(* both summands.                                                          *)
LEMMA PlusWord ==
    ASSUME NEW a \in Word, NEW b \in Word
    PROVE  /\ Plus(a, b) \in Word
           /\ Plus(a, b) = a + b \/ Plus(a, b) < a
  BY WidthAssumption DEF Plus, Word

(* An interval that starts where a tiling ends extends the tiling.         *)
LEMMA ExtendTiling ==
    ASSUME NEW S, S \subseteq Intervals64, NEW e \in Intervals64,
           NEW lo \in Nat, NEW hi \in Nat, lo <= hi,
           ExactTiling(S, lo, hi), e.start = hi
    PROVE  ExactTiling(S \cup {e}, lo, hi + e.len)
  <1>0. hi \in Nat /\ lo \in Nat /\ e.len \in Nat /\ e.start \in Nat
    BY WidthAssumption DEF Intervals64, Word
  <1>a. \A j \in S : j.start \in Nat /\ j.len \in Nat
    BY WidthAssumption DEF Intervals64, Word
  <1>1. InRange(S \cup {e}, lo, hi + e.len)
    BY <1>0, <1>a DEF ExactTiling, InRange
  <1>2. CoveredOnce(S \cup {e}, lo, hi + e.len)
    <2> SUFFICES ASSUME NEW b \in lo .. ((hi + e.len) - 1)
                 PROVE  \E k \in S \cup {e} :
                            /\ Covers(k, b)
                            /\ \A j \in S \cup {e} : Covers(j, b) => j = k
      BY DEF CoveredOnce
    <2>1. CASE b < hi
      <3>1. b \in lo .. (hi - 1)
        BY <2>1, <1>0
      <3>2. PICK k \in S : Covers(k, b) /\ \A j \in S : Covers(j, b) => j = k
        BY <3>1 DEF ExactTiling, CoveredOnce
      <3>3. ~Covers(e, b)
        BY <2>1, <1>0 DEF Covers
      <3> QED BY <3>2, <3>3
    <2>2. CASE ~(b < hi)
      <3>1. Covers(e, b)
        BY <2>2, <1>0 DEF Covers
      <3>2. \A j \in S : ~Covers(j, b)
        BY <2>2, <1>0, <1>a DEF ExactTiling, InRange, Covers
      <3> QED BY <3>1, <3>2
    <2> QED BY <2>1, <2>2
  <1> QED BY <1>1, <1>2 DEF ExactTiling

-----------------------------------------------------------------------------
(* Before the walk the lists are empty and the cursor is at DataStart.     *)
LEMMA InitIInv == Init => IInv
  <1> SUFFICES ASSUME Init PROVE IInv
    OBVIOUS
  <1>1. TypeOK
    BY WidthAssumption, SizesAssumption, CountsAssumption
       DEF Init, TypeOK, Word, Intervals64
  <1>2. ListInv
    BY DEF Init, ListInv, UsedData
  <1>3. Tiled
    BY WidthAssumption DEF Init, Tiled, ExactTiling, InRange, CoveredOnce
  <1>4. ScanInv
    BY <1>3, SizesAssumption DEF Init, ScanInv
  <1> QED BY <1>1, <1>2, <1>4 DEF IInv

-----------------------------------------------------------------------------
(* The steps before the scan: the lists grow by admitted intervals.        *)
LEMMA RejectIInv == ASSUME IInv, Reject PROVE IInv'
  BY DEF IInv, TypeOK, ListInv, ScanInv, Reject, Tiled, Wrapped, UsedData,
         Admitted, Plus

(* Noting an interval during the inode walk.                               *)
LEMMA NoteUsedIInv ==
    ASSUME IInv, pc = "walk", NEW s \in Word, NEW l \in Word,
           NoteUsed(s, l), DataStart <= s => l # 0 /\ Plus(s, l) <= blocks
    PROVE  IInv'
  <1> DEFINE n == Interval(noted, s, l)
  <1>1. n \in Intervals64 /\ n.start = s /\ n.len = l
    BY DEF IInv, TypeOK, Interval, Intervals64
  <1>2. TypeOK'
    BY <1>1 DEF IInv, TypeOK, NoteUsed
  <1>3. \A i \in UsedData' : i \in UsedData \/ (i = n /\ DataStart <= s)
    BY <1>1 DEF UsedData, NoteUsed
  <1>4. ListInv'
    BY <1>1, <1>3 DEF IInv, ListInv, NoteUsed, Admitted, Plus
  <1>5. ScanInv'
    BY DEF IInv, ScanInv, NoteUsed, Tiled, Wrapped
  <1> QED BY <1>2, <1>4, <1>5 DEF IInv

(* Reading a free extent, which joins `free` and `coverage` alike.         *)
LEMMA FreeExtentIInv ==
    ASSUME IInv, NEW s \in Word, NEW l \in Word, FreeExtent(s, l)
    PROVE  IInv'
  <1>1. CASE ~FreeOK(s, l)
    BY <1>1, RejectIInv DEF FreeExtent
  <1>2. CASE FreeOK(s, l)
    <2> DEFINE n == Interval(noted, s, l)
    <2>1. n \in Intervals64 /\ n.start = s /\ n.len = l
      BY DEF IInv, TypeOK, Interval, Intervals64
    <2>2. TypeOK'
      <3>1. free_blocks' \in Word /\ last_end' \in Word
        BY <1>2, PlusWord DEF IInv, TypeOK, FreeExtent, FreeTotal
      <3> QED BY <1>2, <2>1, <3>1 DEF IInv, TypeOK, FreeExtent
    <2>3. ListInv'
      BY <1>2, <2>1 DEF IInv, ListInv, FreeExtent, FreeOK, Admitted, Plus, UsedData
    <2>4. ScanInv'
      BY <1>2 DEF IInv, ListInv, ScanInv, FreeExtent, Tiled, Wrapped
    <2> QED BY <2>2, <2>3, <2>4 DEF IInv
  <1> QED BY <1>1, <1>2

-----------------------------------------------------------------------------
(* A step of the scan extends the tiling, or wraps and stays below.        *)
LEMMA ScanIInv == ASSUME IInv, NEW i \in coverage, Scan(i) PROVE IInv'
  <1>1. CASE i.start # cursor
    BY <1>1, RejectIInv DEF Scan
  <1>2. CASE i.start = cursor
    <2> USE <1>2
    <2>1. i \in Intervals64 /\ i.start \in Word /\ i.len \in Word
      BY DEF IInv, TypeOK, Intervals64
    <2>2. cursor' = Plus(i.start, i.len) /\ cursor' \in Word
      BY <2>1, PlusWord DEF Scan
    <2>3. TypeOK'
      BY <2>2 DEF IInv, TypeOK, Scan
    <2>4. ListInv'
      BY DEF IInv, ListInv, Scan, Admitted, Plus, UsedData, Allocation
    <2>5. i \in free \cup UsedData
      BY DEF IInv, ListInv, Scan, Allocation
    <2>6. cursor' <= blocks'
      BY <2>2, <2>5 DEF IInv, ListInv, Admitted, Scan
    <2>7. \A k \in scanned' : k.start <= blocks'
      BY DEF IInv, ScanInv, Scan
    <2>8. \A k \in scanned' : \A j \in coverage' \ scanned' : k.start <= j.start
      <3>1. \A j \in coverage \ scanned : i.start <= j.start
        <4> SUFFICES ASSUME NEW j \in coverage \ scanned PROVE i.start <= j.start
          OBVIOUS
        <4>1. ~Precedes(j, i) /\ j.start \in Nat /\ i.start \in Nat
          BY <2>1, WidthAssumption DEF Scan, IInv, TypeOK, Intervals64, Word
        <4> QED BY <4>1 DEF Precedes
      <3> QED BY <3>1 DEF IInv, ScanInv, Scan
    <2>9. Tiled' \/ Wrapped'
      <3>1. CASE Tiled /\ cursor' = i.start + i.len
        <4>1. ExactTiling(scanned \cup {i}, DataStart, cursor + i.len)
          <5>1. scanned \subseteq Intervals64 /\ cursor \in Nat /\ DataStart \in Nat
            BY WidthAssumption DEF IInv, TypeOK, Word
          <5> QED BY <3>1, <5>1, <2>1, ExtendTiling DEF Tiled
        <4>2. DataStart <= cursor'
          BY <3>1, <2>1, WidthAssumption DEF Tiled, IInv, TypeOK, Word
        <4> QED BY <3>1, <4>1, <4>2 DEF Tiled, Scan
      <3>2. CASE cursor' < i.start
        BY <3>2 DEF Wrapped, Scan
      <3>3. CASE Wrapped
        <4>1. PICK k \in scanned : cursor < k.start
          BY <3>3 DEF Wrapped
        <4>2. k.start <= i.start
          BY DEF IInv, ScanInv, Scan
        <4>3. k.start \in Nat /\ i.start \in Nat
          BY <2>1, WidthAssumption DEF IInv, TypeOK, Intervals64, Word
        <4> QED BY <4>1, <4>2, <4>3
      <3> QED BY <3>1, <3>2, <3>3, <2>1, <2>2, PlusWord DEF IInv, ScanInv
    <2>10. ScanInv'
      BY <2>6, <2>7, <2>8, <2>9 DEF ScanInv, Scan
    <2> QED BY <2>3, <2>4, <2>10 DEF IInv
  <1> QED BY <1>1, <1>2

(* The verdict once the loop has left the sorted list behind.              *)
LEMMA ScanDoneIInv == ASSUME IInv, ScanDone PROVE IInv'
  <1>1. CASE ~(cursor = blocks /\ super_free = free_blocks)
    BY <1>1, RejectIInv DEF ScanDone
  <1>2. CASE cursor = blocks /\ super_free = free_blocks
    BY <1>2 DEF IInv, TypeOK, ListInv, ScanInv, ScanDone, Tiled, Wrapped,
                UsedData, Admitted, Plus, Allocation
  <1> QED BY <1>1, <1>2

-----------------------------------------------------------------------------
(* Every step of the accounting, and stuttering, keeps the invariant.      *)
LEMMA NextIInv == IInv /\ [Next]_vars => IInv'
  <1> SUFFICES ASSUME IInv, [Next]_vars PROVE IInv'
    OBVIOUS
  <1>1. ASSUME NEW s \in Word, NEW l \in Word, WalkExtent(s, l) PROVE IInv'
    BY <1>1, RejectIInv, NoteUsedIInv DEF WalkExtent, ExtentOK
  <1>2. ASSUME NEW s \in Word, NEW l \in Word, FreeExtent(s, l) PROVE IInv'
    BY <1>2, FreeExtentIInv
  <1>3. ASSUME NEW b \in Word, WalkBlock(b) PROVE IInv'
    <2>1. CASE ~BlockOK(b)
      BY <1>3, <2>1, RejectIInv DEF WalkBlock
    <2>2. CASE BlockOK(b)
      <3>1. 1 \in Word /\ Plus(b, 1) <= blocks
        BY <2>2, WidthAssumption DEF BlockOK, IInv, TypeOK, Word, Plus
      <3> QED BY <1>3, <2>2, <3>1, NoteUsedIInv DEF WalkBlock
    <2> QED BY <2>1, <2>2
  <1>4. ASSUME NEW b \in Word, WalkRootDir(b) PROVE IInv'
    <2>1. 1 \in Word /\ ~(DataStart <= b)
      BY <1>4, WidthAssumption DEF WalkRootDir, Word
    <2> QED BY <1>4, <2>1, NoteUsedIInv DEF WalkRootDir
  <1>5. ASSUME NEW i \in coverage, Scan(i) PROVE IInv'
    BY <1>5, ScanIInv
  <1>6. CASE WalkDone \/ FreeDone
    BY <1>6 DEF WalkDone, FreeDone, IInv, TypeOK, ListInv, ScanInv, Tiled, Wrapped,
                UsedData, Admitted, Plus
  <1>7. CASE Merge
    BY <1>7 DEF Merge, IInv, TypeOK, ListInv, ScanInv, Tiled, Wrapped,
                UsedData, Admitted, Plus, Allocation
  <1>8. CASE ScanDone
    BY <1>8, ScanDoneIInv
  <1>9. CASE UNCHANGED vars
    BY <1>9 DEF vars, IInv, TypeOK, ListInv, ScanInv, Tiled, Wrapped,
                UsedData, Admitted, Plus, Allocation
  <1> QED BY <1>1, <1>2, <1>3, <1>4, <1>5, <1>6, <1>7, <1>8, <1>9
          DEF Next, Verdict

(* The invariant holds in every behaviour of the scan.                     *)
THEOREM Invariance == Spec => []IInv
  BY InitIInv, NextIInv, PTL DEF Spec

(* The counters and intervals of the accounting keep the types image.c     *)
(* declares: no sum leaves the unsigned word.                              *)
THEOREM TypeCorrect == Spec => []TypeOK
  <1>1. IInv => TypeOK
    BY DEF IInv
  <1> QED BY <1>1, Invariance, PTL

(***************************************************************************)
(* No double allocation and no lost space in an image that the scan of     *)
(* aetherfs_image_validate accepts, whatever the widths, sizes and numbers *)
(* of intervals.                                                           *)
(***************************************************************************)
THEOREM ScanIsSound == Spec => []AcceptedTiles
  <1>1. IInv => AcceptedTiles
    <2> SUFFICES ASSUME IInv, pc = "accepted"
                 PROVE  ExactTiling(Allocation, DataStart, blocks)
      BY DEF AcceptedTiles
    <2>1. scanned = Allocation /\ cursor = blocks
      BY DEF IInv, ScanInv, ListInv
    <2>2. ~Wrapped
      <3>1. \A i \in scanned : i.start \in Nat /\ i.start <= blocks
        BY WidthAssumption DEF IInv, TypeOK, ScanInv, Intervals64, Word
      <3> QED BY <2>1, <3>1, WidthAssumption DEF Wrapped, IInv, TypeOK, Word
    <2> QED BY <2>1, <2>2 DEF IInv, ScanInv, Tiled
  <1> QED BY <1>1, Invariance, PTL
-----------------------------------------------------------------------------
(***************************************************************************)
(* The free count.  As long as no free extent ends beyond the image, the   *)
(* extents follow each other and the running sum is the number of blocks   *)
(* they cover; one that does makes acceptance impossible.                  *)
(***************************************************************************)
Inside(S) == \A i \in S : i.start + i.len <= blocks

FreeInv ==
    /\ Inside(free) =>
        /\ DataStart <= last_end /\ last_end <= blocks
        /\ \A i \in free : DataStart <= i.start /\ i.start + i.len <= last_end
        /\ free_blocks = Cardinality(FreeSpace)
    /\ pc = "accepted" => super_free = free_blocks

(* As long as no interval ends beyond the image, the cursor never falls    *)
(* behind an interval already scanned.                                     *)
CursorInv == Inside(coverage) => \A i \in scanned : i.start + i.len <= cursor

(* No free extent, no free space.                                          *)
LEMMA InitFreeInv == Init => FreeInv /\ CursorInv
  <1> SUFFICES ASSUME Init PROVE FreeInv /\ CursorInv
    OBVIOUS
  <1>1. FreeSpace = {}
    BY DEF Init, FreeSpace
  <1>2. DataStart <= blocks /\ DataStart <= DataStart
    BY SizesAssumption, WidthAssumption DEF Init
  <1> QED BY <1>1, <1>2, FS_EmptySet DEF Init, FreeInv, CursorInv

(* A free extent that lies within the image adds its blocks, and no sum    *)
(* wraps.                                                                  *)
LEMMA FreeExtentCount ==
    ASSUME IInv, FreeInv, NEW s \in Word, NEW l \in Word, FreeExtent(s, l)
    PROVE  FreeInv'
  <1>0. pc' # "accepted"
    BY DEF FreeExtent, Reject
  <1>1. CASE ~FreeOK(s, l)
    <2>1. UNCHANGED << blocks, free, last_end, free_blocks >>
      BY <1>1 DEF FreeExtent, Reject
    <2> QED BY <1>0, <2>1 DEF FreeInv, Inside, FreeSpace
  <1>2. CASE FreeOK(s, l)
    <2> DEFINE n == Interval(noted, s, l)
    <2>1. n.start = s /\ n.len = l
      BY DEF Interval
    <2>2. /\ free' = free \cup {n} /\ blocks' = blocks
          /\ free_blocks' = Plus(free_blocks, l) /\ last_end' = Plus(s, l)
          /\ l # 0 /\ last_end <= s
      BY <1>2 DEF FreeExtent, FreeOK, FreeTotal
    <2> HIDE DEF n
    <2> SUFFICES ASSUME Inside(free)'
                 PROVE  /\ DataStart <= last_end' /\ last_end' <= blocks'
                        /\ \A i \in free' : DataStart <= i.start /\ i.start + i.len <= last_end'
                        /\ free_blocks' = Cardinality(FreeSpace')
      BY <1>0 DEF FreeInv
    <2>3. Inside(free) /\ s + l <= blocks
      BY <2>1, <2>2 DEF Inside
    <2>4. /\ DataStart <= last_end /\ last_end <= blocks
          /\ \A i \in free : DataStart <= i.start /\ i.start + i.len <= last_end
          /\ free_blocks = Cardinality(FreeSpace)
      BY <2>3 DEF FreeInv
    <2>5. /\ s \in Nat /\ l \in Nat /\ blocks \in Nat /\ last_end \in Nat
          /\ DataStart \in Nat /\ W \in Nat /\ blocks < W /\ free_blocks \in Nat
      BY WidthAssumption DEF IInv, TypeOK, Word
    <2>6. \A i \in free : i.start \in Nat /\ i.len \in Nat
      BY WidthAssumption DEF IInv, TypeOK, Intervals64, Word
    <2>7. last_end' = s + l
      BY <2>2, <2>3, <2>5 DEF Plus
    <2>8. \A i \in free' : DataStart <= i.start /\ i.start + i.len <= last_end'
      BY <2>1, <2>2, <2>4, <2>5, <2>6, <2>7
    <2> DEFINE new == s .. (s + l - 1)
    <2>9. FreeSpace' = FreeSpace \cup new
      <3>1. ASSUME NEW b PROVE b \in FreeSpace' <=> b \in FreeSpace \cup new
        <4>1. b \in FreeSpace' <=> /\ b \in DataStart .. (blocks - 1)
                                   /\ Covers(n, b) \/ \E i \in free : Covers(i, b)
          BY <2>2 DEF FreeSpace
        <4>2. b \in new <=> b \in DataStart .. (blocks - 1) /\ Covers(n, b)
          BY <2>1, <2>2, <2>3, <2>4, <2>5 DEF Covers
        <4> QED BY <4>1, <4>2 DEF FreeSpace
      <3> QED BY <3>1
    <2>10. FreeSpace \subseteq DataStart .. (last_end - 1)
      BY <2>4, <2>5, <2>6 DEF FreeSpace, Covers
    <2>11. /\ IsFiniteSet(DataStart .. (last_end - 1))
           /\ Cardinality(DataStart .. (last_end - 1)) = last_end - DataStart
           /\ IsFiniteSet(new) /\ Cardinality(new) = l
      <3>1. last_end - 1 \in Int /\ s + l - 1 \in Int /\ DataStart \in Int /\ s \in Int
        BY <2>5
      <3>2. /\ IsFiniteSet(DataStart .. (last_end - 1))
            /\ Cardinality(DataStart .. (last_end - 1))
                 = IF DataStart > last_end - 1 THEN 0 ELSE (last_end - 1) - DataStart + 1
        BY <3>1, FS_Interval
      <3>3. /\ IsFiniteSet(new)
            /\ Cardinality(new) = IF s > s + l - 1 THEN 0 ELSE (s + l - 1) - s + 1
        BY <3>1, FS_Interval
      <3> QED BY <2>4, <2>5, <3>2, <3>3
    <2>12. /\ IsFiniteSet(FreeSpace) /\ Cardinality(FreeSpace) \in Nat
           /\ Cardinality(FreeSpace) <= last_end - DataStart
      <3>1. /\ IsFiniteSet(FreeSpace)
            /\ Cardinality(FreeSpace) <= Cardinality(DataStart .. (last_end - 1))
        BY ONLY <2>10, <2>11, FS_Subset
      <3>2. Cardinality(FreeSpace) \in Nat
        BY ONLY <3>1, FS_CardinalityType
      <3> QED
        BY ONLY <2>11, <3>1, <3>2
    <2>13. FreeSpace \cap new = {}
      BY <2>2, <2>5, <2>10
    <2>14. Cardinality(FreeSpace \cup new) = Cardinality(FreeSpace) + l
      <3> HIDE DEF new
      <3>1. Cardinality(FreeSpace \cup new)
                = Cardinality(FreeSpace) + Cardinality(new) - Cardinality({})
        BY <2>11, <2>12, <2>13, FS_Union
      <3> QED BY <2>5, <2>11, <2>12, <3>1, FS_EmptySet
    <2>15. free_blocks' = free_blocks + l
      BY <2>2, <2>3, <2>4, <2>5, <2>12 DEF Plus
    <2>16. DataStart <= last_end' /\ last_end' <= blocks'
      BY <2>2, <2>3, <2>4, <2>5, <2>7
    <2> QED BY <2>4, <2>8, <2>9, <2>14, <2>15, <2>16
  <1> QED BY <1>1, <1>2

(* Only the free extents are counted, and acceptance compares the sum.     *)
LEMMA NextFreeInv == IInv /\ FreeInv /\ [Next]_vars => FreeInv'
  <1> SUFFICES ASSUME IInv, FreeInv, [Next]_vars PROVE FreeInv'
    OBVIOUS
  <1>1. ASSUME NEW s \in Word, NEW l \in Word, FreeExtent(s, l) PROVE FreeInv'
    BY <1>1, FreeExtentCount
  <1>2. CASE /\ UNCHANGED << blocks, free, last_end, free_blocks, super_free >>
             /\ pc' = "accepted" => pc = "accepted" \/ super_free = free_blocks
    BY <1>2 DEF FreeInv, Inside, FreeSpace
  <1> QED BY <1>1, <1>2
          DEF Next, Verdict, vars, WalkExtent, WalkBlock, WalkRootDir, NoteUsed, Reject,
              WalkDone, FreeDone, Merge, Scan, ScanDone

(* The cursor moves to the end of the interval it met.                     *)
LEMMA NextCursorInv == IInv /\ CursorInv /\ [Next]_vars => CursorInv'
  <1> SUFFICES ASSUME IInv, CursorInv, [Next]_vars, Inside(coverage)'
               PROVE  \A k \in scanned' : k.start + k.len <= cursor'
    BY DEF CursorInv
  <1>1. ASSUME NEW i \in coverage, Scan(i) PROVE \A k \in scanned' : k.start + k.len <= cursor'
    <2>1. coverage' = coverage /\ blocks' = blocks
      BY <1>1 DEF Scan, Reject
    <2>2. \A k \in scanned : k.start + k.len <= cursor
      BY <2>1 DEF CursorInv, Inside
    <2>3. CASE i.start # cursor
      BY <1>1, <2>2, <2>3 DEF Scan, Reject
    <2>4. CASE i.start = cursor
      <3>1. i.start \in Nat /\ i.len \in Nat /\ i.start + i.len <= blocks
        BY <2>1, WidthAssumption DEF IInv, TypeOK, Intervals64, Word, Inside
      <3>2. blocks < W /\ blocks \in Nat /\ W \in Nat
        BY WidthAssumption DEF IInv, TypeOK, Word
      <3>3. cursor' = i.start + i.len /\ scanned' = scanned \cup {i}
        BY <1>1, <2>4, <3>1, <3>2 DEF Scan, Plus
      <3>4. \A k \in scanned : k.start \in Nat /\ k.len \in Nat
        BY WidthAssumption DEF IInv, TypeOK, Intervals64, Word
      <3> QED BY <2>2, <2>4, <3>1, <3>3, <3>4
    <2> QED BY <2>3, <2>4
  <1>2. CASE UNCHANGED << scanned, cursor, coverage, blocks >>
    BY <1>2 DEF CursorInv, Inside
  <1>3. CASE scanned' = {}
    BY <1>3
  <1> QED BY <1>1, <1>2, <1>3
          DEF Next, Verdict, vars, WalkExtent, WalkBlock, WalkRootDir, NoteUsed, Reject,
              WalkDone, FreeDone, FreeExtent, Merge, ScanDone, IInv, ListInv
-----------------------------------------------------------------------------
(* The three invariants together.                                          *)
LEMMA CountInvariance == Spec => [](IInv /\ FreeInv /\ CursorInv)
  BY InitIInv, InitFreeInv, NextIInv, NextFreeInv, NextCursorInv, PTL DEF Spec

(***************************************************************************)
(* The free count of an accepted image is the number of blocks its free    *)
(* extents cover: the running sum of the free loop did not wrap.           *)
(***************************************************************************)
THEOREM FreeCountIsExact == Spec => []AcceptedFreeCount
  <1>1. IInv /\ FreeInv /\ AcceptedTiles => AcceptedFreeCount
    <2> SUFFICES ASSUME IInv, FreeInv, AcceptedTiles, pc = "accepted"
                 PROVE  super_free = Cardinality(FreeSpace)
      BY DEF AcceptedFreeCount
    <2>1. Inside(free)
      BY DEF AcceptedTiles, ExactTiling, InRange, Allocation, Inside
    <2> QED BY <2>1 DEF FreeInv
  <1> QED BY <1>1, CountInvariance, ScanIsSound, PTL

(* An allocation that tiles the data region leaves the scan no reason to   *)
(* stop: the next interval starts at the cursor.                           *)
LEMMA ScanGoesOn ==
    ASSUME IInv, CursorInv, pc = "scan", ExactTiling(Allocation, DataStart, blocks),
           NEW i \in coverage, Scan(i)
    PROVE  i.start = cursor
  <1>1. coverage = Allocation
    BY DEF IInv, ListInv
  <1>2. \A k \in scanned : k.start + k.len <= cursor
    BY <1>1 DEF CursorInv, Inside, ExactTiling, InRange
  <1>3. \A k \in coverage : k.start \in Nat /\ k.len \in Nat /\ k.len # 0
    <2>1. \A k \in coverage : k.len # 0
      BY <1>1 DEF IInv, ListInv, Admitted, Allocation
    <2> QED BY <2>1, WidthAssumption DEF IInv, TypeOK, Intervals64, Word
  <1>4. /\ cursor \in Nat /\ blocks \in Nat /\ DataStart \in Nat /\ scanned \subseteq coverage
    BY WidthAssumption DEF IInv, TypeOK, Word
  <1>5. ~Wrapped
    BY <1>2, <1>3, <1>4 DEF Wrapped
  <1>6. DataStart <= cursor /\ ExactTiling(scanned, DataStart, cursor)
    BY <1>5 DEF IInv, ScanInv, Tiled
  <1>7. i \in coverage /\ i \notin scanned /\ DataStart <= i.start /\ i.start + i.len <= blocks
    BY <1>1 DEF Scan, ExactTiling, InRange
  <1>8. CASE i.start < cursor
    <2>1. i.start \in DataStart .. (cursor - 1) /\ i.start \in DataStart .. (blocks - 1)
      BY <1>3, <1>4, <1>7, <1>8
    <2>2. PICK k \in scanned : Covers(k, i.start)
      BY <1>6, <2>1 DEF ExactTiling, CoveredOnce
    <2>3. Covers(i, i.start)
      BY <1>3, <1>7 DEF Covers
    <2>4. k = i
      BY <1>1, <1>4, <1>7, <2>1, <2>2, <2>3 DEF ExactTiling, CoveredOnce
    <2> QED BY <1>7, <2>4
  <1>9. CASE cursor < i.start
    <2>1. cursor \in DataStart .. (blocks - 1)
      BY <1>3, <1>4, <1>6, <1>7, <1>9
    <2>2. PICK k \in coverage : Covers(k, cursor)
      BY <1>1, <2>1 DEF ExactTiling, CoveredOnce
    <2>3. CASE k \in scanned
      BY <1>2, <1>3, <1>4, <2>2, <2>3 DEF Covers
    <2>4. CASE k \notin scanned
      <3>1. ~Precedes(k, i)
        BY <2>4 DEF Scan
      <3> QED BY <1>3, <1>4, <1>7, <1>9, <2>2, <3>1 DEF Covers, Precedes
    <2> QED BY <2>3, <2>4
  <1> QED BY <1>3, <1>4, <1>7, <1>8, <1>9

(* And when every interval is scanned the cursor is at the end.            *)
LEMMA ScanEndsAtEnd ==
    ASSUME IInv, CursorInv, pc = "scan", ExactTiling(Allocation, DataStart, blocks),
           scanned = coverage
    PROVE  cursor = blocks
  <1>1. coverage = Allocation
    BY DEF IInv, ListInv
  <1>2. \A k \in scanned : k.start + k.len <= cursor
    BY <1>1 DEF CursorInv, Inside, ExactTiling, InRange
  <1>3. \A k \in coverage : k.start \in Nat /\ k.len \in Nat
    BY WidthAssumption DEF IInv, TypeOK, Intervals64, Word
  <1>4. cursor \in Nat /\ blocks \in Nat /\ DataStart \in Nat /\ cursor <= blocks
    BY WidthAssumption DEF IInv, TypeOK, Word, ScanInv
  <1>5. ~Wrapped
    BY <1>2, <1>3, <1>4 DEF Wrapped
  <1>6. DataStart <= cursor
    BY <1>5 DEF IInv, ScanInv, Tiled
  <1> SUFFICES ASSUME cursor < blocks PROVE FALSE
    BY <1>4
  <1>7. cursor \in DataStart .. (blocks - 1)
    BY <1>4, <1>6
  <1>8. PICK k \in coverage : Covers(k, cursor)
    BY <1>1, <1>7 DEF ExactTiling, CoveredOnce
  <1> QED BY <1>2, <1>3, <1>4, <1>8 DEF Covers

(***************************************************************************)
(* The scan of aetherfs_image_validate rejects only an image whose         *)
(* intervals do not tile the data region, or whose superblock miscounts    *)
(* the free blocks: with ScanIsSound and FreeCountIsExact, it decides      *)
(* exactly that.                                                           *)
(***************************************************************************)
THEOREM ScanIsComplete == Spec => NoFalseAlarm
  <1> DEFINE Tiles == /\ ExactTiling(Allocation, DataStart, blocks)
                      /\ super_free = Cardinality(FreeSpace)
  <1>1. IInv /\ FreeInv /\ CursorInv /\ [Next]_vars
          => [pc = "scan" /\ pc' = "rejected" => ~Tiles]_vars
    <2> SUFFICES ASSUME IInv, FreeInv, CursorInv, Next, pc = "scan", pc' = "rejected", Tiles
                 PROVE  FALSE
      OBVIOUS
    <2>1. (\E i \in coverage : Scan(i)) \/ ScanDone
      BY DEF Next, WalkExtent, FreeExtent, WalkBlock, WalkRootDir, WalkDone, FreeDone,
             Merge, Verdict
    <2>2. ASSUME NEW i \in coverage, Scan(i) PROVE FALSE
      <3>1. i.start = cursor
        BY <2>2, ScanGoesOn
      <3> QED BY <2>2, <3>1 DEF Scan
    <2>3. CASE ScanDone
      <3>1. cursor = blocks
        BY <2>3, ScanEndsAtEnd DEF ScanDone
      <3>2. Inside(free)
        BY DEF ExactTiling, InRange, Allocation, Inside
      <3>3. super_free = free_blocks
        BY <3>2 DEF FreeInv
      <3> QED BY <2>3, <3>1, <3>3 DEF ScanDone
    <2> QED BY <2>1, <2>2, <2>3
  <1> QED BY <1>1, CountInvariance, PTL DEF Spec, NoFalseAlarm
=============================================================================
