------------------------------ MODULE Coverage ------------------------------
(***************************************************************************)
(* The space accounting of aetherfs_image_validate (aetherfsprogs/image.c):*)
(* the intervals noted while the inodes are walked, the free extents, and  *)
(* the sorted scan that accepts an image only when the two together fill   *)
(* the data region.                                                        *)
(*                                                                         *)
(* Every number is a uint64_t read from the image, so an end "start + len" *)
(* may wrap: W is 2^64 in the code and a small number for TLC.             *)
(***************************************************************************)
EXTENDS Intervals, FiniteSets

CONSTANTS
    W,          \* number of values of the unsigned type
    DataStart,  \* AETHERFS_DATA_START_BLOCK
    Sizes,      \* the image sizes considered, in blocks
    Counts,     \* the values of s_free_blocks considered
    MaxUsed,    \* bound: intervals noted by the inode walk
    MaxFree     \* AETHERFS_EXTENT_LOG_MAX

ASSUME WidthAssumption == W \in Nat /\ DataStart \in Nat /\ DataStart < W
ASSUME SizesAssumption == Sizes \subseteq {b \in 0 .. (W - 1) : DataStart <= b}
ASSUME CountsAssumption == Counts \subseteq 0 .. (W - 1)
ASSUME BoundAssumption == MaxUsed \in Nat /\ MaxFree \in Nat

Word == 0 .. (W - 1)

VARIABLES
    pc,          \* "walk", "free", "merge", "scan", "accepted", "rejected"
    blocks,      \* image->blocks, at least BOOTSTRAP_BLOCKS
    noted,       \* intervals appended so far: the next list position
    used,        \* the list `used`
    free,        \* the intervals of the free-extent node read so far
    last_end,    \* end of the last free extent
    free_blocks, \* running sum of the free lengths
    coverage,    \* the list `coverage`
    scanned,     \* the part of the sorted coverage behind the loop index
    cursor,      \* the block the next interval has to start at
    super_free   \* s_free_blocks

vars == << pc, blocks, noted, used, free, last_end, free_blocks, coverage,
           scanned, cursor, super_free >>

(* uint64_t addition of two words.                                         *)
Plus(a, b) == IF a + b < W THEN a + b ELSE a + b - W

Init ==
    /\ pc = "walk"
    /\ blocks \in Sizes
    /\ super_free \in Counts
    /\ noted = 0 /\ used = {} /\ free = {} /\ coverage = {} /\ scanned = {}
    /\ last_end = DataStart /\ free_blocks = 0 /\ cursor = DataStart

Reject ==
    /\ pc' = "rejected"
    /\ UNCHANGED << blocks, noted, used, free, last_end, free_blocks, coverage,
                    scanned, cursor, super_free >>

(***************************************************************************)
(* The inode walk.  The extent test of the loop over en_extents, and the   *)
(* test on the single blocks that hold extent nodes and checksums.  The    *)
(* root directory block lies below DataStart and is noted untested.        *)
(***************************************************************************)
ExtentOK(s, l) == l # 0 /\ DataStart <= s /\ Plus(s, l) <= blocks

BlockOK(b) == DataStart <= b /\ b < blocks

NoteUsed(s, l) ==
    /\ noted < MaxUsed
    /\ used' = used \cup {Interval(noted, s, l)}
    /\ noted' = noted + 1
    /\ UNCHANGED << pc, blocks, free, last_end, free_blocks, coverage,
                    scanned, cursor, super_free >>

WalkExtent(s, l) ==
    /\ pc = "walk"
    /\ IF ExtentOK(s, l) THEN NoteUsed(s, l) ELSE Reject

WalkBlock(b) ==
    /\ pc = "walk"
    /\ IF BlockOK(b) THEN NoteUsed(b, 1) ELSE Reject

WalkRootDir(b) ==
    /\ pc = "walk"
    /\ b < DataStart
    /\ NoteUsed(b, 1)

WalkDone ==
    /\ pc = "walk"
    /\ pc' = "free"
    /\ UNCHANGED << blocks, noted, used, free, last_end, free_blocks, coverage,
                    scanned, cursor, super_free >>

(***************************************************************************)
(* The loop over the free extents, each of which must follow the last.     *)
(***************************************************************************)
FreeTotal_wide(l) == free_blocks + l
FreeTotal(l) == Plus(free_blocks, l)

FreeOK(s, l) == l # 0 /\ last_end <= s /\ Plus(s, l) <= blocks

FreeExtent(s, l) ==
    /\ pc = "free"
    /\ Cardinality(free) < MaxFree
    /\ IF FreeOK(s, l)
       THEN /\ free' = free \cup {Interval(noted, s, l)}
            /\ coverage' = coverage \cup {Interval(noted, s, l)}
            /\ noted' = noted + 1
            /\ free_blocks' = FreeTotal(l)
            /\ last_end' = Plus(s, l)
            /\ UNCHANGED << pc, blocks, used, scanned, cursor, super_free >>
       ELSE Reject

FreeDone ==
    /\ pc = "free"
    /\ pc' = "merge"
    /\ UNCHANGED << blocks, noted, used, free, last_end, free_blocks, coverage,
                    scanned, cursor, super_free >>

(***************************************************************************)
(* The used intervals of the data region join the free ones.               *)
(***************************************************************************)
UsedData == {i \in used : DataStart <= i.start}

Merge ==
    /\ pc = "merge"
    /\ pc' = "scan"
    /\ coverage' = coverage \cup UsedData
    /\ UNCHANGED << blocks, noted, used, free, last_end, free_blocks,
                    scanned, cursor, super_free >>

(***************************************************************************)
(* qsort orders by start, then by length; the loop then visits the list in *)
(* that order, here as: a least interval among those not yet visited.      *)
(***************************************************************************)
Precedes_byLength(i, j) == i.len < j.len \/ (i.len = j.len /\ i.start < j.start)
Precedes(i, j) == i.start < j.start \/ (i.start = j.start /\ i.len < j.len)

Scan(i) ==
    /\ pc = "scan"
    /\ i \in coverage \ scanned
    /\ \A j \in coverage \ scanned : ~Precedes(j, i)
    /\ IF i.start = cursor
       THEN /\ cursor' = Plus(i.start, i.len)
            /\ scanned' = scanned \cup {i}
            /\ UNCHANGED << pc, blocks, noted, used, free, last_end,
                            free_blocks, coverage, super_free >>
       ELSE Reject

ScanDone_noEnd ==
    /\ pc = "scan"
    /\ scanned = coverage
    /\ IF super_free = free_blocks
       THEN /\ pc' = "accepted"
            /\ UNCHANGED << blocks, noted, used, free, last_end, free_blocks,
                            coverage, scanned, cursor, super_free >>
       ELSE Reject

ScanDone_noCount ==
    /\ pc = "scan"
    /\ scanned = coverage
    /\ IF cursor = blocks
       THEN /\ pc' = "accepted"
            /\ UNCHANGED << blocks, noted, used, free, last_end, free_blocks,
                            coverage, scanned, cursor, super_free >>
       ELSE Reject

ScanDone ==
    /\ pc = "scan"
    /\ scanned = coverage
    /\ IF cursor = blocks /\ super_free = free_blocks
       THEN /\ pc' = "accepted"
            /\ UNCHANGED << blocks, noted, used, free, last_end, free_blocks,
                            coverage, scanned, cursor, super_free >>
       ELSE Reject

Verdict ==
    /\ pc \in {"accepted", "rejected"}
    /\ UNCHANGED vars

Next ==
    \/ \E s, l \in Word : WalkExtent(s, l) \/ FreeExtent(s, l)
    \/ \E b \in Word : WalkBlock(b) \/ WalkRootDir(b)
    \/ \E i \in coverage : Scan(i)
    \/ WalkDone \/ FreeDone \/ Merge \/ ScanDone \/ Verdict

Spec == Init /\ [][Next]_vars
-----------------------------------------------------------------------------
Intervals64 == [id : Nat, start : Word, len : Word]

(* The state stays within the types the C code declares: every sum wraps.  *)
TypeOK ==
    /\ pc \in {"walk", "free", "merge", "scan", "accepted", "rejected"}
    /\ blocks \in Word /\ DataStart <= blocks /\ super_free \in Word
    /\ noted \in Nat
    /\ used \subseteq Intervals64 /\ free \subseteq Intervals64
    /\ coverage \subseteq Intervals64 /\ scanned \subseteq coverage
    /\ last_end \in Word /\ free_blocks \in Word /\ cursor \in Word

Allocation == free \cup UsedData

(***************************************************************************)
(* An accepted image has no double allocation and no lost space: every     *)
(* block of the data region belongs to exactly one free extent or used     *)
(* interval, and none of them leaves the region, although the tests that   *)
(* admitted them compare wrapped sums.                                     *)
(***************************************************************************)
AcceptedTiles ==
    pc = "accepted" => ExactTiling(Allocation, DataStart, blocks)

FreeSpace == {b \in DataStart .. (blocks - 1) : \E i \in free : Covers(i, b)}

(***************************************************************************)
(* The free count of the superblock of an accepted image is the number of  *)
(* blocks no file uses: the wrapped running sum lost nothing.              *)
(***************************************************************************)
AcceptedFreeCount ==
    pc = "accepted" => super_free = Cardinality(FreeSpace)

(***************************************************************************)
(* The scan raises no false alarm: it rejects only when the allocation is  *)
(* no tiling of the data region, or the superblock counts it wrongly.      *)
(***************************************************************************)
NoFalseAlarm ==
    [][ pc = "scan" /\ pc' = "rejected" =>
          ~ ( /\ ExactTiling(Allocation, DataStart, blocks)
              /\ super_free = Cardinality(FreeSpace) ) ]_vars
=============================================================================
