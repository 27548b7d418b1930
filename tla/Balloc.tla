------------------------------- MODULE Balloc -------------------------------
(***************************************************************************)
(* The group bitmaps of the kernel's allocator (kernel/balloc.c) and the   *)
(* free counter of the superblock, used by concurrent callers.             *)
(*                                                                         *)
(* A bitmap changes under its ab_lock, in one action.  s_free_blocks has   *)
(* no lock: it is read and written in two.                                 *)
(***************************************************************************)
EXTENDS Integers, FiniteSets

CONSTANTS
    Callers,
    Groups,      \* fs_ag_count
    Bits,        \* AETHERFS_BITMAP_BITS
    PerGroup,    \* AETHERFS_BLOCKS_PER_GROUP
    DataStart,   \* AETHERFS_DATA_START_BLOCK
    W,           \* number of values of s_free_blocks
    FreeCounts,  \* its values at mount time
    Requests,    \* the block counts asked for
    MaxGrants    \* bound: allocations that succeed

ASSUME BallocAssumption ==
    /\ Groups \in Nat \ {0} /\ Bits \in Nat \ {0} /\ DataStart \in Nat \ {0}
    /\ PerGroup \in Nat /\ Bits <= PerGroup
    /\ W \in Nat \ {0} /\ FreeCounts \subseteq 0 .. (W - 1)
    /\ Requests \subseteq Nat \ {0} /\ MaxGrants \in Nat

AGs == 0 .. (Groups - 1)
Bit == 0 .. (Bits - 1)

VARIABLES
    ab_bitmap,      \* of each group: the bits that are set
    ab_free,        \* of each group
    s_free_blocks,
    pc,             \* of each caller: "idle", "try", "take", "taken", "give", "given"
    call,           \* its arguments, and ag, the loop index
    seen,           \* the value of s_free_blocks it has read
    granted,        \* extents handed out and not freed yet
    grants,         \* number of grants: the last id
    mounted_free,   \* history: s_free_blocks at mount time
    lost,           \* history: freed extents that began at bit 0
    raced, multi    \* history: an update of s_free_blocks overlapped another;
                    \* more than one block was asked for

bitmaps == << ab_bitmap, ab_free, granted, grants, lost >>
vars == << bitmaps, s_free_blocks, pc, call, seen, mounted_free, raced, multi >>

Extent(id, g, b, n) == [id |-> id, ag |-> g, bit |-> b, len |-> n]
Span(x) == x.bit .. (x.bit + x.len - 1)
Call(n, h) == [count |-> n, hint |-> h, ag |-> 0, id |-> 0]

(* aetherfs_free_space_init: every bit is zero, whatever the image uses.   *)
Init ==
    /\ ab_bitmap = [g \in AGs |-> {}] /\ ab_free = [g \in AGs |-> Bits]
    /\ s_free_blocks \in FreeCounts /\ mounted_free = s_free_blocks
    /\ pc = [c \in Callers |-> "idle"] /\ call = [c \in Callers |-> Call(0, 0)]
    /\ seen = [c \in Callers |-> 0]
    /\ granted = {} /\ grants = 0 /\ lost = {} /\ raced = FALSE /\ multi = FALSE

-----------------------------------------------------------------------------
(***************************************************************************)
(* aetherfs_alloc_blocks_extended: a hint beyond the last group is 0.      *)
(***************************************************************************)
alloc_blocks_extended(c, n, h) ==
    /\ pc[c] = "idle" /\ grants < MaxGrants
    /\ pc' = [pc EXCEPT ![c] = "try"]
    /\ call' = [call EXCEPT ![c] = Call(n, IF h >= Groups THEN 0 ELSE h)]
    /\ multi' = (multi \/ n > 1)
    /\ UNCHANGED << bitmaps, s_free_blocks, seen, mounted_free, raced >>

try_ag(c) == (call[c].hint + call[c].ag) % Groups

(* ag_bitmap_alloc: enough free bits in all, and a first one.              *)
HasRoom_any(g, n) == ab_free[g] > 0
HasRoom(g, n) == ab_free[g] >= n

ZeroBits(g) == Bit \ ab_bitmap[g]

IsFirstZero(g, b) == b \in ZeroBits(g) /\ \A z \in ZeroBits(g) : b <= z

Grant(c, b) ==
    LET g == try_ag(c)  n == call[c].count IN
    /\ pc[c] = "try" /\ grants < MaxGrants
    /\ HasRoom(g, n) /\ IsFirstZero(g, b)
    /\ ab_bitmap' = [ab_bitmap EXCEPT ![g] = @ \cup b .. (b + n - 1)]
    /\ ab_free' = [ab_free EXCEPT ![g] = @ - n]
    /\ grants' = grants + 1
    /\ granted' = granted \cup {Extent(grants + 1, g, b, n)}
    /\ call' = [call EXCEPT ![c].id = grants + 1]
    /\ pc' = [pc EXCEPT ![c] = "take"]
    /\ UNCHANGED << s_free_blocks, seen, mounted_free, lost, raced, multi >>

(* -ENOSPC: the loop goes on to the next group, or returns 0 after all.    *)
NoSpace(c) ==
    /\ pc[c] = "try"
    /\ ~HasRoom(try_ag(c), call[c].count) \/ ZeroBits(try_ag(c)) = {}
    /\ IF call[c].ag + 1 < Groups
       THEN call' = [call EXCEPT ![c].ag = @ + 1] /\ UNCHANGED pc
       ELSE pc' = [pc EXCEPT ![c] = "idle"] /\ call' = [call EXCEPT ![c] = Call(0, 0)]
    /\ UNCHANGED << bitmaps, s_free_blocks, seen, mounted_free, raced, multi >>

-----------------------------------------------------------------------------
(***************************************************************************)
(* aetherfs_free_blocks_extended: the block number leads back to the group *)
(* and the bit.  ag_bitmap_free does nothing when the bit is 0, and the    *)
(* free counter of the superblock grows all the same.                      *)
(***************************************************************************)
Address(g, b) == b + g * PerGroup + DataStart

AgOf(start) == (start - DataStart) \div PerGroup

BitOf_physical(start) == start % PerGroup
BitOf(start) == (start - DataStart) % PerGroup

ClearedBits_first(b, n) == IF b = 0 THEN {} ELSE {b}
ClearedBits(b, n) == IF b = 0 THEN {} ELSE b .. (b + n - 1)

Returned_always(b, n) == n
Returned(b, n) == IF b = 0 THEN 0 ELSE n

(* Whoever frees an extent has got it from a call that returned.           *)
InUse(x) == \A c \in Callers : pc[c] \in {"take", "taken"} => call[c].id # x.id

free_blocks_extended(c, x) ==
    LET start == Address(x.ag, x.bit)  g == AgOf(start)  b == BitOf(start) IN
    /\ pc[c] = "idle" /\ InUse(x)
    /\ start - DataStart < Groups * PerGroup
    /\ ab_bitmap' = [ab_bitmap EXCEPT ![g] = @ \ ClearedBits(b, x.len)]
    /\ ab_free' = [ab_free EXCEPT ![g] = @ + Returned(b, x.len)]
    /\ granted' = granted \ {x}
    /\ lost' = IF x.bit = 0 THEN lost \cup {x} ELSE lost
    /\ call' = [call EXCEPT ![c] = Call(x.len, 0)]
    /\ pc' = [pc EXCEPT ![c] = "give"]
    /\ UNCHANGED << s_free_blocks, seen, mounted_free, grants, raced, multi >>

-----------------------------------------------------------------------------
(***************************************************************************)
(* info->s_free_blocks -= count and += count.                              *)
(***************************************************************************)
ReadCount(c) ==
    /\ pc[c] \in {"take", "give"}
    /\ seen' = [seen EXCEPT ![c] = s_free_blocks]
    /\ pc' = [pc EXCEPT ![c] = IF @ = "take" THEN "taken" ELSE "given"]
    /\ UNCHANGED << bitmaps, s_free_blocks, call, mounted_free, raced, multi >>

Updated_signed(c) ==
    IF pc[c] = "taken" THEN seen[c] - call[c].count ELSE seen[c] + call[c].count
Updated_one(c) ==
    (IF pc[c] = "taken" THEN seen[c] - 1 ELSE seen[c] + call[c].count) % W
Updated(c) ==
    (IF pc[c] = "taken" THEN seen[c] - call[c].count ELSE seen[c] + call[c].count) % W

WriteCount(c) ==
    /\ pc[c] \in {"taken", "given"}
    /\ s_free_blocks' = Updated(c)
    /\ raced' = (raced \/ \E d \in Callers \ {c} : pc[d] \in {"taken", "given"})
    /\ pc' = [pc EXCEPT ![c] = "idle"] /\ call' = [call EXCEPT ![c] = Call(0, 0)]
    /\ seen' = [seen EXCEPT ![c] = 0]
    /\ UNCHANGED << bitmaps, mounted_free, multi >>

Next ==
    \E c \in Callers :
        \/ \E n \in Requests, h \in 0 .. Groups : alloc_blocks_extended(c, n, h)
        \/ \E b \in Bit : Grant(c, b)
        \/ NoSpace(c)
        \/ \E x \in granted : free_blocks_extended(c, x)
        \/ ReadCount(c) \/ WriteCount(c)

Spec == Init /\ [][Next]_vars
-----------------------------------------------------------------------------
Extents == [id : 1 .. MaxGrants, ag : AGs, bit : Bit, len : Requests]

(* The counters stay in their unsigned types.                              *)
TypeOK ==
    /\ ab_bitmap \in [AGs -> SUBSET Nat] /\ ab_free \in [AGs -> 0 .. Bits]
    /\ s_free_blocks \in 0 .. (W - 1) /\ mounted_free \in 0 .. (W - 1)
    /\ pc \in [Callers -> {"idle", "try", "take", "taken", "give", "given"}]
    /\ call \in [Callers -> [count : Requests \cup {0}, hint : AGs, ag : AGs,
                             id : 0 .. MaxGrants]]
    /\ seen \in [Callers -> 0 .. (W - 1)]
    /\ granted \subseteq Extents /\ lost \subseteq Extents
    /\ grants \in 0 .. MaxGrants /\ raced \in BOOLEAN /\ multi \in BOOLEAN

(***************************************************************************)
(* bitmap_set never runs past the end of a bitmap, although only the total *)
(* of free bits and the first of them are looked at: every extent handed   *)
(* out lies within its group.                                              *)
(***************************************************************************)
GrantsInGroup == \A x \in granted : x.bit + x.len <= Bits

(* The blocks of a set of extents, one that belongs to two counted twice.  *)
Held(xs) == UNION {{x} \X Span(x) : x \in xs}
Total(xs) == Cardinality(Held(xs))
OfGroup(xs, g) == {x \in xs : x.ag = g}

(***************************************************************************)
(* The free count of a group is what is neither in use nor lost, also when *)
(* extents overlap and their bits were set twice.                          *)
(***************************************************************************)
FreeCountExact ==
    \A g \in AGs : ab_free[g] = Bits - Total(OfGroup(granted \cup lost, g))

(***************************************************************************)
(* Every bit that is set belongs to an extent in use: what is freed can be *)
(* handed out again.                                                       *)
(***************************************************************************)
NoLostSpace ==
    \A g \in AGs : ab_bitmap[g] \subseteq UNION {Span(x) : x \in OfGroup(granted, g)}

(***************************************************************************)
(* NoLostSpace fails, and ag_bitmap_free's refusal of bit 0 is the only    *)
(* cause: a bit that is set belongs to an extent in use or to a freed one  *)
(* that began at bit 0 of its group.  No length, group or overlap of       *)
(* extents loses a bit in another way.                                     *)
(***************************************************************************)
LossOnlyAtFirstBit ==
    \A g \in AGs : ab_bitmap[g] \subseteq UNION {Span(x) : x \in OfGroup(granted \cup lost, g)}

Blocks(x) == {Address(x.ag, b) : b \in Span(x)}

(***************************************************************************)
(* No block is handed out twice.                                           *)
(***************************************************************************)
NoDoubleAllocation ==
    \A x, y \in granted : x # y => Blocks(x) \cap Blocks(y) = {}

(***************************************************************************)
(* As long as single blocks are asked for, concurrent calls never hand out *)
(* a block twice.                                                          *)
(***************************************************************************)
SinglesDisjoint == ~multi => NoDoubleAllocation

(***************************************************************************)
(* Whenever no call is running, s_free_blocks is its value at mount time   *)
(* less the blocks in use, unless two unlocked updates overlapped.         *)
(***************************************************************************)
CountSettles ==
    ~raced /\ (\A c \in Callers : pc[c] \in {"idle", "try"}) =>
        s_free_blocks = (mounted_free - Total(granted)) % W
=============================================================================
