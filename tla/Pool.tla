-------------------------------- MODULE Pool --------------------------------
(***************************************************************************)
(* A pool of devices under one image (aetherfsprogs/image.c): how the      *)
(* members are assembled from their labels, where a logical block lies,    *)
(* which physical writes aetherfs_image_write_block makes and in which     *)
(* order, and what the redundancy checks of scrub compare.  A write may    *)
(* stop between two physical writes, by an I/O error or because the        *)
(* process dies.                                                           *)
(*                                                                         *)
(* A mask is a set of member indices.  A block holds one bit, so that the  *)
(* exclusive or of blocks is a sum modulo 2.                               *)
(***************************************************************************)
EXTENDS Integers, FiniteSets, Sequences, FiniteSetsExt, Functions

CONSTANTS
    Labels,     \* pool labels considered, pl_member_index left out
    Foreign,    \* a device of another pool
    Written,    \* logical blocks written
    MaxWrites,  \* bound: logical writes
    MaxOpens    \* bound: times the pool is opened

DataStart == 8
SuperBlock == 1
JournalBlock == 4
Bits == {0, 1}

Profiles == {"single", "mirror", "stripe", "parity", "tiered"}

(* aetherfs_pool_label_validate.                                           *)
pool_label_validate(l) ==
    /\ l.members \in Nat \ {0}
    /\ l.profile \in Profiles
    /\ l.stripe_blocks \in Nat \ {0}
    /\ l.logical_data \in Nat
    /\ l.metadata_mask \cup l.data_mask \cup l.log_mask \subseteq 0 .. (l.members - 1)
    /\ l.total_blocks \in Nat /\ l.total_blocks >= DataStart
    /\ \A m \in 0 .. (l.members - 1) : l.data_blocks[m] \in 0 .. (l.total_blocks - DataStart)

(* The blocks written are those of the file system, the label apart.  Each *)
(* member of a mirror holds them all; the members of a parity pool are of  *)
(* one size.                                                               *)
ASSUME PoolAssumption ==
    /\ MaxWrites \in Nat /\ MaxOpens \in Nat
    /\ \A l \in Labels :
         /\ pool_label_validate(l)
         /\ Written \subseteq SuperBlock .. (DataStart + l.logical_data - 1)
         /\ l.profile = "mirror" => DataStart + l.logical_data <= l.total_blocks
         /\ l.profile = "parity" =>
              \A m, k \in l.data_mask : l.data_blocks[m] = l.data_blocks[k]

VARIABLES
    label,      \* the label of the pool
    device,     \* the blocks of each device; device i carries index i
    members,    \* image->members: the device at each index, << >> when closed
    queue,      \* physical writes still to be made by the current write
    current,    \* the current logical write
    committed,  \* history: the value of the last complete write of a block
    torn,       \* history: values of writes interrupted since
    dirty,      \* history: physical rows some write to which was interrupted
    writes, opens

vars == << label, device, members, queue, current, committed, torn, dirty,
           writes, opens >>

Devices == 0 .. (label.members - 1)
Rows == 0 .. (label.total_blocks - 1)   \* of the largest device
Idle == [block |-> 0, val |-> 0]

Init ==
    /\ label \in Labels
    /\ device = [m \in Devices |-> [b \in Rows |-> 0]]
    /\ members = << >> /\ queue = << >> /\ current = Idle
    /\ committed = [b \in Written |-> 0] /\ torn = [b \in Written |-> {}]
    /\ dirty = {} /\ writes = 0 /\ opens = 0

-----------------------------------------------------------------------------
(* aetherfs_image_open_pool: the arguments may name the devices in any     *)
(* order, name one twice, or name a device of another pool.  A device goes *)
(* where its own label says.                                               *)
Placed(args) == [i \in Devices |-> args[CHOOSE k \in DOMAIN args : args[k] = i]]

Arguments == UNION {[1 .. n -> Devices \cup {Foreign}] : n \in 1 .. label.members}

(* Every label equals the first but for the member's index.                *)
labels_equivalent(args) == Foreign \notin Range(args)

OpenPool(args) ==
    /\ members = << >> /\ opens < MaxOpens
    /\ opens' = opens + 1
    /\ members' = IF /\ Len(args) = label.members
                     /\ labels_equivalent(args) /\ IsInjective(args)
                  THEN Placed(args) ELSE << >>
    /\ UNCHANGED << label, device, queue, current, committed, torn, dirty, writes >>

ClosePool_busy ==
    /\ members # << >>
    /\ members' = << >>
    /\ UNCHANGED << label, device, queue, current, committed, torn, dirty, writes, opens >>

ClosePool ==
    /\ members # << >> /\ queue = << >>
    /\ members' = << >>
    /\ UNCHANGED << label, device, queue, current, committed, torn, dirty, writes, opens >>

-----------------------------------------------------------------------------
(* The roles of the members; an empty mask falls back.                     *)
mask_nth(S, k) == CHOOSE m \in S : Cardinality({x \in S : x < m}) = k
mask_first(S) == mask_nth(S, 0)

metadata_mask == IF label.metadata_mask = {} THEN {0} ELSE label.metadata_mask
data_mask == IF label.data_mask = {} THEN {0} ELSE label.data_mask
log_mask == IF label.log_mask = {} THEN metadata_mask ELSE label.log_mask

role_mask_for_bootstrap_block(b) ==
    IF b = JournalBlock THEN log_mask ELSE metadata_mask

-----------------------------------------------------------------------------
(* aetherfs_pool_map_data_block: member, physical block and parity member. *)
NoMember == -1
Unmapped == [member |-> NoMember, block |-> 0, parity |-> NoMember]
Mapping(m, b, p) == [member |-> m, block |-> b, parity |-> p]

(* aetherfs_pool_member_data_blocks: a label without the number of data    *)
(* blocks leaves the member all but the bootstrap.                         *)
member_data_blocks(m) ==
    IF label.data_blocks[m] = 0 THEN label.total_blocks - DataStart ELSE label.data_blocks[m]

WithinMember(m, b) == b < DataStart + member_data_blocks(m)

(* A loop over the members of the mask S that adds up f: sum[n] is the     *)
(* result for those below n.                                               *)
Sums(f, S, N) ==
    LET sum[n \in 0 .. N] ==
          IF n = 0 THEN 0 ELSE sum[n - 1] + (IF n - 1 \in S THEN f[n - 1] ELSE 0)
    IN  sum

map_linear(b) ==
    LET sizes     == [m \in Devices |-> member_data_blocks(m)]
        Before(m) == Sums(sizes, data_mask, label.members)[m]
        Home == {m \in data_mask : /\ Before(m) <= b - DataStart
                                   /\ b - DataStart < Before(m) + sizes[m]}
    IN  IF Home = {} THEN Unmapped
        ELSE LET m == Min(Home) IN Mapping(m, b - Before(m), NoMember)

map_mirror(b) == Mapping(mask_first(data_mask), b, NoMember)

map_stripe(b) ==
    LET n        == Cardinality(data_mask)
        relative == b - DataStart
        stripe   == relative \div label.stripe_blocks
        m        == mask_nth(data_mask, stripe % n)
        block    == DataStart + (stripe \div n) * label.stripe_blocks
                      + (relative % label.stripe_blocks)
    IN  IF WithinMember(m, block) THEN Mapping(m, block, NoMember) ELSE Unmapped

map_parity_overlap(b) ==
    LET n        == Cardinality(data_mask)
        width    == (n - 1) * label.stripe_blocks
        row      == (b - DataStart) \div width
        position == (b - DataStart) % width
        block    == DataStart + row * label.stripe_blocks + (position % label.stripe_blocks)
    IN  IF n < 3 THEN Unmapped
        ELSE Mapping(mask_nth(data_mask, position \div label.stripe_blocks), block,
                     mask_nth(data_mask, row % n))

map_parity(b) ==
    LET n        == Cardinality(data_mask)
        width    == (n - 1) * label.stripe_blocks
        row      == (b - DataStart) \div width
        position == (b - DataStart) % width
        p        == row % n
        d        == position \div label.stripe_blocks
        m        == mask_nth(data_mask, IF d >= p THEN d + 1 ELSE d)
        block    == DataStart + row * label.stripe_blocks + (position % label.stripe_blocks)
        parity   == mask_nth(data_mask, p)
    IN  IF n >= 3 /\ WithinMember(m, block) /\ WithinMember(parity, block)
        THEN Mapping(m, block, parity) ELSE Unmapped

map_data_block(b) ==
    IF label.profile = "mirror" THEN map_mirror(b)
    ELSE IF label.profile = "stripe" THEN map_stripe(b)
    ELSE IF label.profile = "parity" THEN map_parity(b)
    ELSE map_linear(b)

-----------------------------------------------------------------------------
(* aetherfs_image_read_block when the members of F cannot be read.         *)
ReadError == -1

At(m, b) == device[members[m]][b]

read_block(b, F) ==
    IF b < DataStart
    THEN LET up == role_mask_for_bootstrap_block(b) \ F
         IN  IF up = {} THEN ReadError ELSE At(Min(up), b)
    ELSE LET map == map_data_block(b)
         IN  IF map.member \in F \cup {NoMember} THEN ReadError
             ELSE At(map.member, map.block)

(* The physical writes of aetherfs_image_write_block, in their order.      *)
Put(m, b, v) == [member |-> m, block |-> b, val |-> v]

OnEach_first(S, b, v) == << Put(mask_first(S), b, v) >>
OnEach(S, b, v) == [k \in 1 .. Cardinality(S) |-> Put(mask_nth(S, k - 1), b, v)]

ParityWrites_dataFirst(map, v) ==
    << Put(map.member, map.block, v),
       Put(map.parity, map.block, (At(map.parity, map.block) + v) % 2) >>

ParityWrites(map, v) ==
    << Put(map.parity, map.block,
           (At(map.parity, map.block) + At(map.member, map.block) + v) % 2),
       Put(map.member, map.block, v) >>

PhysicalWrites(b, v) ==
    LET map == map_data_block(b) IN
    IF b < DataStart THEN OnEach(role_mask_for_bootstrap_block(b), b, v)
    ELSE IF map = Unmapped THEN << >>
    ELSE IF label.profile = "mirror" THEN OnEach(data_mask, map.block, v)
    ELSE IF label.profile = "parity" THEN ParityWrites(map, v)
    ELSE << Put(map.member, map.block, v) >>

(* A block that maps nowhere makes the call fail with -ERANGE.             *)
WriteBlock(b, v) ==
    /\ members # << >> /\ queue = << >> /\ writes < MaxWrites
    /\ writes' = writes + 1
    /\ queue' = PhysicalWrites(b, v)
    /\ current' = IF queue' = << >> THEN Idle ELSE [block |-> b, val |-> v]
    /\ UNCHANGED << label, device, members, committed, torn, dirty, opens >>

write_physical_member ==
    /\ queue # << >>
    /\ LET w == Head(queue) IN
       device' = [device EXCEPT ![members[w.member]][w.block] = w.val]
    /\ queue' = Tail(queue)
    /\ IF queue' = << >>
       THEN /\ committed' = [committed EXCEPT ![current.block] = current.val]
            /\ torn' = [torn EXCEPT ![current.block] = {}]
            /\ current' = Idle
       ELSE UNCHANGED << committed, torn, current >>
    /\ UNCHANGED << label, members, dirty, writes, opens >>

(* The remaining writes are not made; the process has to open the pool     *)
(* again.                                                                  *)
Interrupt ==
    /\ queue # << >>
    /\ torn' = [torn EXCEPT ![current.block] = @ \cup {current.val}]
    /\ dirty' = dirty \cup {Head(queue).block}
    /\ queue' = << >> /\ current' = Idle /\ members' = << >>
    /\ UNCHANGED << label, device, committed, writes, opens >>

Next ==
    \/ \E args \in Arguments : OpenPool(args)
    \/ \E b \in Written, v \in Bits : WriteBlock(b, v)
    \/ ClosePool \/ write_physical_member \/ Interrupt

Spec == Init /\ [][Next]_vars

-----------------------------------------------------------------------------
(* aetherfs_image_validate_pool_redundancy over the data blocks in use.    *)
InUse == {b \in Written : b >= DataStart}

AllEqual(S, b) == \A m \in S : At(m, b) = At(mask_first(S), b)

bootstrap_replicas_OK ==
    \A b \in SuperBlock .. (DataStart - 1) : AllEqual(role_mask_for_bootstrap_block(b), b)

mirror_data_OK == \A b \in InUse : AllEqual(data_mask, b)

(* The exclusive or of row r over the members of S.                        *)
RowParity(S, r) == Sums([m \in Devices |-> At(m, r)], S, label.members)[label.members] % 2

(* A block in use that maps nowhere is an error of the check as well.      *)
parity_OK ==
    /\ Cardinality(data_mask) >= 3
    /\ \A b \in InUse :
         LET map == map_parity(b) IN
         map # Unmapped /\ RowParity(data_mask, map.block) = 0

pool_redundancy_OK_mirrorOnly ==
    bootstrap_replicas_OK /\ (label.profile = "mirror" => mirror_data_OK)

pool_redundancy_OK ==
    /\ bootstrap_replicas_OK
    /\ label.profile = "mirror" => mirror_data_OK
    /\ label.profile = "parity" => parity_OK

-----------------------------------------------------------------------------
(* The devices and the bookkeeping stay well formed.                       *)
TypeOK ==
    /\ label \in Labels
    /\ device \in [Devices -> [Rows -> Bits]]
    /\ members = << >> \/ (members \in [Devices -> Devices] /\ IsInjective(members))
    /\ Len(queue) <= label.members /\ (queue # << >> => members # << >>)
    /\ committed \in [Written -> Bits] /\ torn \in [Written -> SUBSET Bits]
    /\ dirty \subseteq Rows /\ writes \in 0 .. MaxWrites /\ opens \in 0 .. MaxOpens

(***************************************************************************)
(* What a block reads, whatever members fail and in whatever order the     *)
(* devices were named, is its last complete write or an interrupted one of *)
(* that block: no two blocks share a place, and no write reaches another   *)
(* block by way of the parity.                                             *)
(***************************************************************************)
ReadsExplained ==
    members # << >> /\ queue = << >> =>
        \A b \in Written, F \in SUBSET Devices :
            read_block(b, F) \in {ReadError, committed[b]} \cup torn[b]

(***************************************************************************)
(* Replicas of a bootstrap or mirrored block agree on every member once    *)
(* the last write of that block was complete, interrupted writes before it *)
(* included.                                                               *)
(***************************************************************************)
RewriteHealsReplicas ==
    members # << >> /\ queue = << >> =>
        \A b \in Written : torn[b] = {} =>
            LET S == IF b < DataStart THEN role_mask_for_bootstrap_block(b)
                     ELSE IF label.profile = "mirror" THEN data_mask ELSE {}
            IN  \A m \in S : At(m, b) = committed[b]

(***************************************************************************)
(* In a parity pool a block of a row no write to which was interrupted can *)
(* be computed from the other members.                                     *)
(***************************************************************************)
ParityRecovers ==
    members # << >> /\ queue = << >> /\ label.profile = "parity" =>
        \A b \in InUse :
            LET map == map_parity(b) IN
            map # Unmapped /\ map.block \notin dirty =>
                committed[b] = RowParity(data_mask \ {map.member}, map.block)

(* What the members hold of a block besides the one it is read from: the   *)
(* copies of a bootstrap or mirrored block, the rest of a parity row.      *)
Rebuilt(b) ==
    IF b < DataStart THEN {At(m, b) : m \in role_mask_for_bootstrap_block(b)}
    ELSE IF label.profile = "mirror" THEN {At(m, b) : m \in data_mask}
    ELSE IF label.profile = "parity"
    THEN {RowParity(data_mask \ {map_parity(b).member}, map_parity(b).block)}
    ELSE {}

(***************************************************************************)
(* The redundancy checks of scrub raise no false alarm: they pass on a     *)
(* pool no write to which was interrupted, if each block has a place.  And *)
(* what they pass can be relied on after any interruption: every copy of a *)
(* bootstrap or mirrored block is what the block reads, and so is the      *)
(* exclusive or of the rest of its parity row.  A row torn between the     *)
(* write of its parity and the write of its data is noticed.               *)
(***************************************************************************)
ScrubJudgesRedundancy ==
    members # << >> /\ queue = << >> =>
        /\ dirty = {} /\ (label.profile = "parity" => \A b \in InUse : map_parity(b) # Unmapped)
             => pool_redundancy_OK
        /\ pool_redundancy_OK =>
             \A b \in Written : Rebuilt(b) \subseteq {read_block(b, {})}
=============================================================================
