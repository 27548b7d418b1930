# AetherFS in TLA+

Models of AetherFS (userspace tools in `aetherfsprogs/`, kernel module in
`kernel/`), the TLC runs that check them and the TLAPS proofs of what the
validator's space accounting, the mount path, the group bitmaps, the journal
lanes, the concurrent writes, the intent log and the deduplication table
guarantee. Names in `code font` that are not modules are functions of the C
sources without their `aetherfs_` prefix.

## The system

AetherFS is a staged implementation: the userspace tools own the on-disk format
(v5) and are the part in use; the kernel module mounts an image by its magic
number and carries in-memory engines for logging, allocation, directories and
deduplication.

| Part | Source | State | Operations | Talks to |
|---|---|---|---|---|
| On-disk format | `aetherfs_format.h` | label, superblock, inode table, root directory, journal, bitmap, free extents, checkpoint root (blocks 0-7), data | - | everything |
| Image validator | `image.c` | interval lists, cursor, counters | `image_open`, `image_load`, `image_validate` | scrub, health, mount, rebalance |
| Pool | `image.c` | labels, members, role masks | `image_open_pool`, `pool_map_*`, `image_read_block`, `image_write_block`, redundancy checks | validator |
| mkfs | `mkfs.c` | target, block count | `prepare_target`, `write_bootstrap`, read-back | page cache, medium |
| rebalance | `rebalance.c` | source, temporary image, `next_block` | relocation, validation, rename or copy over the device | validator |
| scrub | `scrub.c` | - | open, load, validate | validator |
| health, forensics | `health.c` | report, exported blocks | recommendation, export | validator |
| mount | `mount.c` | behaviour, `force_read_only` | preflight, mount point, module, mount call | validator, kernel |
| Intent log | `kernel/journal.c` | `il_intents`, `txn_counter` | begin, add, commit, free; apply, clear, replay | data and metadata writes |
| Superblock, inodes | `kernel/super.c`, `inode.c` | free counters, next inode number | fill, sync, remount, put; iget, new, free | VFS |
| Allocator, lanes | `kernel/balloc.c`, `percpu.c` | group bitmaps, free tree, per-CPU lists, lanes | alloc, free, start, end, commit | writers |
| B-tree, directory index | `kernel/btree.c`, `dir_idx.c` | one node of sorted keys; hash leaf, ordered index | insert, lookup, delete, split | inodes |
| Reflink, dedup, dense data | `kernel/reflink.c`, `dense.c` | reference counts, chunk tables | dedup, resolve, release | allocator |
| Self-healing, device policy | `kernel/recovery.c` | counters, device table | repair on read, quarantine, scrub | allocator |

`dir.c`, `log.c`, `snapshots.c`, `policy.c`, `layers.c` and `compress.c` are not
in the object list of `kernel/Makefile`.

Some of what is modelled is a library that the repository does not use yet. No
tool opens a pool for writing: `scrub.c:41` and `health.c:21`, the only callers of
`image_open_pool`, ask for reading, so the writes of `Pool` are those any later
tool would make. In the module nothing calls `intent_apply`, `intent_clear`,
`intent_replay`, `free_space_init`, `free_blocks_extended`, the lane functions of
`percpu.c`, `data_write_with_intent`, `metadata_cow_commit`, `write_mode`,
`convert_inline`, `tail_pack`, `get_blocks`, or the deduplication functions (except
`cdc_dedup`, itself without a caller, which calls `dedup_block`). Their models
say what the functions do when threads call them in any order; where an order of
calls is assumed (a start, an end and a commit on a lane) the module says so.

What makes the parts hard to get right, and what they owe their users:

* The validator decides for everyone. Its arithmetic is `uint64_t` on numbers
  read from the image; it must accept exactly the images without double
  allocation or lost space.
* mkfs rewrites the bootstrap in place through a page cache: an interrupted
  format must never look like a file system that is neither the old one nor the
  new one, and success must survive a power loss.
* rebalance replaces a whole image. Its validation recomputes checksums from the
  copied blocks, so only the copy logic protects contents; on a device it
  overwrites what it still needs.
* A pool write is several physical writes and may stop in between.
* health, mount's two preflights and the kernel judge an image by different code
  at different times.
* The intent log is shared, bounded, and its counter has no lock.
* The allocator looks at one free bit and a total, and updates an unlocked counter.
* Block numbers and inode numbers come from one unlocked counter, and a block is
  taken before the buffer, the extent node or the transaction it is for.
* A journal lane is closed by one thread and opened by another; a start waits for
  an open lane, a commit for running operations.
* Whether deduplication is on is read outside the lock of its table.

`PROJECT.json` lists the hazards line by line under `hazards`.

## Modules

| Module | Models | State and actions |
|---|---|---|
| `Intervals` | intervals and exact tilings | operators |
| `Coverage` | the space accounting of `image_validate` | one action per loop iteration: `WalkExtent`, `WalkBlock`, `WalkRootDir`, `FreeExtent`, `Merge`, `Scan`, `ScanDone`; `Plus` is addition in a word of `W` values |
| `CoverageProofs` | - | inductive invariant and theorems |
| `AetherImage` | a single-device image, `image_load` and `image_validate` as predicates `LoadOK`, `ValidateOK`, `Accepted`; its name space | operators |
| `Mkfs` | `run_mkfs` over a page cache | `Refuse`, `Prepare`, `ZeroBlock`, `WriteBlock`, `Fsync`, `Verify`; environment: `Abandon`, `PowerLoss` |
| `Rebalance` | `run_rebalance` | `OpenSource`, `make_temp`, one action per inode (`SkipInode`, `EmptyInode`, `RelocateInode`), `WriteMetadata`, `CheckTarget`, `Rename` or `copy_prefix_to_device` and `CheckDevice`; `Fail` at any point |
| `Pool` | assembly, mapping and writes of a pool | `OpenPool`, `ClosePool`, `WriteBlock`, `write_physical_member`; `Interrupt` |
| `Mount` | `run_health`, `run_forensics`, `run_mount` and the kernel's test | one action per step of each command; `Damage` at any time |
| `MountProofs` | - | inductive invariant and theorems |
| `IntentLog` | the log and its transactions | `ReadCounter` and `BumpCounter` (the unlocked increment), `transaction_add_intent`, `transaction_commit`, `transaction_free`, `Apply`, `Clear`, `Replay`; `Clear_round` is one round of the loop that removes entries in place |
| `IntentLogProofs` | - | inductive invariant and theorems |
| `Balloc` | the group bitmaps and the free counter | `alloc_blocks_extended`, `Grant` and `NoSpace` (one try of a group, under its lock), `free_blocks_extended`, `ReadCount` and `WriteCount` (the unlocked update) |
| `BallocProofs` | - | inductive invariant and theorems |
| `Writes` | the writers and what they share: `alloc_blocks`, `free_blocks`, `new_inode`, `write_mode`, `convert_inline`, `tail_pack`, `get_blocks`, `data_write_with_intent`, `metadata_cow_commit` | every load and store of `s_free_blocks`, `s_next_ino` and `txn_counter` is a step (`LoadFree`, `TakeBlock`, `GiveBlock`, `LoadNumber`, `StoreNumber`, `LoadTxn`, `StoreTxn`), then one action per use of the block, each with its error path, and the steps of a transaction |
| `WritesProofs` | - | inductive invariant and theorems |
| `Lanes` | `journal_percpu_start`, `_end`, `_commit` | every access to a field of a lane is a step of a thread; `GiveUp` is the `-EAGAIN` of a commit |
| `LanesProofs` | - | inductive invariant and theorems |
| `Dedup` | the block table of `reflink.c` | `dedup_block` as two tests before the lock and `Count` or `NoEntry` under it, `cdc_dedup`, `dedup_release`, the two stores of `dedup_enable` and `dedup_disable`, by any number of threads at once |
| `DedupProofs` | - | inductive invariant and theorem |
| `MC*` | instances for TLC | constants; `MCImages` holds small images |

`AetherImage` is the common ground of `Mkfs`, `Rebalance` and `Mount`, which are
compositions of a tool with the validator. It uses the tiling that `Coverage`
shows the scan to decide, instead of the scan. `Writes` is the composition of
the writers with the count-only allocator and the intent log. It keeps of the log
what a writer sees of it; `IntentLog` has the log's own operations.

What the abstraction keeps and drops. A block is a record whose `kind` says
which structure was written there: a structure of another kind fails its magic
number or checksum. A data checksum is the content itself, so checksums are
perfect. Byte sizes are rounded up to blocks. Every write of a block, every test
and every early return of the modelled functions is kept; messages, paths and
time stamps are dropped. In `Pool` a block is one bit, so exclusive or is a sum
modulo two; a member whose label gives no size has its own, as in
`pool_member_data_blocks`. In `Writes` a call keeps its number, so that the log and
the history can be compared with it, and `lost_count`, `lost_number`, `skewed` and
`raced` remember that an unprotected access has gone wrong: the properties say what
holds until then, and that nothing else makes it fail. They do not say that these
accesses go right, which they do not always; those hazards have no property of
their own, as their notes in `PROJECT.json` say.

Definitions named `X_something` directly before `X` are plausible mistakes in
`X`; each property is shown to fail when one of them takes the place of `X`.

## Runs

| Run | Instance | Shows |
|---|---|---|
| `coverage` | words of 6 values, up to 2 used and 2 free intervals, all starts and lengths | an accepted image is an exact tiling with the right free count; a rejection by the scan is justified |
| `mkfs` | 2 runs with and without `--force`, 3 block arguments (none, too few, 10), 1 power loss; an image with a file, a device that was in a pool, a new file | no mixture of two file systems, success is durable, good images are safe without `--force` |
| `rebalance` | two files, one of two extents, whose groups of blocks lie in every order, with and without a hole, as file and as device; an empty file; an image that is not clean | contents and acceptance at every instant for a file; packing, space and contents at the end |
| `pool` | all profiles, 1 to 3 members, a label without sizes, a parity pool whose last row does not fit and one of two members; 4 writes, openings with every argument list | reads return complete or interrupted writes of that block; replicas heal, parity recovers; scrub raises no alarm without an interrupted write, and what it passes reads the same whichever replica is used and is what the parity gives back |
| `mount` | 2 damages, 2 mounts; a clean image, a member of a pool, a file too short | what is writable is clean; advice can be followed; evidence supports the report |
| `intent_log` | 2 writers, 3 slots, 3 transaction ids, 2 intents each, all calls | open transactions keep their intents; clearing is exact; states only advance, and only a replay or a clear of its own transaction removes an intent |
| `balloc` | 2 callers, 2 groups of 4 bits, 4 grants of 1 or 2 blocks, a free counter that wraps | no bit past the bitmap, exact free counts, loss only at bit 0, single blocks never given twice |
| `lanes` | 3 threads, 2 lanes, 4 operations; threads are interchangeable (symmetry) | a lane is never left closed without a thread that has still to commit it; a commit covers what has ended, unless a start overlapped |
| `writes` | 2 callers, 3 calls of any of the 8 kinds, 0 to 3 free blocks in a counter of 8 values, a group of 3 and a device of 4 blocks, ints that turn negative at 2, a log of 1 intent | what an error costs in space, when two calls get one number, that failed writes leave no intent |

The bounds let the cases happen that matter: a word of six values makes ends
wrap into and out of the region, two runs of mkfs let one start on what the other
left, two files let contents be exchanged, three members rotate the parity, three
slots let the log fill in the middle of a transaction, four bits let a free bit
lie in front of a used one, a third thread starts while one closes a lane and
another gives up on it, four writes let one tear a parity row after every place of
it was written, three calls wrap the number of a block at the group and at the
device, exhaust the space and see a negative identifier.

Three runs are expected to find a violation; each states a sentence of the
repository's `README.md` that the code does not keep (`findings` in
`PROJECT.json`):

| Run | Property | Short |
|---|---|---|
| `balloc_double` | `NoDoubleAllocation` | a request for two blocks is given a free one and its neighbour, free or not |
| `balloc_lost` | `NoLostSpace` | an extent that begins at bit 0 of a group stays set when it is freed |
| `writes_lost` | `NoLeakedBlock` | a write that fails after it has taken a block does not give it back |

`LossOnlyAtFirstBit` of the run `balloc` and `SpaceAccounted` of the run `writes`
say how far the last two go: the early return for bit 0 is the only way a set bit
is left without an owner, and of all error paths only those of `write_mode`,
`convert_inline` and `get_blocks` keep a block.

Deadlock checking is off where the bounds, or the end of the commands, stop the
system; in `coverage` and `rebalance`, which run to a verdict, it is on.

### Fairness

No specification assumes fairness, and no liveness is claimed. Locks aside, the
one wait in the modelled code is the spin of `journal_percpu_start` on a lane that another thread
has closed. What would end it is not in these functions: the other thread ends its
operation when its caller does, it may be kept off the lane's CPU by the thread
that spins there without yielding (`percpu.c:191-196`), and a stream of others may
close the lane anew each time. What is claimed is safety: a closed lane always has
a thread that has still to commit it (`QuietLaneOpen`). That a caller follows every
end by a commit of the same thread is the contract the model assumes.

## Proofs

### The validator's accounting

`CoverageProofs` proves, for every word width `W`, start of the data region,
image size and number of intervals (assumptions `WidthAssumption`,
`SizesAssumption`, `CountsAssumption`, `BoundAssumption` of `Coverage`):

* `TypeCorrect`: every number stays in the word;
* `ScanIsSound`: an accepted allocation is an exact tiling of the data region:
  no block belongs to two intervals, none is lost, none lies outside;
* `FreeCountIsExact`: the superblock of an accepted image counts its free blocks
  exactly, although the sum is formed modulo the word;
* `ScanIsComplete`: the scan rejects nothing that is such a tiling and counted
  rightly.

`AcceptedTiles` alone is not inductive. The tests before the scan compare wrapped
sums, so an interval in the list may really end far outside the image. The
inductive invariant `IInv` adds what saves the scan: the wrapped end of every
listed interval is within the image (`ListInv`); the visited starts precede the
others; and behind the loop index either everything up to the cursor is tiled
(`Tiled`), or some end wrapped and the cursor is below a visited start
(`Wrapped`), from where neither a later interval nor the end of the image can be
met. One lemma per action shows that it is kept; `ExtendTiling` is the geometry
of one step, `PlusWord` the arithmetic of wrapping.

For the other two, `FreeInv` says that as long as no free extent ends beyond the
image the extents follow each other and the running sum is the number of blocks
they cover, so it never wraps; one that does end beyond makes acceptance
impossible. `CursorInv` says that, as long as no interval ends beyond the image,
the cursor is past every visited one, so that in a tiling the next interval in
order starts at the cursor.

### Mount, health and forensics

`MountProofs` proves all four properties of `Mount` for every set of images, every
damage at every moment and any number of mounts (`MountAssumption`: the images
are functions from block numbers counted from 0). `MountInv` carries each verdict from
where it is reached to where it is used: `Judged` the preflight's up to the mount
call, `Refusal` the advice of health up to a refusal, `Evidence` that of forensics
over the blocks copied so far, each as long as no damage has made it stale. The
judgements stay unexpanded, but for `LoadIsStronger`: what the loader accepts, the
weaker test of mount accepts.

### Group bitmaps

`BallocProofs` proves for any finite set of callers, any number of groups and bits
(`BallocAssumption`) everything the run checks: `SinglesNeverShared`, single blocks
are never given out twice; `NoOtherLoss`, a set bit belongs to an extent in use or
to one freed at bit 0; `GroupCountsExact`, the free count of a group is what is
neither in use nor lost; `GrantsStayInGroup`, no extent passes the end of its
bitmap; `CounterSettles`, at rest `s_free_blocks` is its value at mount less the
blocks in use, unless unlocked updates overlapped; and the types.

In `BallocInv`, `Marked` says that the bits of all extents in use are set and
different, so a zero bit is nobody's and freeing one extent clears no other's;
`Covered` is the second property itself. `Roundtrip` is the division that leads
from a block number back to its group and bit. `Counted` adds the counts. It is
why a run of bits that starts at the first zero bit has room: every bit below it
is set, so covered by an extent in use or lost, and what is left is at least the
count the caller compared with. `Settling` says for the counter what each caller on
its way has still to take or give.

### Journal lanes

`LanesProofs` proves for any finite set of threads, any number of lanes and of
operations (`LanesAssumption`): `NoLaneLeftCommitting`, a lane in
`LANE_COMMITTING` has a thread past the spin of its start that has not finished
its commit; `PendingIsExact`, `ll_pending_ops` is the number of threads between
start and end. The first needs the second: a commit may give up only while
something is pending, and then a thread is still running on the lane, which will
come to commit it. `LaneInv` is their conjunction with the types.

`CommittedIsExact` is `CommitExact` for the same generality. `CommitInv` says of a
lane on which no overlap happened that a starting thread is alone with the
sequence numbers (`Apart`, `Exclusive`), that what it has read is current, that
`ll_committed_seq` never passes the number of a running operation (`Ahead`), and
that a difference of the two numbers has a thread that will settle it
(`Unsettled`).

### Concurrent writes

`WritesProofs` proves for any finite set of callers, any number of calls, every
width of the counters and capacity of the log (`WritesAssumption`):

* `WritesTypeCorrect`: counters stay in their words, the log within its capacity,
  block numbers within the group;
* `FreeSpaceExact`: at rest the free count is the mounted one less the blocks of
  successful calls (`Kept`) and of the failed `write_mode`, `convert_inline` and
  `get_blocks` (`Leaked`), as long as no unlocked update was lost or passed zero;
* `NoIntentOfFailedWrite`: an intent in the log belongs to a write that succeeds
  and holds the block the intent names;
* `NumbersStayDistinct`: as long as no increment of `s_next_ino` was lost, two
  calls share a block only once the counter has passed the group or the device,
  and two inodes share no number but the one after the root's.

The first two speak of calls that have returned. `WritesInv` adds the running ones:
`Shape` ties the step a caller is at to the function it is in and the result it
carries, and keeps the numbers of calls apart; `SpaceInv` adds the callers that
hold a block they have neither used nor given back; `LogInv` says that a running
call with an intent has only its commit left. There is one lemma per way a step
goes: on to another step, back with a result, out with an error; the lemmas for
the actions are instances of these. Taking a block at a count of zero wraps, and
giving one back cannot, because a caller that holds one leaves room for it.
`NumberInv` adds, for the third, that every number given out lies below the
counter, or is the one after the root's.

### Intent log

`IntentLogProofs` proves all four properties of `IntentLog` for any set of
writers, any capacity and any number of transactions and intents
(`IntentLogAssumption`).

`ClearStaysExact`: the loop of `intent_clear` removes entries from the array it
runs over; `Standing` says where it is after `k` rounds: what it kept of the first
`k` entries stands in order at the front, the others behind it, and the index
between the two. The recursion is followed by induction over the set of rounds
for which this is proved (`UpTo`); `PlacesFilled` shows that the places of the kept
entries are all the places of the result.

`OpenTransactionsKeepIntents` needs `IdInv`: an id in the log or of an open
transaction has been given out, so a transaction with a new id finds nothing under
it, and two open transactions with one id have it from the race on `txn_counter`, so
nobody else commits a transaction's intents. `IntentsAdvance` says of every step
which intents are still there and in which state: all of them (`StepOnward`, from
the shape of the loops that set a state, `MarkShape`), or in a clear those it keeps
(`ClearAdvances`, from the exactness of the loop); only a replay drops the rest.
`IntentLogTypeCorrect` follows from the same invariant.

### Deduplication

`DedupProofs` proves for any set of users smaller than the width of `db_refcount`
(`FewUsers`), any set of checksums and any threads that switch that `RefsExact`
always holds (`EntriesCountHolders`): however deduplication is switched on and off
in between, an entry counts exactly its counted users, and is in the tree as long
as there is one, until a block that was never counted is released. `DedupInv` adds the types and that a
user on its way to the lock is not counted yet. `Dedup` has no run of its own.

### Only model-checked

* Everything in `Mkfs`, `Rebalance` and `Pool`. Their properties compare whole
  images, so an inductive invariant has to say what every block holds at every
  step, and for `Mkfs` in every version the page cache may have left behind, which
  is a fold over the blocks. None is proved yet.

## Not modelled

* Power loss during rebalance: the code never syncs, so any mixture would be
  possible; listed as a hazard.
* What an interrupted copy over a device leaves. `Rebalance` reaches
  such states, among them the new inode table over old data blocks, which scrub
  accepts with the contents of two files exchanged. No document says what should
  hold there, so no run checks it; it is listed as a hazard.
* Pools of which the superblock or checkpoint root differ between members; mount
  and rebalance refuse pools.
* Reading beyond the first block of the inode table; the table has few slots.
* `main.c` (arguments), `security.c`, `x86_accel.c`, `invariants.c` (checksums of
  bytes), and the sources outside the build.
* `dir_idx.c`: insertion places an entry at a stride that depends on the length of
  the new name, lookup and iteration step through the same block by fixed
  strides. What is found is decided by byte offsets, which the models abstract
  from.
* The small-file chains of `dense.c`: `dense.c` and `reflink.c` both define
  `dedup_resolve` and `dedup_release`, with different parameters, so there is no
  program that contains both.
* `recovery.c`: statistics, hints and a device table that shares `s_private` with
  other structures.
* The per-CPU lists of `percpu.c`, which call the allocator without an inode.
* Sync, remount and put of the superblock, and reading and writing of inodes: they
  copy fields between memory and buffers of the kernel.
* `btree.c`. A node is allocated by the size of its structure, which ends in an
  array without elements (`btree.c:427`), so already the first key would be stored
  past the object and what a tree holds is not determined by the code. The only
  root, `ft_root` of `balloc.c`, is never created: insertion into the free tree
  returns `-EINVAL` and removal `-ENOENT`.

Known limits of the code that no run is about:

* an empty file makes rebalance fail, and nothing else does
  (`OnlyEmptyFilesFail`);
* the fallback to degraded-read-only looks at label, superblock and checkpoint
  root only;
* `transaction_add_intent` ignores a full log, so a transaction may commit without
  its intents (`AddIntent` in `Writes` has it so);
* scrub accepts directory entries that name free inodes (they lead to no file);
* a device formatted with another `--blocks` than its size is refused by the
  loader (`FormatSurvives` leaves it out);
* the module's data region starts at block 7 (`aetherfs.h:68`), the format's at 8
  (`aetherfs_format.h:136`);
* `s_next_ino` starts anew with every mount (`Init` of `Writes`).
