-------------------------------- MODULE Mkfs --------------------------------
(***************************************************************************)
(* aetherfs mkfs (aetherfsprogs/mkfs.c): formatting a file or a device that*)
(* may already hold an image, over a page cache whose blocks reach the     *)
(* medium one by one and in any order until fsync, with the process killed *)
(* or the power lost at any point and mkfs run again.                      *)
(***************************************************************************)
EXTENDS AetherImage

CONSTANTS
    Targets,     \* initial targets: records [device, disk]
    BlockArgs,   \* values of --blocks; 0 when it is not given
    MaxRuns,     \* bound: invocations of mkfs
    MaxCrashes   \* bound: power losses

ASSUME MkfsAssumption ==
    /\ MaxRuns \in Nat /\ MaxCrashes \in Nat /\ BlockArgs \subseteq Nat
    /\ \A t \in Targets : t.device \in BOOLEAN /\ IsDisk(t.disk)

VARIABLES
    device,    \* the target is a block device
    disk,      \* the target as a process reads it
    pending,   \* contents each block may have on the medium
    sizes,     \* lengths the file may have on the medium
    blocks,    \* state->blocks
    pc,        \* where the current run stands
    step,      \* blocks written by the current loop
    runs, crashes,
    origin,    \* history: the disk before the first run
    forced,    \* history: some run had --force
    formatted  \* history: blocks formatted by the last run to touch the
               \* target, 0 when it did not succeed

vars == << device, disk, pending, sizes, blocks, pc, step, runs, crashes,
           origin, forced, formatted >>

Init ==
    /\ \E t \in Targets : device = t.device /\ disk = t.disk
    /\ pending = [b \in DOMAIN disk |-> {disk[b]}]
    /\ sizes = {Size(disk)}
    /\ blocks = 0 /\ pc = "idle" /\ step = 0 /\ runs = 0 /\ crashes = 0
    /\ origin = disk /\ forced = FALSE /\ formatted = 0

-----------------------------------------------------------------------------
(* The page cache.                                                         *)
PendingAt(b) == IF b \in DOMAIN pending THEN pending[b] ELSE {Zero}

Write(b, c) ==
    /\ disk' = [disk EXCEPT ![b] = c]
    /\ pending' = [pending EXCEPT ![b] = @ \cup {c}]
    /\ UNCHANGED sizes

(* ftruncate: blocks cut off are gone, blocks added read as zeroes.        *)
Truncate(n) ==
    /\ disk' = [b \in 0 .. (n - 1) |-> IF b \in DOMAIN disk THEN disk[b] ELSE Zero]
    /\ pending' = [b \in DOMAIN pending \cup 0 .. (n - 1) |->
                     IF b < n THEN PendingAt(b) ELSE PendingAt(b) \cup {Zero}]
    /\ sizes' = sizes \cup {n}

Sync ==
    /\ pending' = [b \in DOMAIN disk |-> {disk[b]}]
    /\ sizes' = {Size(disk)}
    /\ UNCHANGED disk

(* A power loss keeps one of the lengths and one version of each block.    *)
Extend(fs, k) ==
    {[b \in 0 .. k |-> IF b = k THEN c ELSE f[b]] : f \in fs, c \in PendingAt(k)}

Versions(n) ==
    LET upto[k \in 0 .. n] == IF k = 0 THEN {<< >>} ELSE Extend(upto[k - 1], k - 1)
    IN  upto[n]

AfterPowerLoss == UNION {Versions(n) : n \in sizes}

-----------------------------------------------------------------------------
(* aetherfs_prepare_target.                                                *)
HasMagic_wrongBlock == disk # << >> /\ disk[LabelBlock].kind = "super"

HasMagic == SuperBlock \in DOMAIN disk /\ disk[SuperBlock].kind \in {"super", "badsuper"}

BlockCount(n) == IF n > 0 THEN n ELSE Size(disk)

Start(f, n) ==
    /\ pc = "idle" /\ runs < MaxRuns
    /\ runs' = runs + 1
    /\ forced' = (forced \/ f)
    /\ step' = 0

Refuse(f, n) ==
    /\ Start(f, n)
    /\ HasMagic /\ ~f
    /\ UNCHANGED << device, disk, pending, sizes, blocks, pc, crashes, origin,
                    formatted >>

(* Too few blocks is only noticed once the file has been cut.              *)
Prepare(f, n) ==
    /\ Start(f, n)
    /\ ~HasMagic \/ f
    /\ IF n > 0 /\ ~device THEN Truncate(n) ELSE UNCHANGED << disk, pending, sizes >>
    /\ IF BlockCount(n) < DataStart
       THEN pc' = "idle" /\ blocks' = 0
       ELSE pc' = "zero" /\ blocks' = BlockCount(n)
    /\ formatted' = 0
    /\ UNCHANGED << device, crashes, origin >>

-----------------------------------------------------------------------------
(* aetherfs_write_bootstrap.                                               *)
init_super(n) == Super(n, n - DataStart, 1)
init_root_inode == InodeTable([i \in Inodes |-> IF i = 0 THEN RootInode ELSE NoInode])
init_root_dir == Directory(<< >>)
init_journal == Journal(0)
init_inode_bitmap == Bitmap({0})
init_free_extents(n) == ExtentNode(<<Extent(0, DataStart, 0, n - DataStart)>>)
init_checkpoint_root(n) == CheckpointRoot(n)

Bootstrap(n) ==
    [b \in SuperBlock .. RootBlock |->
        CASE b = SuperBlock   -> init_super(n)
          [] b = InodeBlock   -> init_root_inode
          [] b = DirBlock     -> init_root_dir
          [] b = JournalBlock -> init_journal
          [] b = BitmapBlock  -> init_inode_bitmap
          [] b = FreeBlock    -> init_free_extents(n)
          [] b = RootBlock    -> init_checkpoint_root(n)]

ZeroBlock_oneMore ==
    /\ pc = "zero"
    /\ Write(step, Zero)
    /\ IF step = DataStart THEN pc' = "write" /\ step' = SuperBlock
       ELSE pc' = pc /\ step' = step + 1
    /\ UNCHANGED << device, blocks, runs, crashes, origin, forced, formatted >>

ZeroBlock ==
    /\ pc = "zero"
    /\ Write(step, Zero)
    /\ IF step = RootBlock THEN pc' = "write" /\ step' = SuperBlock
       ELSE pc' = pc /\ step' = step + 1
    /\ UNCHANGED << device, blocks, runs, crashes, origin, forced, formatted >>

WriteBlock ==
    /\ pc = "write"
    /\ Write(step, Bootstrap(blocks)[step])
    /\ IF step = RootBlock THEN pc' = "sync" /\ step' = 0
       ELSE pc' = pc /\ step' = step + 1
    /\ UNCHANGED << device, blocks, runs, crashes, origin, forced, formatted >>

Fsync_missing ==
    /\ pc = "sync"
    /\ pc' = "verify"
    /\ UNCHANGED << device, disk, pending, sizes, blocks, step, runs, crashes,
                    origin, forced, formatted >>

Fsync ==
    /\ pc = "sync"
    /\ Sync
    /\ pc' = "verify"
    /\ UNCHANGED << device, blocks, step, runs, crashes, origin, forced, formatted >>

-----------------------------------------------------------------------------
(* The checks of aetherfs_run_mkfs on what it reads back.                  *)
validate_super == disk[SuperBlock] = init_super(blocks)
validate_root_inode == InodeOf(disk, 0) = RootInode
validate_root_dir == disk[DirBlock].kind = "dir"
validate_journal == disk[JournalBlock] = Journal(0)
validate_bitmap ==
    disk[BitmapBlock].kind = "bitmap" /\ Cardinality(Allocated(disk)) = 1
validate_free_extents ==
    /\ disk[FreeBlock].kind = "extents"
    /\ FreeList(disk) # << >> /\ FreeListOK(disk)
    /\ FreeBlocks(FreeList(disk)) = blocks - DataStart
validate_checkpoint_root == disk[RootBlock] = CheckpointRoot(blocks)

ReadBackOK ==
    /\ validate_super /\ validate_root_inode /\ validate_root_dir /\ validate_journal
    /\ validate_bitmap /\ validate_free_extents /\ validate_checkpoint_root

Exit == pc' = "idle" /\ blocks' = 0 /\ step' = 0

Verify ==
    /\ pc = "verify"
    /\ formatted' = IF ReadBackOK THEN blocks ELSE 0
    /\ Exit
    /\ UNCHANGED << device, disk, pending, sizes, runs, crashes, origin, forced >>

(* A failed system call, or the process killed: the cache stays.           *)
Abandon ==
    /\ pc # "idle"
    /\ Exit
    /\ UNCHANGED << device, disk, pending, sizes, runs, crashes, origin, forced,
                    formatted >>

PowerLoss ==
    /\ crashes < MaxCrashes
    /\ crashes' = crashes + 1
    /\ Exit
    /\ disk' \in AfterPowerLoss
    /\ pending' = [b \in DOMAIN disk' |-> {disk'[b]}]
    /\ sizes' = {Size(disk')}
    /\ UNCHANGED << device, runs, origin, forced, formatted >>

Next ==
    \/ \E f \in BOOLEAN, n \in BlockArgs : Refuse(f, n) \/ Prepare(f, n)
    \/ ZeroBlock \/ WriteBlock \/ Fsync \/ Verify \/ Abandon \/ PowerLoss

Spec == Init /\ [][Next]_vars
-----------------------------------------------------------------------------
(* The cache, the medium and the run of mkfs stay consistent.              *)
TypeOK ==
    /\ device \in BOOLEAN /\ forced \in BOOLEAN /\ formatted \in Nat
    /\ DOMAIN disk = 0 .. (Size(disk) - 1)
    /\ DOMAIN disk \subseteq DOMAIN pending /\ Size(disk) \in sizes
    /\ \A b \in DOMAIN disk : disk[b] \in pending[b]
    /\ pc \in {"idle", "zero", "write", "sync", "verify"}
    /\ step \in 0 .. RootBlock /\ blocks \in Nat
    /\ runs \in 0 .. MaxRuns /\ crashes \in 0 .. MaxCrashes

NoFiles == << >>

(***************************************************************************)
(* A format that stops halfway never leaves a mixture of the old and the   *)
(* new image behind that scrub takes for a file system: what it accepts    *)
(* holds the old files with their old contents, or no file at all.         *)
(***************************************************************************)
OldFilesOrNone ==
    Accepted(disk) =>
        \/ NameSpace(disk) = NoFiles
        \/ Accepted(origin) /\ NameSpace(disk) = NameSpace(origin)

(***************************************************************************)
(* A format that reported success is still there after a power loss, and   *)
(* the image is an empty file system to the validator of image.c, which    *)
(* mkfs.c does not share.  A --blocks other than the size of the device is *)
(* left out: the loader takes the size from the device and refuses it.     *)
(***************************************************************************)
FormatSurvives ==
    formatted # 0 /\ (device => formatted = Size(disk)) =>
        Accepted(disk) /\ Allocated(disk) = {0} /\ Entries(disk) = << >>

(***************************************************************************)
(* Without --force no sequence of runs, kills and power losses harms an    *)
(* image that scrub accepts.                                               *)
(***************************************************************************)
UnforcedKeepsImage ==
    ~forced /\ Accepted(origin) => disk = origin
=============================================================================
