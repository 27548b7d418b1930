---------------------------- MODULE AetherImage ----------------------------
(***************************************************************************)
(* A single-device AetherFS image, format v5, as the userspace tools read  *)
(* it: what the blocks hold, which images aetherfs_image_load and          *)
(* aetherfs_image_validate accept (aetherfsprogs/image.c), and the files   *)
(* such an image stands for.                                               *)
(*                                                                         *)
(* A disk is a function from 0 .. size-1 to block contents.  A content is  *)
(* a record whose kind tells which structure was written to the block; a   *)
(* structure read from a block of another kind fails its magic number or   *)
(* its checksum.  A data checksum stands for the content it was computed   *)
(* from.  Sizes in bytes are rounded up to blocks.                         *)
(***************************************************************************)
EXTENDS Intervals, FiniteSets, Sequences, FiniteSetsExt, Functions

CONSTANTS
    MaxInode,      \* inode slots 0 .. MaxInode; slot 0 is the root
    SumsPerBlock   \* AETHERFS_CHECKSUMS_PER_BLOCK

ASSUME ImageAssumption ==
    MaxInode \in Nat /\ SumsPerBlock \in Nat /\ SumsPerBlock >= 1

LabelBlock == 0
SuperBlock == 1
InodeBlock == 2
DirBlock   == 3
JournalBlock == 4
BitmapBlock == 5
FreeBlock  == 6
RootBlock  == 7
DataStart  == 8

Inodes == 0 .. MaxInode
Size(d) == Cardinality(DOMAIN d)

(* A disk is a run of blocks from 0.                                       *)
IsDisk(d) == Size(d) \in Nat /\ d = [b \in 0 .. (Size(d) - 1) |-> d[b]]

-----------------------------------------------------------------------------
(* Block contents.                                                         *)
Zero == [kind |-> "zero"]
Junk == [kind |-> "junk"]            \* nothing the block should hold
BadLabel == [kind |-> "badlabel"]    \* the magic number, but a wrong checksum
BadSuper == [kind |-> "badsuper"]
Data(v) == [kind |-> "data", val |-> v]
Super(n, f, m) == [kind |-> "super", blocks |-> n, free |-> f, devices |-> m]
CheckpointRoot(n) == [kind |-> "ckpt", end |-> n]
Label(m, n) == [kind |-> "label", members |-> m, blocks |-> n]
Journal(k) == [kind |-> "journal", outstanding |-> k]
Bitmap(S) == [kind |-> "bitmap", set |-> S]
ExtentNode(es) == [kind |-> "extents", exts |-> es, next |-> 0]
Checksums(vs, n) == [kind |-> "sums", sums |-> vs, next |-> n]
InodeTable(f) == [kind |-> "inodes", tab |-> f]
Directory(f) == [kind |-> "dir", ents |-> f]

Extent(l, p, c, n) == [lstart |-> l, pstart |-> p, csum |-> c, len |-> n]

NoInode == [mode |-> "none"]
RootInode == [mode |-> "dir", root |-> DirBlock]
File(r, n, z) == [mode |-> "reg", root |-> r, blocks |-> n, size |-> z]

(* The structures of format.h: the fields are unsigned integers.           *)
WellFormed(c) ==
    /\ c.kind = "super" =>
         /\ c = Super(c.blocks, c.free, c.devices)
         /\ c.blocks \in Nat /\ c.free \in Nat
    /\ c.kind = "bitmap" => c.set \subseteq Inodes
    /\ c.kind = "inodes" =>
         /\ c.tab = [i \in Inodes |-> c.tab[i]]
         /\ \A i \in Inodes : c.tab[i].mode = "reg" =>
              /\ c.tab[i] = File(c.tab[i].root, c.tab[i].blocks, c.tab[i].size)
              /\ c.tab[i].root \in Nat /\ c.tab[i].blocks \in Nat
    /\ c.kind = "extents" =>
         c.exts \in Seq([lstart : Nat, pstart : Nat, csum : Nat, len : Nat])

WellFormedDisk(d) == IsDisk(d) /\ \A b \in DOMAIN d : WellFormed(d[b])

-----------------------------------------------------------------------------
(***************************************************************************)
(* aetherfs_image_open: a label of a larger pool is refused, a missing one *)
(* is synthesized from the size of the file or device.                     *)
(***************************************************************************)
HasLabel(d) == d[LabelBlock].kind = "label"

OpenOK(d) ==
    /\ Size(d) > 0
    /\ d[LabelBlock] # BadLabel
    /\ HasLabel(d) => d[LabelBlock].members = 1

LogicalBlocks(d) == IF HasLabel(d) THEN d[LabelBlock].blocks ELSE Size(d)

SuperOK(d) ==
    /\ SuperBlock \in DOMAIN d
    /\ d[SuperBlock].kind = "super"
    /\ d[SuperBlock].blocks >= DataStart
    /\ d[SuperBlock].blocks = LogicalBlocks(d)
    /\ d[SuperBlock].devices = 1

CheckpointRootOK(d) ==
    /\ RootBlock \in DOMAIN d
    /\ d[RootBlock].kind = "ckpt"
    /\ d[RootBlock].end = d[SuperBlock].blocks

(* The inode table and the root directory carry no checksum of their own   *)
(* block and are loaded unread.                                            *)
LoadOK(d) ==
    /\ OpenOK(d) /\ SuperOK(d) /\ CheckpointRootOK(d)
    /\ d[JournalBlock].kind = "journal"
    /\ d[BitmapBlock].kind = "bitmap"
    /\ d[FreeBlock].kind = "extents"

-----------------------------------------------------------------------------
(* aetherfs_image_validate, on a disk that loads.                          *)
Blocks(d) == d[SuperBlock].blocks
Allocated(d) == d[BitmapBlock].set

(* A block of zeroes reads as a table of free slots.                       *)
InodeOf(d, i) ==
    IF d[InodeBlock].kind = "inodes" THEN d[InodeBlock].tab[i] ELSE NoInode

RegularFiles(d) == {i \in Allocated(d) : InodeOf(d, i).mode = "reg"}

(* aetherfs_image_validate_root_dir: no two entries name one inode.        *)
RootDirOK(d) ==
    /\ d[DirBlock].kind = "dir"
    /\ Range(d[DirBlock].ents) \subseteq Inodes
    /\ IsInjective(d[DirBlock].ents)

DirRefs(d) == Range(d[DirBlock].ents)

InDataRegion(d, b) == DataStart <= b /\ b < Blocks(d) /\ b \in DOMAIN d

(* One checksum block b of the chain of extent e, done data blocks in.     *)
SumsOK_lengthsOnly(d, e, b, done) ==
    /\ InDataRegion(d, b)
    /\ d[b].kind = "sums"
    /\ Len(d[b].sums) \in 1 .. SumsPerBlock /\ Len(d[b].sums) <= e.len - done
    /\ done + Len(d[b].sums) = e.len => d[b].next = 0

SumsOK(d, e, b, done) ==
    /\ InDataRegion(d, b)
    /\ d[b].kind = "sums"
    /\ LET s == d[b].sums IN
       /\ Len(s) \in 1 .. SumsPerBlock
       /\ Len(s) <= e.len - done
       /\ \A k \in 1 .. Len(s) : s[k] = d[e.pstart + done + (k - 1)]
       /\ done + Len(s) = e.len => d[b].next = 0

(***************************************************************************)
(* The walk along the checksum chain of extent e.  walk[n] is where the    *)
(* loop stands after n checksum blocks: the next one, the data blocks      *)
(* validated, the blocks visited, and whether every test passed so far.    *)
(***************************************************************************)
StartWalk(e) == [at |-> e.csum, done |-> 0, path |-> << >>, ok |-> TRUE]

ReadSums(d, e, w) ==
    IF ~w.ok \/ w.done = e.len THEN w
    ELSE IF ~SumsOK(d, e, w.at, w.done) THEN [w EXCEPT !.ok = FALSE]
    ELSE [at |-> d[w.at].next, done |-> w.done + Len(d[w.at].sums),
          path |-> Append(w.path, w.at), ok |-> TRUE]

ChainWalk(d, e) ==
    LET walk[n \in 0 .. e.len] ==
          IF n = 0 THEN StartWalk(e) ELSE ReadSums(d, e, walk[n - 1])
    IN  walk[e.len]

ExtentOK(d, e) ==
    /\ e.len # 0
    /\ InDataRegion(d, e.pstart) /\ InDataRegion(d, e.pstart + (e.len - 1))
    /\ InDataRegion(d, e.csum)
    /\ ChainWalk(d, e).ok

(* The extents follow each other without holes in the file.                *)
Contiguous(es) ==
    \A k \in DOMAIN es :
        es[k].lstart = IF k = 1 THEN 0 ELSE es[k - 1].lstart + es[k - 1].len

FileBlocks(es) ==
    IF es = << >> THEN 0 ELSE es[Len(es)].lstart + es[Len(es)].len

ExtentsOf(d, i) == d[InodeOf(d, i).root].exts

FileOK(d, i) ==
    LET ino == InodeOf(d, i) IN
    /\ i \in DirRefs(d)
    /\ InDataRegion(d, ino.root)
    /\ d[ino.root].kind = "extents"
    /\ d[ino.root].next = 0
    /\ \A k \in DOMAIN ExtentsOf(d, i) : ExtentOK(d, ExtentsOf(d, i)[k])
    /\ Contiguous(ExtentsOf(d, i))
    /\ FileBlocks(ExtentsOf(d, i)) = ino.blocks
    /\ ino.size = ino.blocks

InodeOK(d, i) ==
    LET mode == InodeOf(d, i).mode IN
    IF i \notin Allocated(d) THEN mode = "none"
    ELSE \/ mode = "dir" /\ i = 0 /\ InodeOf(d, i).root = DirBlock
         \/ mode = "reg" /\ FileOK(d, i)

(* The intervals noted for a file: its extent node, its extents and their  *)
(* checksum blocks, each told apart by where it was noted.                 *)
UsedBy(d, i) ==
    LET es == ExtentsOf(d, i) IN
    {Interval(<<i, 0, 0>>, InodeOf(d, i).root, 1)}
      \cup {Interval(<<i, k, 0>>, es[k].pstart, es[k].len) : k \in DOMAIN es}
      \cup UNION {{Interval(<<i, k, j>>, ChainWalk(d, es[k]).path[j], 1) :
                     j \in DOMAIN ChainWalk(d, es[k]).path} : k \in DOMAIN es}

FreeList(d) == d[FreeBlock].exts

FreeListOK(d) ==
    /\ d[FreeBlock].next = 0
    /\ \A k \in DOMAIN FreeList(d) :
         LET e == FreeList(d)[k]
             last_end == IF k = 1 THEN DataStart
                         ELSE FreeList(d)[k - 1].pstart + FreeList(d)[k - 1].len
         IN  e.len # 0 /\ last_end <= e.pstart /\ e.pstart + e.len <= Blocks(d)

FreeIntervals(d) ==
    {Interval(<<-1, k, 0>>, FreeList(d)[k].pstart, FreeList(d)[k].len) :
        k \in DOMAIN FreeList(d)}

(* free_blocks: the lengths of the free extents, added up.                 *)
FreeBlocks(es) ==
    LET sum[k \in 0 .. Len(es)] == IF k = 0 THEN 0 ELSE sum[k - 1] + es[k].len
    IN  sum[Len(es)]

(* The scan accepts exactly the tilings of the data region (Coverage).     *)
SpaceOK(d) ==
    /\ FreeListOK(d)
    /\ ExactTiling(FreeIntervals(d) \cup UNION {UsedBy(d, i) : i \in RegularFiles(d)},
                   DataStart, Blocks(d))
    /\ d[SuperBlock].free = FreeBlocks(FreeList(d))

ValidateOK(d) ==
    /\ d[JournalBlock].outstanding = 0
    /\ 0 \in Allocated(d)
    /\ RootDirOK(d)
    /\ \A i \in Inodes : InodeOK(d, i)
    /\ SpaceOK(d)

(* What aetherfs scrub reports as clean.                                   *)
Accepted(d) == LoadOK(d) /\ ValidateOK(d)

-----------------------------------------------------------------------------
(* The contents of a file, block by block, and the name space.             *)
ContentOf(d, i) ==
    LET es == ExtentsOf(d, i) IN
    [n \in 0 .. (FileBlocks(es) - 1) |->
        LET k == CHOOSE k \in DOMAIN es :
                    es[k].lstart <= n /\ n < es[k].lstart + es[k].len
        IN  d[es[k].pstart + (n - es[k].lstart)]]

Entries(d) == d[DirBlock].ents

FileNames(d) == {n \in DOMAIN Entries(d) : Entries(d)[n] \in RegularFiles(d)}

NameSpace(d) == [n \in FileNames(d) |-> ContentOf(d, Entries(d)[n])]
=============================================================================
