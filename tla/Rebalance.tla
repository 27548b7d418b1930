----------------------------- MODULE Rebalance -----------------------------
(***************************************************************************)
(* aetherfs rebalance (aetherfsprogs/rebalance.c): the files of an image   *)
(* are rewritten one after the other into a temporary image, which then    *)
(* replaces the original: by rename for a regular file, by copying block   *)
(* after block over a device.  Any system call may fail and the process    *)
(* may be killed between any two steps.  Pages reach the medium in order;  *)
(* power loss is not modelled.                                             *)
(***************************************************************************)
EXTENDS AetherImage

CONSTANT Sources   \* records [device, disk]: what the path may refer to

ASSUME RebalanceAssumption ==
    \A s \in Sources : s.device \in BOOLEAN /\ WellFormedDisk(s.disk)

VARIABLES
    device,      \* the path is a block device
    path,        \* the image under the path
    temp,        \* the temporary image
    tab,         \* target->inode_table, in memory until the end
    index,       \* the inode the loop looks at
    next_block,  \* first block of the target not yet given away
    blocknr,     \* position of the copy over the device
    pc, origin   \* origin is the image before the run

vars == << device, path, temp, tab, index, next_block, blocknr, pc, origin >>

Init ==
    /\ \E s \in Sources : device = s.device /\ path = s.disk
    /\ origin = path
    /\ temp = << >> /\ tab = << >>
    /\ index = 1 /\ next_block = DataStart /\ blocknr = 0 /\ pc = "open"

(* The outcomes of a run: "done", "refused" for a source that is not clean,*)
(* "enospc" and "invalid" for a target that is full or fails validation,   *)
(* "failed" for a failed call or a killed process.                         *)
Outcomes == {"done", "refused", "enospc", "invalid", "failed"}

-----------------------------------------------------------------------------
(* Load and validate the source.                                           *)
OpenSource ==
    /\ pc = "open"
    /\ pc' = IF Accepted(path) THEN "temp" ELSE "refused"
    /\ UNCHANGED << device, path, temp, tab, index, next_block, blocknr, origin >>

(* Create the temporary image beside the file, or where there is room for  *)
(* it (otherwise Fail), copy the reserved blocks to it and load it.        *)
Reserved == 0 .. (DataStart - 1)

copy_reserved_blocks ==
    [b \in DOMAIN path |-> IF b \in Reserved THEN path[b] ELSE Zero]

make_temp ==
    /\ pc = "temp"
    /\ temp' = copy_reserved_blocks
    /\ tab' = [i \in Inodes |-> InodeOf(path, i)]
    /\ pc' = "inodes"
    /\ UNCHANGED << device, path, index, next_block, blocknr, origin >>

-----------------------------------------------------------------------------
(* One iteration of the loop over the inodes.                              *)
Full_exact(n) == n >= Blocks(temp)
Full(n) == n > Blocks(temp)

checksum_blocks(n) == (n + SumsPerBlock - 1) \div SumsPerBlock

copy_file_data_firstExtent(i, start) ==
    [b \in start .. (start + (FileBlocks(ExtentsOf(path, i)) - 1)) |->
        path[ExtentsOf(path, i)[1].pstart + (b - start)]]

(* The target blocks of the file data, extent after extent.                *)
copy_file_data(i, start) ==
    [b \in start .. (start + (FileBlocks(ExtentsOf(path, i)) - 1)) |->
        ContentOf(path, i)[b - start]]

(* The k-th checksum block covers the next SumsPerBlock data blocks.       *)
write_checksum_chain(data, start, n, csum) ==
    [b \in csum .. (csum + (checksum_blocks(n) - 1)) |->
        LET first == (b - csum) * SumsPerBlock
            count == IF n - first > SumsPerBlock THEN SumsPerBlock ELSE n - first
        IN  Checksums([k \in 1 .. count |-> data[start + first + (k - 1)]],
                      IF n - first > count THEN b + 1 ELSE 0)]

(* Each block of w written to the image d.                                 *)
write_blocks(d, w) ==
    [b \in DOMAIN d \cup DOMAIN w |-> IF b \in DOMAIN w THEN w[b] ELSE d[b]]

write_extent_node(b, es) == [x \in {b} |-> ExtentNode(es)]

NextInode_twice == index' = index + 2
NextInode == index' = index + 1

SkipInode ==
    /\ pc = "inodes" /\ index <= MaxInode
    /\ index \notin Allocated(temp) \/ tab[index].mode # "reg"
    /\ NextInode
    /\ UNCHANGED << device, path, temp, tab, next_block, blocknr, pc, origin >>

EmptyInode ==
    /\ pc = "inodes" /\ index <= MaxInode
    /\ index \in Allocated(temp) /\ tab[index].mode = "reg"
    /\ tab[index].blocks = 0
    /\ tab' = [tab EXCEPT ![index].root = 0]
    /\ NextInode
    /\ UNCHANGED << device, path, temp, next_block, blocknr, pc, origin >>

RelocateInode ==
    /\ pc = "inodes" /\ index <= MaxInode
    /\ index \in Allocated(temp) /\ tab[index].mode = "reg"
    /\ tab[index].blocks # 0
    /\ LET n     == InodeOf(path, index).blocks
           root  == next_block
           start == next_block + 1
           csum  == start + n
           data  == copy_file_data(index, start)
       IN /\ next_block' = csum + checksum_blocks(n)
          /\ IF Full(next_block')
             THEN pc' = "enospc" /\ UNCHANGED << temp, tab, index >>
             ELSE /\ temp' = write_blocks(
                               write_blocks(
                                 write_blocks(temp, data),
                                 write_checksum_chain(data, start, n, csum)),
                               write_extent_node(root, <<Extent(0, start, csum, n)>>))
                  /\ tab' = [tab EXCEPT ![index].root = root]
                  /\ NextInode
                  /\ UNCHANGED pc
    /\ UNCHANGED << device, path, blocknr, origin >>

-----------------------------------------------------------------------------
(* The metadata of the target, then the target is read again and checked.  *)
FreeTail_lastBlockLost(n) ==
    IF next_block + 1 < n THEN <<Extent(0, next_block, 0, n - next_block)>> ELSE << >>

FreeTail(n) ==
    IF next_block < n THEN <<Extent(0, next_block, 0, n - next_block)>> ELSE << >>

NewMetadata ==
    [b \in {InodeBlock, FreeBlock, SuperBlock, JournalBlock} |->
        CASE b = InodeBlock   -> InodeTable(tab)
          [] b = FreeBlock    -> ExtentNode(FreeTail(Blocks(temp)))
          [] b = SuperBlock   -> [temp[SuperBlock] EXCEPT !.free = Blocks(temp) - next_block]
          [] b = JournalBlock -> Journal(0)]

WriteMetadata ==
    /\ pc = "inodes" /\ index = MaxInode + 1
    /\ temp' = write_blocks(temp, NewMetadata)
    /\ pc' = "check"
    /\ UNCHANGED << device, path, tab, index, next_block, blocknr, origin >>

CheckTarget ==
    /\ pc = "check"
    /\ pc' = IF Accepted(temp) THEN "publish" ELSE "invalid"
    /\ UNCHANGED << device, path, temp, tab, index, next_block, blocknr, origin >>

-----------------------------------------------------------------------------
(* Publication: rename, or the copy over the device and one more check.    *)
Rename ==
    /\ pc = "publish" /\ ~device
    /\ path' = temp
    /\ pc' = "done"
    /\ UNCHANGED << device, temp, tab, index, next_block, blocknr, origin >>

copy_prefix_to_device_metadataOnly ==
    /\ pc = "publish" /\ device /\ blocknr < next_block
    /\ path' = [path EXCEPT ![blocknr] = temp[blocknr]]
    /\ blocknr' = IF blocknr = RootBlock THEN next_block ELSE blocknr + 1
    /\ UNCHANGED << device, temp, tab, index, next_block, pc, origin >>

copy_prefix_to_device ==
    /\ pc = "publish" /\ device /\ blocknr < next_block
    /\ path' = [path EXCEPT ![blocknr] = temp[blocknr]]
    /\ blocknr' = blocknr + 1
    /\ UNCHANGED << device, temp, tab, index, next_block, pc, origin >>

CheckDevice ==
    /\ pc = "publish" /\ device /\ blocknr = next_block
    /\ pc' = IF Accepted(path) THEN "done" ELSE "failed"
    /\ UNCHANGED << device, path, temp, tab, index, next_block, blocknr, origin >>

(* A failed call leaves through the cleanup labels, a killed process not   *)
(* even that; the temporary file is of no further interest.                *)
Fail ==
    /\ pc \notin Outcomes
    /\ pc' = "failed"
    /\ UNCHANGED << device, path, temp, tab, index, next_block, blocknr, origin >>

Ended == pc \in Outcomes /\ UNCHANGED vars

Next ==
    \/ OpenSource \/ make_temp \/ SkipInode \/ EmptyInode \/ RelocateInode
    \/ WriteMetadata \/ CheckTarget
    \/ Rename \/ copy_prefix_to_device \/ CheckDevice
    \/ Fail \/ Ended

Spec == Init /\ [][Next]_vars
-----------------------------------------------------------------------------
(* The state stays within what rebalance.c may hold.                       *)
TypeOK ==
    /\ device \in BOOLEAN
    /\ pc \in Outcomes \cup {"open", "temp", "inodes", "check", "publish"}
    /\ DOMAIN path = DOMAIN origin
    /\ DOMAIN temp \in {{}, DOMAIN origin} /\ DOMAIN tab \in {{}, Inodes}
    /\ index \in 1 .. (MaxInode + 1)
    /\ next_block \in Nat /\ blocknr \in 0 .. next_block

(***************************************************************************)
(* Whatever fails and whenever the process is killed, the path of a        *)
(* regular file always leads to an image with the files and the contents   *)
(* it had.  The target's checksums are computed from the copied blocks, so *)
(* its validation would not notice a wrong copy.                           *)
(***************************************************************************)
FileModeKeepsFiles ==
    ~device /\ Accepted(origin) =>
        Accepted(path) /\ NameSpace(path) = NameSpace(origin)

(***************************************************************************)
(* A rebalance that succeeds keeps the files, of an image or of a device   *)
(* rewritten in place, and leaves their blocks packed: one free extent at  *)
(* most, up to the end, and at least the free blocks there were.           *)
(***************************************************************************)
DoneCompacts ==
    pc = "done" =>
        /\ Accepted(path)
        /\ NameSpace(path) = NameSpace(origin)
        /\ FreeList(path) \in {<< >>} \cup
              {<<Extent(0, b, 0, Blocks(path) - b)>> : b \in DataStart .. (Blocks(path) - 1)}
        /\ path[SuperBlock].free >= origin[SuperBlock].free

(***************************************************************************)
(* The files of a validated source always fit: one chain of checksum       *)
(* blocks per file needs no more room than one per extent did.             *)
(***************************************************************************)
EveryFileFits == pc # "enospc"

(***************************************************************************)
(* The target the loop builds passes validation unless a file is empty.    *)
(***************************************************************************)
OnlyEmptyFilesFail ==
    pc = "invalid" => \E i \in RegularFiles(origin) : InodeOf(origin, i).blocks = 0
=============================================================================
