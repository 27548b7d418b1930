------------------------------ MODULE MCImages ------------------------------
(* Small images for model checking.                                        *)
EXTENDS AetherImage

Blank(n) == [b \in 0 .. (n - 1) |-> Zero]

(* One file of one block at the start of the data region.                  *)
OneFile(n) ==
    [b \in 0 .. (n - 1) |->
        CASE b = LabelBlock   -> Zero
          [] b = SuperBlock   -> Super(n, n - (DataStart + 3), 1)
          [] b = InodeBlock   -> InodeTable([i \in Inodes |->
                                   CASE i = 0 -> RootInode
                                     [] i = 1 -> File(DataStart, 1, 1)
                                     [] OTHER -> NoInode])
          [] b = DirBlock     -> Directory([x \in {"a"} |-> 1])
          [] b = JournalBlock -> Journal(0)
          [] b = BitmapBlock  -> Bitmap({0, 1})
          [] b = FreeBlock    -> ExtentNode(IF n = DataStart + 3 THEN << >>
                                   ELSE <<Extent(0, DataStart + 3, 0, n - (DataStart + 3))>>)
          [] b = RootBlock    -> CheckpointRoot(n)
          [] b = DataStart    -> ExtentNode(<<Extent(0, DataStart + 2, DataStart + 1, 1)>>)
          [] b = DataStart + 2 -> Data("old")
          [] b = DataStart + 1 -> Checksums(<<Data("old")>>, 0)
          [] OTHER            -> Zero]

(* A member of a pool of two, its label and superblock still in place.     *)
PoolMember(n) ==
    [OneFile(n) EXCEPT ![LabelBlock] = Label(2, 2 * n),
                       ![SuperBlock] = Super(2 * n, 0, 2)]
=============================================================================
