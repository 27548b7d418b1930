---------------------------- MODULE MCRebalance ----------------------------
(* Sources for rebalance: two files cut into pieces that lie in the data   *)
(* region in every order, with a hole among them.                          *)
EXTENDS Rebalance, SequencesExt

(* Pieces: <<file, part>> and a length; file 0 is the hole.                *)
Piece(f, p, n) == [file |-> f, part |-> p, len |-> n]

First  == << Piece(1, "root", 1), Piece(1, "data1", 2), Piece(1, "sums1", 1) >>
Second == << Piece(1, "sums2", 1), Piece(1, "data2", 1) >>
Other  == << Piece(2, "data1", 1), Piece(2, "root", 1), Piece(2, "sums1", 1) >>
Hole   == << Piece(0, "hole", 1) >>
Void   == << Piece(3, "root", 1) >>
Single == << Piece(1, "root", 1), Piece(1, "data1", 1), Piece(1, "sums1", 1) >>

Orders(groups) == {FlattenSeq(g) : g \in SetToSeqs(groups)}

At(ps, k) == DataStart + SumFunction([j \in 1 .. (k - 1) |-> ps[j].len])

Find(ps, f, p) ==
    At(ps, CHOOSE k \in DOMAIN ps : ps[k].file = f /\ ps[k].part = p)

Has(ps, f, p) == \E k \in DOMAIN ps : ps[k].file = f /\ ps[k].part = p

FileExtents(ps, f) ==
    CASE Has(ps, f, "data2") ->
           << Extent(0, Find(ps, f, "data1"), Find(ps, f, "sums1"), 2),
              Extent(2, Find(ps, f, "data2"), Find(ps, f, "sums2"), 1) >>
      [] Has(ps, f, "data1") ->
           << Extent(0, Find(ps, f, "data1"), Find(ps, f, "sums1"), 1) >>
      [] OTHER -> << >>

(* The block at offset o of piece k.                                       *)
BlockOf(ps, k, o) ==
    LET f == ps[k].file  Value(n) == Data(<<f, n>>) IN
    CASE ps[k].part = "root"  -> ExtentNode(FileExtents(ps, f))
      [] ps[k].part = "data1" -> Value(o)
      [] ps[k].part = "data2" -> Value(2)
      [] ps[k].part = "sums1" ->
            Checksums([n \in 1 .. FileExtents(ps, f)[1].len |-> Value(n - 1)], 0)
      [] ps[k].part = "sums2" -> Checksums(<<Value(2)>>, 0)
      [] ps[k].part = "hole"  -> Zero

Holes(ps) == SelectSeq([k \in DOMAIN ps |-> k], LAMBDA k : ps[k].file = 0)

Image(ps) ==
    LET n     == At(ps, Len(ps) + 1)
        files == {ps[k].file : k \in DOMAIN ps} \ {0}
        name  == << "a", "b", "c" >>
        free  == [h \in DOMAIN Holes(ps) |->
                    Extent(0, At(ps, Holes(ps)[h]), 0, ps[Holes(ps)[h]].len)]
    IN  [b \in 0 .. (n - 1) |->
          CASE b = LabelBlock   -> Zero
            [] b = SuperBlock   -> Super(n, Len(Holes(ps)), 1)
            [] b = InodeBlock   -> InodeTable([i \in Inodes |->
                 IF i = 0 THEN RootInode
                 ELSE IF i \notin files THEN NoInode
                 ELSE LET z == FileBlocks(FileExtents(ps, i))
                      IN  File(Find(ps, i, "root"), z, z)])
            [] b = DirBlock     -> Directory([x \in {name[f] : f \in files} |->
                 CHOOSE f \in files : name[f] = x])
            [] b = JournalBlock -> Journal(0)
            [] b = BitmapBlock  -> Bitmap({0} \cup files)
            [] b = FreeBlock    -> ExtentNode(free)
            [] b = RootBlock    -> CheckpointRoot(n)
            [] OTHER -> LET k == CHOOSE k \in DOMAIN ps :
                                   At(ps, k) <= b /\ b < At(ps, k) + ps[k].len
                        IN  BlockOf(ps, k, b - At(ps, k))]

(* An image scrub rejects: the free count is wrong.                        *)
Unclean == [Image(First \o Second \o Hole) EXCEPT ![SuperBlock].free = 0]

Layouts == Orders({First, Second, Other}) \cup Orders({First, Second, Other, Hole})
             \cup {Single \o Hole \o Void}

(* Two files of one block each, the second one in front of the first.      *)
Swapped == << Piece(2, "root", 1), Piece(2, "data1", 1), Piece(2, "sums1", 1) >> \o Single

Sources_MC ==
    {[device |-> v, disk |-> Image(ps)] : v \in BOOLEAN, ps \in Layouts}
      \cup {[device |-> FALSE, disk |-> Unclean], [device |-> TRUE, disk |-> Image(Swapped)]}
=============================================================================
