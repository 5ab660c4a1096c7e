----------------------------- MODULE MCFileRead -----------------------------
(***************************************************************************)
(* Instances of FileRead: blocks of four bytes, two direct entries and two *)
(* addresses per index block, so that a file of eleven blocks reaches the  *)
(* triple indirect block, and a uint32_t of seven bits, so that one of 35  *)
(* blocks reaches behind it.                                               *)
(***************************************************************************)
EXTENDS FileRead, TLC

Extent(b, n, s) == [block |-> b, len |-> n, start |-> s]
Leaf(exts) == [depth |-> 0, ee |-> exts]
Part(n, l, h) == [node |-> n, lo |-> l, hi |-> h]

(* A file whose extents are in the inode.                                  *)
InInode(bytes, phys, exts) ==
  [size |-> bytes, extents |-> TRUE, blocks |-> phys, i_block |-> Leaf(exts),
   parts |-> {Part(Leaf(exts), 0, Len(phys))}]

(* Two extents, the last block half used.                                  *)
TwoExtents == InInode(10, <<20, 21, 30>>, <<Extent(0, 2, 20), Extent(2, 1, 30)>>)

(* A tree of depth one with two leaves.                                    *)
TreeRoot == [depth |-> 1, ei |-> <<[block |-> 0, leaf |-> 50], [block |-> 3, leaf |-> 51]>>]
MCExtentBlock == 50 :> Leaf(<<Extent(0, 3, 22)>>) @@ 51 :> Leaf(<<Extent(3, 2, 27)>>)
ExtentTree == [size |-> 20, extents |-> TRUE, blocks |-> <<22, 23, 24, 27, 28>>,
               i_block |-> TreeRoot,
               parts |-> {Part(TreeRoot, 0, 5), Part(MCExtentBlock[50], 0, 3),
                          Part(MCExtentBlock[51], 3, 5)}]

(* Direct, single, double and triple indirect blocks; the second direct    *)
(* block is a hole.                                                        *)
Indirect == [size |-> 42, extents |-> FALSE,
             blocks |-> <<31, 0, 33, 34, 35, 36, 37, 38, 39, 40, 41>>,
             i_block |-> 0 :> 31 @@ 1 :> 0 @@ 2 :> 60 @@ 3 :> 61 @@ 4 :> 64,
             parts |-> {}]
Pair(a, b) == 0 :> a @@ 1 :> b
MCIndexBlock ==
  60 :> Pair(33, 34)
  @@ 61 :> Pair(62, 63) @@ 62 :> Pair(35, 36) @@ 63 :> Pair(37, 38)
  @@ 64 :> Pair(65, 0) @@ 65 :> Pair(66, 67) @@ 66 :> Pair(39, 40) @@ 67 :> Pair(41, 0)

(* One block, then a hole up to the end of the file.                       *)
HoleAtEnd == InInode(14, <<42, 0, 0, 0>>, <<Extent(0, 1, 42)>>)

Empty == InInode(0, <<>>, <<>>)

(* One block allocated in the middle of the file.                          *)
HoleAtStart == InInode(12, <<0, 44, 0>>, <<Extent(1, 1, 44)>>)

(* One extent that crosses byte U32.                                       *)
Large == InInode(138, [k \in 1..35 |-> 70 + k], <<Extent(0, 35, 71)>>)

MCFiles == <<TwoExtents, ExtentTree, Indirect, HoleAtEnd, Empty, HoleAtStart, Large>>

(* Small files from every offset, by sizes that end in any of the next     *)
(* three blocks, at the end of the file or behind it; the large one from   *)
(* the last offsets below U32 on.                                          *)
MCRequests ==
  {<<0, 1, 0>>}
  \cup UNION {LET sz == MCFiles[h].size
              IN  {h} \X (0..9 \cup {sz, sz + 1}) \X (0..(sz + 1)) : h \in 1..6}
  \cup ({7} \X (0..9) \X (121..139))

(* Requests for the sparse file.                                           *)
MCSparseRequests == {6} \X (0..12) \X (0..12)
=============================================================================
