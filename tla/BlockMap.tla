------------------------------ MODULE BlockMap ------------------------------
(***************************************************************************)
(* Logical to physical block mapping of a file: the extent tree of ext4    *)
(* (fuse/extents.c) and the indirect blocks of ext2/3                      *)
(* (fuse/inode.c, inode_get_data_pblock).                                  *)
(*                                                                         *)
(* An inode is [size, extents, i_block, blocks, parts].  With extents,     *)
(* i_block is a node of the extent tree: a leaf [depth |-> 0, ee |->       *)
(* <<[block, len, start], ...>>] or an index [depth |-> d, ei |->          *)
(* <<[block, leaf], ...>>] whose leaf is the block holding the next node.  *)
(* Without, i_block is the array of block numbers, where 0 stands for a    *)
(* hole.  Two fields are history: blocks lists the physical block of every *)
(* logical block, parts the nodes of the tree with the range lo..(hi - 1)  *)
(* of logical blocks that each is responsible for.                         *)
(***************************************************************************)
EXTENDS Integers, Sequences

CONSTANTS
  BLOCK_SIZE,              \* bytes in a block
  EXT4_NDIR_BLOCKS,        \* direct entries of i_block
  ADDRESSES_IN_IND_BLOCK,  \* block numbers in an index block
  U32,                     \* 2^32, the modulus of uint32_t arithmetic
  IndexBlock,              \* IndexBlock[b][i]: the i-th block number in block b
  ExtentBlock              \* ExtentBlock[b]: the extent tree node in block b

ASSUME GeometryAssumption ==
  /\ BLOCK_SIZE \in Nat \ {0}
  /\ EXT4_NDIR_BLOCKS \in Nat \ {0}
  /\ ADDRESSES_IN_IND_BLOCK \in Nat \ {0}
  /\ U32 \in Nat \ {0}

ADDRESSES_IN_DIND_BLOCK == ADDRESSES_IN_IND_BLOCK * ADDRESSES_IN_IND_BLOCK
ADDRESSES_IN_TIND_BLOCK == ADDRESSES_IN_DIND_BLOCK * ADDRESSES_IN_IND_BLOCK
MAX_IND_BLOCK == EXT4_NDIR_BLOCKS + ADDRESSES_IN_IND_BLOCK
MAX_DIND_BLOCK == MAX_IND_BLOCK + ADDRESSES_IN_DIND_BLOCK
MAX_TIND_BLOCK == MAX_DIND_BLOCK + ADDRESSES_IN_TIND_BLOCK
EXT4_IND_BLOCK == EXT4_NDIR_BLOCKS
EXT4_DIND_BLOCK == EXT4_IND_BLOCK + 1
EXT4_TIND_BLOCK == EXT4_DIND_BLOCK + 1

BYTES2BLOCKS(n) == n \div BLOCK_SIZE + (IF n % BLOCK_SIZE # 0 THEN 1 ELSE 0)

-----------------------------------------------------------------------------
(* A mapping: a physical block (0: none) and the length of the run.        *)
Mapping(p, n) == [pblock |-> p, len |-> n]

(* Mutant: the run of an extent is taken from its first block on.          *)
ExtentFromStart(ee, lblock) ==
  LET ends == {i \in 1..Len(ee) : ee[i].block + ee[i].len > lblock}
      i == CHOOSE j \in ends : \A k \in ends : j <= k
  IN  IF ends = {} THEN Mapping(0, 1)
      ELSE Mapping(ee[i].start, ee[i].block + ee[i].len - lblock)

(* The first extent that ends behind lblock is taken to contain it; the    *)
(* offset into it is a uint32_t.  Behind the last extent there is nothing. *)
extent_get_block_from_ees(ee, lblock) ==
  LET ends == {i \in 1..Len(ee) : ee[i].block + ee[i].len > lblock}
      i == CHOOSE j \in ends : \A k \in ends : j <= k
  IN  IF ends = {} THEN Mapping(0, 1)
      ELSE Mapping((ee[i].start + ((lblock - ee[i].block) % U32)) % U32,
                   ee[i].block + ee[i].len - lblock)

(* The last index entry that starts at or before lblock is followed.       *)
ExtentChild(node, lblock) ==
  LET below == {i \in 1..Len(node.ei) :
                  \A j \in 1..i : node.ei[j].block <= lblock}
  IN  ExtentBlock[node.ei[CHOOSE i \in below : \A j \in below : j <= i].leaf]

(* Down the tree; depth decreases at every index node.                     *)
extent_get_pblock(root, lblock) ==
  LET node[d \in 0..root.depth] ==
        IF d = root.depth THEN root ELSE ExtentChild(node[d + 1], lblock)
  IN  extent_get_block_from_ees(node[0].ee, lblock)

inode_get_data_pblock_ind(lblock, b) == IndexBlock[b][lblock]

inode_get_data_pblock_dind(lblock, b) ==
  inode_get_data_pblock_ind(lblock % ADDRESSES_IN_IND_BLOCK,
                            IndexBlock[b][lblock \div ADDRESSES_IN_IND_BLOCK])

inode_get_data_pblock_tind(lblock, b) ==
  inode_get_data_pblock_dind(lblock % ADDRESSES_IN_DIND_BLOCK,
                             IndexBlock[b][lblock \div ADDRESSES_IN_DIND_BLOCK])

inode_get_data_pblock(inode, lblock) ==
  CASE inode.extents -> extent_get_pblock(inode.i_block, lblock)
    [] ~inode.extents /\ lblock < EXT4_NDIR_BLOCKS ->
         Mapping(inode.i_block[lblock], 1)
    [] ~inode.extents /\ lblock \in EXT4_NDIR_BLOCKS..(MAX_IND_BLOCK - 1) ->
         Mapping(inode_get_data_pblock_ind(lblock - EXT4_NDIR_BLOCKS,
                                           inode.i_block[EXT4_IND_BLOCK]), 1)
    [] ~inode.extents /\ lblock \in MAX_IND_BLOCK..(MAX_DIND_BLOCK - 1) ->
         Mapping(inode_get_data_pblock_dind(lblock - MAX_IND_BLOCK,
                                            inode.i_block[EXT4_DIND_BLOCK]), 1)
    [] OTHER ->
         Mapping(inode_get_data_pblock_tind(lblock - MAX_DIND_BLOCK,
                                            inode.i_block[EXT4_TIND_BLOCK]), 1)

-----------------------------------------------------------------------------
(* The physical block of a logical block of a file, 0 in a hole: what the  *)
(* on-disk structures of the image encode (history).                       *)
PhysicalBlock(inode, lblock) == inode.blocks[lblock + 1]

(* No extent lies behind a hole, no index block is missing.                *)
HolesOnlyAtEnd(inode) ==
  \A l \in 0..(Len(inode.blocks) - 1) : PhysicalBlock(inode, l) = 0 =>
    IF inode.extents
    THEN \A k \in l..(Len(inode.blocks) - 1) : PhysicalBlock(inode, k) = 0
    ELSE l < EXT4_NDIR_BLOCKS

-----------------------------------------------------------------------------
(* What it means that the structures on the disk encode the blocks of a    *)
(* file.  The extents of a leaf that contain a block:                      *)
Extents(ee, lblock) ==
  {i \in 1..Len(ee) : lblock \in ee[i].block..(ee[i].block + ee[i].len - 1)}

(* The extents ee of a leaf are in order, lie in its range and start in    *)
(* the file, and give the blocks lo..(hi - 1).                             *)
LeafEncodes(inode, ee, lo, hi) ==
  /\ \A i \in 1..Len(ee) :
       /\ ee[i].block \in lo..(Len(inode.blocks) - 1) /\ ee[i].block + ee[i].len <= hi
       /\ ee[i].len \in Nat \ {0} /\ ee[i].start \in Nat \ {0}
       /\ ee[i].start + ee[i].len <= U32
  /\ \A i, j \in 1..Len(ee) : i < j => ee[i].block + ee[i].len <= ee[j].block
  /\ \A l \in lo..(hi - 1) : l < Len(inode.blocks) =>
       /\ Extents(ee, l) = {} => PhysicalBlock(inode, l) = 0
       /\ \A i \in Extents(ee, l) : PhysicalBlock(inode, l) = ee[i].start + (l - ee[i].block)

(* The entries of an index node share its range out among its children.    *)
IndexEncodes(inode, node, lo, hi) ==
  /\ Len(node.ei) > 0 /\ node.ei[1].block <= lo
  /\ \A i \in 1..Len(node.ei) : node.ei[i].block \in Nat
  /\ \A i, j \in 1..Len(node.ei) : i < j => node.ei[i].block < node.ei[j].block
  /\ \A i \in 1..Len(node.ei) : \E child \in inode.parts :
       /\ child.node = ExtentBlock[node.ei[i].leaf] /\ child.node.depth = node.depth - 1
       /\ child.lo = node.ei[i].block
       /\ child.hi = IF i = Len(node.ei) THEN hi ELSE node.ei[i + 1].block

TreeEncodes(inode) ==
  /\ \E root \in inode.parts :
       root.node = inode.i_block /\ root.lo = 0 /\ root.hi >= Len(inode.blocks)
  /\ \A p \in inode.parts :
       /\ p.lo \in Nat /\ p.hi \in Nat /\ p.node.depth \in Nat
       /\ IF p.node.depth = 0
          THEN Len(p.node.ee) \in Nat /\ LeafEncodes(inode, p.node.ee, p.lo, p.hi)
          ELSE Len(p.node.ei) \in Nat /\ IndexEncodes(inode, p.node, p.lo, p.hi)

(* Block numbers of ext2/3: direct, then by one, two and three indices; an *)
(* index block that is missing stands for holes.                           *)
Entry(b, i) == IF b = 0 THEN 0 ELSE IndexBlock[b][i]

IndirectEncodes(inode) ==
  LET A == ADDRESSES_IN_IND_BLOCK
      Is(l, p) == l < Len(inode.blocks) => PhysicalBlock(inode, l) = p
  IN  /\ Len(inode.blocks) <= MAX_TIND_BLOCK
      /\ \A i \in 0..(EXT4_NDIR_BLOCKS - 1) : Is(i, inode.i_block[i])
      /\ \A i \in 0..(A - 1) :
           Is(EXT4_NDIR_BLOCKS + i, Entry(inode.i_block[EXT4_IND_BLOCK], i))
      /\ \A i, j \in 0..(A - 1) :
           Is(EXT4_NDIR_BLOCKS + A + (A * i + j),
              Entry(Entry(inode.i_block[EXT4_DIND_BLOCK], i), j))
      /\ \A i, j, k \in 0..(A - 1) :
           Is(EXT4_NDIR_BLOCKS + A + A * A + (A * (A * i + j) + k),
              Entry(Entry(Entry(inode.i_block[EXT4_TIND_BLOCK], i), j), k))

(* The structures on the disk give the blocks of the file.                 *)
Encoded(inode) ==
  /\ inode.extents \in BOOLEAN
  /\ inode.blocks \in Seq(Nat) /\ Len(inode.blocks) = BYTES2BLOCKS(inode.size)
  /\ IF inode.extents THEN TreeEncodes(inode) ELSE IndirectEncodes(inode)
=============================================================================
