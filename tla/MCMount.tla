------------------------------ MODULE MCMount -------------------------------
(***************************************************************************)
(* Four disks: blocks of 1K with two groups, the second not full, and      *)
(* small descriptors and inodes; blocks of 4K with large ones; a disk cut  *)
(* off behind its first group; something that is not a file system.        *)
(***************************************************************************)
EXTENDS Mount

Super1K ==
  [s_magic |-> EXT4_MAGIC, s_log_block_size |-> 0, s_blocks_count_lo |-> 30,
   s_blocks_per_group |-> 16, s_inodes_per_group |-> 16, s_inode_size |-> 128,
   s_desc_size |-> 0]

Super4K ==
  [s_magic |-> EXT4_MAGIC, s_log_block_size |-> 2, s_blocks_count_lo |-> 32,
   s_blocks_per_group |-> 16, s_inodes_per_group |-> 16, s_inode_size |-> 256,
   s_desc_size |-> 64]

Disk1K ==
  [super |-> Super1K, first_data_block |-> 1, tables |-> <<5, 20>>, bytes |-> 30 * 1024,
   inodes |-> {2, 16, 17, 20},
   links |-> [n \in {16, 20} |-> [size |-> IF n = 16 THEN 59 ELSE 61, pblock |-> 25]]]

Disk4K ==
  [super |-> Super4K, first_data_block |-> 0, tables |-> <<4, 18>>, bytes |-> 32 * 4096,
   inodes |-> {2, 32}, links |-> [n \in {32} |-> [size |-> 200, pblock |-> 11]]]

MCImages == <<Disk1K, Disk4K,
              [Disk1K EXCEPT !.bytes = 17 * 1024, !.inodes = {2, 17}],
              [Disk1K EXCEPT !.super.s_magic = 0]>>
=============================================================================
