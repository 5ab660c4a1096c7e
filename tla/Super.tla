------------------------------- MODULE Super --------------------------------
(***************************************************************************)
(* What super.c and inode_get_by_number compute from the super block s and *)
(* the group descriptors, in bytes and blocks of the disk.                 *)
(***************************************************************************)
EXTENDS Integers

CONSTANT U32   \* the modulus of uint32_t

ASSUME U32Assumption == U32 \in Nat \ {0}

BOOT_SECTOR_SIZE == 1024
GROUP_DESC_MIN_SIZE == 32
sizeof == [super |-> 1024, group_desc |-> 64, inode |-> 156, magic |-> 2]
offsetof_s_magic == 56
EXT4_MAGIC == 61267   \* 0xEF53

super_block_size(s) == 2^(s.s_log_block_size + 10)
BLOCKS2BYTES(s, blks) == blks * super_block_size(s)
ALIGN_TO_BLOCKSIZE(s, n) ==
  IF n % super_block_size(s) # 0
  THEN n - (n % super_block_size(s)) + super_block_size(s) ELSE n

(* Mutant: the last group counts only when it is full.                     *)
FullGroups(s) ==
  LET n == s.s_blocks_count_lo \div s.s_blocks_per_group IN IF n = 0 THEN 1 ELSE n

super_n_block_groups(s) ==
  LET n == ((s.s_blocks_count_lo + s.s_blocks_per_group - 1) % U32)
             \div s.s_blocks_per_group
  IN  IF n = 0 THEN 1 ELSE n

(* Mutant: the size of the structure, whatever the disk uses.              *)
SizeOfStruct(s) == sizeof.group_desc

super_group_desc_size(s) ==
  IF s.s_desc_size = 0 THEN GROUP_DESC_MIN_SIZE ELSE sizeof.group_desc

(* Where super_group_fill reads descriptor i.                              *)
group_desc_offset(s, i) ==
  ALIGN_TO_BLOCKSIZE(s, BOOT_SECTOR_SIZE + sizeof.super) + i * super_group_desc_size(s)

(* The assertion of super_group_inode_table_offset, for inode number n.    *)
GroupExists(s, n) == (n - 1) \div s.s_inodes_per_group < super_n_block_groups(s)

(* Mutant: inode 0 is taken to exist on the disk.                          *)
OffsetFromZero(s, gdesc_table, n) ==
  BLOCKS2BYTES(s, gdesc_table[(n - 1) \div s.s_inodes_per_group + 1])
    + (n % s.s_inodes_per_group) * s.s_inode_size

(* Where inode_get_by_number reads inode n; gdesc_table is a sequence.     *)
inode_offset(s, gdesc_table, n) ==
  BLOCKS2BYTES(s, gdesc_table[(n - 1) \div s.s_inodes_per_group + 1])
    + ((n - 1) % s.s_inodes_per_group) * s.s_inode_size

inode_bytes(s) == IF s.s_inode_size < sizeof.inode THEN s.s_inode_size ELSE sizeof.inode
=============================================================================
