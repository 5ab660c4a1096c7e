CONSTANTS
  Threads = {t1, t2}
  Entries = {e1, e2, e3, e4, e5, e6}
  Root = Root
  Nil = Nil
  Names <- MCNames
  NameLen <- MCNameLen
  DCACHE_ENTRY_NAME_LEN = 40
  Inodes <- MCInodes
  ROOT_INODE_N = 2
  Paths <- ShortPaths
  Disk <- MCDisk
  MaxCalls = 6
  MaxRacing = 3
SPECIFICATION FairSpec
INVARIANTS TypeOK TreeSafe ResolvesToDisk EntriesMatchDisk
 
