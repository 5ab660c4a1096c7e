CONSTANTS
  Threads = {t1}
  Entries = {e1, e2, e3, e4, e5, e6}
  Root = Root
  Nil = Nil
  Names <- MCNames
  NameLen <- MCNameLen
  DCACHE_ENTRY_NAME_LEN = 40
  Inodes <- MCInodes
  ROOT_INODE_N = 2
  Paths <- LongPaths
  Disk <- MCDisk
  MaxCalls = 4
  MaxRacing = 4
SPECIFICATION Spec
INVARIANT ResolvesToDisk
