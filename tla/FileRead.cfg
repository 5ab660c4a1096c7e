CONSTANTS
  BLOCK_SIZE = 4
  EXT4_NDIR_BLOCKS = 2
  ADDRESSES_IN_IND_BLOCK = 2
  U32 = 128
  U64 = 1024
  PREAD_BLOCK_SIZE = 2
  IndexBlock <- MCIndexBlock
  ExtentBlock <- MCExtentBlock
  Files <- MCFiles
  Requests <- MCRequests
  Zero = Zero
SPECIFICATION FairSpec
INVARIANTS ReadsMappedContent  LoopStaysInFile
PROPERTY ReadReturns
