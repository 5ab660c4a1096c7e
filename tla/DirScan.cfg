CONSTANTS
  BLOCK_SIZE = 4
  Dirs <- MCDirs
  Names <- MCNames
  NoName = ""
  Capacity = 2
  MaxRewinds = 2
SPECIFICATION Spec
INVARIANTS DeliveredExactlyOnce LookupAnswersDirectory
PROPERTY ReachesEnd
