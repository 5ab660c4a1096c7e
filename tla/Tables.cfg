CONSTANTS
  max_count = 2
  Keys <- MCKeys
  Hash <- MCHash
  Jump <- MCJump
  Vals = {v1, v2}
  NULL = NULL
  Zeroed = Zeroed
SPECIFICATION TablesSpec
INVARIANTS TableWellFormed ChunkCacheHoldsNothing
PROPERTY ImplementsMap
