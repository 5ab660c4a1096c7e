CONSTANTS
  max_count = 2
  SYS <- MCSYS
  Keys <- MCKeys
  Hash <- MCHash
  Jump <- MCJump
  Vals = {v1, v2}
  NULL = NULL
  MaxObjs = 3
SPECIFICATION Spec
INVARIANTS RegistryLive  TablesExist
 
