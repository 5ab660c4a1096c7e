CONSTANTS
  Callers = {t1, t2}
  CHUNK_OP_LEN = 2
  U32 = 8
  U64 = 64
  Lens = {3, 4}
  Poss = {0, 1}
  Contents <- MCContents
  MaxCalls = 2
  MaxFailures = 1
SPECIFICATION Spec
INVARIANTS WholeOrError WrittenInOrder ReadsForward
PROPERTIES NotReadBack CallsReturn
