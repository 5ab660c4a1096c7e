CONSTANTS
  U32 = 1048576
  Threads = {t1, t2}
  main = main
  Free = Free
  Images <- MCImages
  MaxRequests = 2
SPECIFICATION Spec
INVARIANTS LinesWhole ServesWhatIsThere Answered AbortsOnlyIfCut
PROPERTY NothingHangs
