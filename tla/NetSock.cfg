CONSTANTS
  num_threads = 3
  U64 = 1000
  MaxConns = 5
SPECIFICATION FairSpec
INVARIANTS TypeOK ReportSound Balanced HandedOnce Conserved
PROPERTY ReportSettles
