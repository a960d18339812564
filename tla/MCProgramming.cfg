CONSTANTS
  NodeCount = 3
  AddrRange = 4
  MacRange = 3
  DefaultAddr = 2
  DiagIds = {0, 3}
  QueueLen = 2
  MaxScans = 2
SPECIFICATION FairSpec
INVARIANT TypeOK
INVARIANT EndsUnique
PROPERTY OnlyConflictsAreSolved
PROPERTY ProgrammingEnds
CHECK_DEADLOCK FALSE
