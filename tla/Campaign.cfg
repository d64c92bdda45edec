SPECIFICATION FairSpec
CONSTANTS
  Candidates = 1
  MaxRuns = 2
  MaxDirect = 1
  MaxFaults = 1
  MaxBatches = 2
  Tests <- TwoTests
INVARIANTS
  OneSimulatorUnlessAbandoned
  CompletedIsReal
  ForeignRunExplained
  RowsOnce
PROPERTIES
  SessionEnds
CHECK_DEADLOCK FALSE
