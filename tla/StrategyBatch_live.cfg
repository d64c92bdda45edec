SPECIFICATION FairSpec
CONSTANTS
  Batches = {b1, b2}
  Clients = {c1}
  Candidates = 1
  MaxRuns = 2
  MaxRestarts = 1
  None = None
  b1 = b1
  b2 = b2
  c1 = c1
PROPERTY PolledBatchSettles
PROPERTY ThreadsEnd
