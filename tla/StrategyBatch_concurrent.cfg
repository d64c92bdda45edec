SPECIFICATION Spec
CONSTANTS
  Batches = {b1}
  Clients = {c1, c2}
  Candidates = 2
  MaxRuns = 2
  MaxRestarts = 0
  None = None
  b1 = b1
  c1 = c1
  c2 = c2
SYMMETRY Symmetry
INVARIANT OneBatchAtATime
INVARIANT RunsOfOneThread
INVARIANT SelectionSound
