SPECIFICATION FairSpec
CONSTANTS
  Runs = {r1}
  Threads = {t1, t2, t3}
  MaxRestarts = 1
  None = None
  r1 = r1
  t1 = t1
  t2 = t2
  t3 = t3
INVARIANTS
  FinalRunEnded
  StatusOfReturnCode
  CompletedIsReadable
PROPERTY
  RequestsAnswered
