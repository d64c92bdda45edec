SPECIFICATION Spec
CONSTANTS
  None = None
  l1 = l1
  l2 = l2
  MaxAttempts = 2
  Contexts <- MCContexts
  Proposals <- MCProposals
  Databases <- MCDatabases
  Logs <- MCLogs
INVARIANTS
  LocksKept
  BatchSound
  WinnerComplied
  WinnerDeployable
  CleanRunWins
CHECK_DEADLOCK FALSE
