CONSTANTS
  None = None
  l1 = l1
  l2 = l2
  t1 = t1
  t2 = t2
  t3 = t3
  s1 = s1
  s2 = s2
  ENT = ENT
  Lines = {l1, l2}
  Tools = {t1, t2, t3}
  TypeOf <- MCTypeOf
  Forceps = {"FORCEPS"}
  LegacyHandles = {}
  SetTypes <- MCSetTypes
  Modes <- MCModes
  InitialTRT <- MCInitialTRT
  InitialTimes <- MCInitialTimes
  Times <- MCTimes
  Candidates <- MCCandidates
  Regenerations <- MCRegenerations
  Slots = {s1, s2}
  MaxAttempts = 2
  MaxVersion = 3
  MaxTimes = 1
  MaxRequests = 3
SPECIFICATION Spec
SYMMETRY Symmetric
INVARIANTS
  RequestedValuesReviewed
PROPERTIES
  UnnamedLinesKept
  ExclusionsAccumulate
  ErrorLineNamed
CHECK_DEADLOCK FALSE
