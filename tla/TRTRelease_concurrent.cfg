SPECIFICATION FairSpec
CONSTANTS
  Handlers = {h1, h2}
  Releases = {r1}
  Endpoints = {"READ", "PREPARE", "APPLY", "DECIDE"}
  MaxVersion = 3
  MaxRequests = 2
  MaxCrashes = 1
  None = None
  Empty = Empty
  Torn = Torn
INVARIANTS
  DecisionAudited
  AppliedToItsBase
PROPERTIES
  PointerCatchesUp
