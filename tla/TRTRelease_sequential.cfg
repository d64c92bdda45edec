SPECIFICATION Spec
CONSTANTS
  Handlers = {h1}
  Releases = {r1, r2}
  Endpoints = {"READ", "REPAIR", "RESET", "PREPARE", "APPLY", "DECIDE"}
  MaxVersion = 3
  MaxRequests = 2
  MaxCrashes = 2
  None = None
  Empty = Empty
  Torn = Torn
SYMMETRY Symmetry
INVARIANTS
  PointerLag
  UnauditedOnlyByRestart
  TurnedDownOnlyByRestart
  NothingTorn
PROPERTIES
  ImplementsLedger
