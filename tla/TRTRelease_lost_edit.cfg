SPECIFICATION Spec
CONSTANTS
  Handlers = {h1, h2}
  Releases = {r1}
  Endpoints = {"READ", "APPLY"}
  MaxVersion = 3
  MaxRequests = 2
  MaxCrashes = 0
  None = None
  Empty = Empty
  Torn = Torn
SYMMETRY Symmetry
INVARIANT
  BaseIsPredecessor
